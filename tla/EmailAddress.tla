----------------------------- MODULE EmailAddress -----------------------------
(***************************************************************************)
(* E-mail addresses, up to what telling accounts apart needs: the mailbox, *)
(* the "+dup<id>" marks the migration has put before its "@", and whether  *)
(* it is written clean, with capitals, or with blanks around it.           *)
(***************************************************************************)
EXTENDS Naturals, Sequences

CONSTANTS Mailboxes

Forms == {"clean", "capitals", "blanks"}
Address == [box : Mailboxes, dup : Seq(Nat), form : Forms]

(* normaliseEmail; in the migration, lower(trim(email)). *)
Folded(e) == [e EXCEPT !.form = "clean"]

(* lower(email), which the unique index compares: blanks stay. *)
Lower(e) == IF e.form = "capitals" THEN Folded(e) ELSE e

(* "+dup<id>" before the "@". *)
Renamed(e, id) == [e EXCEPT !.dup = Append(@, id)]

===============================================================================
