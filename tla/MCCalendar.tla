------------------------------ MODULE MCCalendar ------------------------------
EXTENDS GoogleCalendar, TLC

(* No fetcher is told from another. *)
FetcherSymmetry == Permutations(Fetchers)
===============================================================================
