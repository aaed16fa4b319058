------------------------------ MODULE MCWebhook ------------------------------
EXTENDS WebhookQueue
=============================================================================
