-------------------------- MODULE MCWebhookOutbox --------------------------
(* Instance of WebhookOutbox for TLC.                                      *)
EXTENDS WebhookOutbox, Combinatorics

(* A good address, none, and one that httpx cannot parse.                  *)
MCSettings == {[url |-> "good", nfc |-> FALSE], [url |-> "null", nfc |-> FALSE],
               [url |-> "odd", nfc |-> FALSE]}

(* Workers that write over each other's count repeat tries, but not for    *)
(* ever: with W workers an endpoint hears of a webhook at most             *)
(* choose(MaxTries + W, W) - 1 times, and once more per worker and crash.  *)
(* One worker makes MaxTries (webhook_service.py:80-108, 137-162).         *)
PostsWithinOverlap ==
    LET W == Cardinality(Workers)
    IN  \A r \in Requests :
          posts[r] <= choose(MaxTries + W, W) - 1 + W * crashes
=============================================================================
