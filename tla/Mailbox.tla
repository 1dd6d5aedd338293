------------------------------ MODULE Mailbox ------------------------------
(***************************************************************************)
(* What a pair of yacl::link channels promises the layer above: each side  *)
(* has a mailbox.  A message that is posted is in the other side's mailbox *)
(* until it is taken, once, by a Recv of its key.  A mailbox drops unread  *)
(* messages only after its owner started to close, unless the channel is   *)
(* configured to be lossy.                                                 *)
(***************************************************************************)
EXTENDS Naturals

CONSTANTS Peers,        \* the two sides
          Keys,         \* message keys
          Lossy         \* TRUE when messages may be dropped at any time

VARIABLES inbox,        \* inbox[p]: messages [key, id] on their way to p or unread
          posted,       \* posted[p]: how many messages p has posted
          taken,        \* taken[p]: ids of the messages p's user received
          closing       \* closing[p]: p stopped receiving

mailVars == <<inbox, posted, taken, closing>>

MailInit == /\ inbox = [p \in Peers |-> {}]
            /\ posted = [p \in Peers |-> 0]
            /\ taken = [p \in Peers |-> {}]
            /\ closing = [p \in Peers |-> FALSE]

\* p posts a message for q; ids count p's messages from 1.
Post(p, q, k) ==
    /\ p # q
    /\ posted' = [posted EXCEPT ![p] = @ + 1]
    /\ inbox' = [inbox EXCEPT ![q] = @ \cup {[key |-> k, id |-> posted[p] + 1]}]
    /\ UNCHANGED <<taken, closing>>

\* p's user receives m: it leaves the mailbox and can not be taken again.
Take(p, m) ==
    /\ m \in inbox[p]
    /\ inbox' = [inbox EXCEPT ![p] = @ \ {m}]
    /\ taken' = [taken EXCEPT ![p] = @ \cup {m.id}]
    /\ UNCHANGED <<posted, closing>>

\* p starts to close; unread messages may go.
Shut(p) ==
    /\ closing' = [closing EXCEPT ![p] = TRUE]
    /\ inbox'[p] \subseteq inbox[p]
    /\ inbox' = [inbox EXCEPT ![p] = inbox'[p]]
    /\ UNCHANGED <<posted, taken>>

\* p's mailbox drops m.
Discard(p, m) ==
    /\ closing[p] \/ Lossy
    /\ inbox' = [inbox EXCEPT ![p] = @ \ {m}]
    /\ UNCHANGED <<posted, taken, closing>>

MailNext == \E p \in Peers :
              \/ \E q \in Peers, k \in Keys : Post(p, q, k)
              \/ \E m \in inbox[p] : Take(p, m) \/ Discard(p, m)
              \/ Shut(p)

MailSpec == MailInit /\ [][MailNext]_mailVars
=============================================================================
