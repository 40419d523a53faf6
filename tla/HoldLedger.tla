----------------------------- MODULE HoldLedger -----------------------------
(***************************************************************************)
(* What slow_ack_consumer.py promises about the acks it holds back.        *)
(*                                                                         *)
(* At most MaxHeld messages occupy a hold at any moment.  An ack becomes   *)
(* due in two ways only: the message's own hold ran out, or the message    *)
(* arrived while every hold was occupied.  An ack that is due may be lost  *)
(* with the connection; one that was never due is never recorded.          *)
(***************************************************************************)
EXTENDS Naturals, FiniteSets

CONSTANTS Messages, MaxHeld

VARIABLES
    held,       \* messages that occupy a hold
    ripe,       \* those of them whose delay is over
    due,        \* messages whose ack may be sent
    acked       \* messages the broker recorded as acknowledged

ledger == <<held, ripe, due, acked>>

LedgerInit == held = {} /\ ripe = {} /\ due = {} /\ acked = {}

Free(m) == m \notin held \cup due \cup acked

\* on_message below the limit.
Hold(m) ==
    /\ Free(m) /\ Cardinality(held) < MaxHeld
    /\ held' = held \cup {m} /\ UNCHANGED <<ripe, due, acked>>

\* on_message at the limit: the immediate ack.
Bounce(m) ==
    /\ Free(m) /\ Cardinality(held) = MaxHeld
    /\ due' = due \cup {m} /\ UNCHANGED <<held, ripe, acked>>

\* The delay of the message is over.
Ripen(m) ==
    /\ m \in held \ ripe
    /\ ripe' = ripe \cup {m} /\ UNCHANGED <<held, due, acked>>

\* The ack is handed over; the hold is still occupied until it is given back.
Expire(m) ==
    /\ m \in ripe \ (due \cup acked)
    /\ due' = due \cup {m} /\ UNCHANGED <<held, ripe, acked>>

GiveBack(m) ==
    /\ m \in ripe
    /\ held' = held \ {m} /\ ripe' = ripe \ {m} /\ UNCHANGED <<due, acked>>

Ack(m) ==
    /\ m \in due
    /\ due' = due \ {m} /\ acked' = acked \cup {m} /\ UNCHANGED <<held, ripe>>

\* Acks that were due go down with the connection or the channel.
Lose ==
    /\ due' \in SUBSET due /\ due' # due
    /\ UNCHANGED <<held, ripe, acked>>

\* The broker discards an acknowledged message; its identity may stand for a
\* new one when nothing of the old one is left in the program.
Forget(m) ==
    /\ m \in acked \ (held \cup due)
    /\ acked' = acked \ {m} /\ UNCHANGED <<held, ripe, due>>

LedgerNext ==
    \/ \E m \in Messages : Hold(m) \/ Bounce(m) \/ Ripen(m) \/ Expire(m)
                            \/ GiveBack(m) \/ Ack(m) \/ Forget(m)
    \/ Lose

LedgerSpec == LedgerInit /\ [][LedgerNext]_ledger
=============================================================================
