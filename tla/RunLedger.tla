------------------------------ MODULE RunLedger ------------------------------
(***************************************************************************)
(* What the backend promises about the runs of its conversations, with no  *)
(* process, gateway or failure in sight: a conversation has at most one    *)
(* unsettled run; a run settles once, with its reply, and stays settled; a *)
(* settled run's reply may be revised; a conversation is deleted whole,    *)
(* and never while a run is unsettled.  Runs implements it.                *)
(***************************************************************************)
EXTENDS Naturals

CONSTANTS Thread, Request, MaxOutput

VARIABLES
    threads,  \* conversations that exist
    ledger    \* what is known of each request id

ledgerVars == <<threads, ledger>>

Absent == [state |-> "absent"]
Entry  == [state: {"open", "settled"}, thread: Thread, reply: 0..MaxOutput]

LedgerTypeOK ==
    /\ threads \subseteq Thread
    /\ ledger \in [Request -> Entry \cup {Absent}]

Engaged(t) == \E q \in Request : ledger[q].state = "open" /\ ledger[q].thread = t

LedgerInit ==
    /\ threads = Thread
    /\ ledger = [q \in Request |-> Absent]

Ask(q, t) ==
    /\ ledger[q] = Absent
    /\ t \in threads /\ ~Engaged(t)
    /\ ledger' = [ledger EXCEPT ![q] = [state |-> "open", thread |-> t, reply |-> 0]]
    /\ UNCHANGED threads

Settle(q, reply) ==
    /\ ledger[q].state = "open"
    /\ ledger' = [ledger EXCEPT ![q] = [state |-> "settled", thread |-> @.thread, reply |-> reply]]
    /\ UNCHANGED threads

Revise(q, reply) ==
    /\ ledger[q].state = "settled"
    /\ ledger' = [ledger EXCEPT ![q] = [state |-> "settled", thread |-> @.thread, reply |-> reply]]
    /\ UNCHANGED threads

Delete(t) ==
    /\ t \in threads /\ ~Engaged(t)
    /\ threads' = threads \ {t}
    /\ ledger' = [q \in Request |->
                     IF ledger[q] # Absent /\ ledger[q].thread = t THEN Absent ELSE ledger[q]]

LedgerNext ==
    \/ \E q \in Request, t \in Thread : Ask(q, t)
    \/ \E q \in Request, reply \in 0..MaxOutput : Settle(q, reply) \/ Revise(q, reply)
    \/ \E t \in Thread : Delete(t)

LedgerSpec == LedgerInit /\ [][LedgerNext]_ledgerVars

=============================================================================
