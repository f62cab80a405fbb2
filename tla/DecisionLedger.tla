--------------------------- MODULE DecisionLedger ---------------------------
(***************************************************************************)
(* What the knowledge store promises the people who write to it.            *)
(*                                                                         *)
(* An item's history is a log.  A text is added to it only when nothing was *)
(* added since its writer read the log; a withdrawal may follow entries its *)
(* writer never read.  What part of the log a person was shown is not the   *)
(* ledger's concern.  A decision - one item's entry in one batch - is spent *)
(* when it is taken, and nothing is written on a spent one again.           *)
(***************************************************************************)
EXTENDS Naturals, Sequences

CONSTANTS
    Item,   \* the knowledge items
    Batch   \* the batches a decision can belong to; 0 is a document run's

VARIABLES
    log,    \* per item: who added each revision, how long the log was when
            \* they read it, and whether the revision ends the item
    spent   \* the <<batch, item>> decisions that have been taken

ledgerVars == <<log, spent>>

Added(by, read, ends) == [by |-> by, read |-> read, ends |-> ends]

LedgerInit ==
    /\ log = [i \in Item |-> <<>>]
    /\ spent = {}

\* A document's text becomes the newest revision of its item.
Publish(i) ==
    /\ log' = [log EXCEPT ![i] = Append(@, Added(0, Len(@), FALSE))]
    /\ UNCHANGED spent

Spend(b, i) ==
    /\ <<b, i>> \notin spent
    /\ spent' = spent \cup {<<b, i>>}

\* A decision that changes no text: a rejection, a binding, a rebind.
Dispose(b, i) ==
    /\ Spend(b, i)
    /\ UNCHANGED log

\* A decision that states the item's text.
Affirm(b, i) ==
    /\ Spend(b, i)
    /\ log' = [log EXCEPT ![i] = Append(@, Added(b, Len(@), FALSE))]

\* A decision that ends the item, made at an earlier head perhaps.
Withdraw(b, i) ==
    /\ Spend(b, i)
    /\ \E read \in 0 .. Len(log[i]) :
          log' = [log EXCEPT ![i] = Append(@, Added(b, read, TRUE))]

LedgerNext ==
    \E i \in Item :
       \/ Publish(i)
       \/ \E b \in Batch : Dispose(b, i) \/ Affirm(b, i) \/ Withdraw(b, i)

LedgerSpec == LedgerInit /\ [][LedgerNext]_ledgerVars
=============================================================================
