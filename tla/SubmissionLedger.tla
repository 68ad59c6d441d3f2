-------------------------- MODULE SubmissionLedger --------------------------
(***************************************************************************)
(* What ingestion promises, with no run rows, locks, transactions or       *)
(* revision numbers: every publisher identity owns a ledger of contents,   *)
(* one of them current and the others superseded, and every slot (a run    *)
(* and a kind of fact) selects a content that some identity published.     *)
(* Publishing is one step.                                                 *)
(***************************************************************************)
CONSTANTS Identities, Contents, Slots,
          SlotsOf,       \* SlotsOf[i]: the slots an identity's submissions may be shown in
          None

VARIABLES current,     \* current[i]: the content of identity i, or None
          superseded,  \* superseded[i]: its earlier contents
          selected     \* selected[s]: the <<identity, content>> slot s shows, or None

ledgerVars == <<current, superseded, selected>>

TypeOK ==
    /\ current \in [Identities -> Contents \union {None}]
    /\ superseded \in [Identities -> SUBSET Contents]
    /\ selected \in [Slots -> (Identities \X Contents) \union {None}]

Init == /\ current = [i \in Identities |-> None]
        /\ superseded = [i \in Identities |-> {}]
        /\ selected = [s \in Slots |-> None]

(* A submission is shown in the slots of the facts it bears. *)
Select(i, c) ==
    \E S \in SUBSET SlotsOf[i] :
        selected' = [s \in Slots |-> IF s \in S THEN <<i, c>> ELSE selected[s]]

(* A content the identity never published becomes the current one; the one *)
(* it replaces is kept.                                                    *)
Publish(i, c) ==
    /\ c \notin superseded[i] \union {current[i]}
    /\ current' = [current EXCEPT ![i] = c]
    /\ superseded' = [superseded EXCEPT ![i] = @ \union ({current[i]} \ {None})]
    /\ Select(i, c)

(* The current content once more. *)
Retry(i, c) ==
    /\ current[i] = c
    /\ UNCHANGED <<current, superseded>>
    /\ Select(i, c)

Next == \E i \in Identities, c \in Contents : Publish(i, c) \/ Retry(i, c)

Spec == Init /\ [][Next]_ledgerVars
=============================================================================
