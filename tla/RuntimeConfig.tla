----------------------------- MODULE RuntimeConfig -----------------------------
(***************************************************************************)
(* pkg/agent/runtime.go and pkg/store/store.go: the LLM configuration of a   *)
(* tenant, one row that system.config.set reads, patches and writes without  *)
(* a lock.  A connection handles its calls concurrently, and so do others.   *)
(***************************************************************************)
EXTENDS LLM

CONSTANTS Setters, \* calls of system.config.set
          Patch    \* the fields each of them patches

Fields == {"provider", "model", "key"}

ASSUME PatchAssumption == \A s \in Setters : DOMAIN Patch[s] \subseteq Fields

VARIABLES
    row,      \* the row of the tenant
    setter,   \* where each call stands
    draft,    \* the row it has read
    atomic,   \* the row, had every call been one step
    contested \* fields patched while another call was between its read and its write

configVars == <<row, setter, draft, atomic, contested>>

NoRow == [provider |-> "", model |-> "", key |-> ""]

ConfigInit ==
    /\ row = NoRow
    /\ setter = [s \in Setters |-> "idle"]
    /\ draft = [s \in Setters |-> NoRow]
    /\ atomic = NoRow
    /\ contested = {}

SetterGoes(s, from, to) ==
    /\ setter[s] = from
    /\ setter' = [setter EXCEPT ![s] = to]

GetRow(s) ==
    /\ SetterGoes(s, "idle", "patch")
    /\ draft' = [draft EXCEPT ![s] = row]
    /\ UNCHANGED <<row, atomic, contested>>

\* normalizeRuntimeProvider; an empty provider stands for the default.
Known(s) ==
    "provider" \in DOMAIN Patch[s] => Patch[s].provider \in Providers \cup {""}

PatchRefused(s) ==
    /\ SetterGoes(s, "patch", "over")
    /\ ~Known(s)
    /\ UNCHANGED <<row, draft, atomic, contested>>

\* The fields this call patches, and those a call under way has read before.
ContestedBy(s) ==
    IF \E o \in Setters \ {s} : setter[o] = "patch" THEN DOMAIN Patch[s] ELSE {}

Patched(s, under) ==
    [f \in Fields |-> IF f \in DOMAIN Patch[s] THEN Patch[s][f] ELSE under[f]]

\* The row is read once more, for the answer.
Upserts(s, under) ==
    /\ SetterGoes(s, "patch", "over")
    /\ Known(s)
    /\ row' = Patched(s, under)
    /\ atomic' = Patched(s, atomic)
    /\ contested' = contested \cup ContestedBy(s)
    /\ draft' = [draft EXCEPT ![s] = NoRow]

\* Mutant: the fields that are not patched are written empty.
UpsertPatchOnly(s) == Upserts(s, NoRow)

UpsertRow(s) == Upserts(s, draft[s])

\* A statement fails, or the connection of the caller is gone.
SetFails(s) ==
    /\ SetterGoes(s, "patch", "over")
    /\ UNCHANGED <<row, draft, atomic, contested>>

SetStep(s) == GetRow(s) \/ PatchRefused(s) \/ UpsertRow(s)

-----------------------------------------------------------------------------
(* Properties *)

\* Calls that patch different fields of the row, one after the other, lose none
\* of them, and a call never undoes a patch that was written before it began:
\* only a field patched while another call was between its read and its write
\* may have the value from before.
LossIsContested == \A f \in Fields : row[f] # atomic[f] => f \in contested
=============================================================================
