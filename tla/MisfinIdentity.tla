---------------------------- MODULE MisfinIdentity ----------------------------
(***************************************************************************)
(* The persisted identities of crates/misfin (identity.rs, helpers.rs):    *)
(* one JSON file per address under a root directory, which processes load, *)
(* create, inspect, rotate and forget. There is no lock: every call to the *)
(* file system is a step of its own, processes interleave between them,    *)
(* and a process may crash between any two.                                *)
(*                                                                         *)
(* fs::write opens with truncation and then writes, so a file that is      *)
(* being written is torn for everyone else. A file that is removed while   *)
(* it is open takes the pending write with it.                             *)
(***************************************************************************)
EXTENDS Integers, Sequences

CONSTANTS
    Procs,          \* the processes that share the root directory
    Specs,          \* the addresses of the specs, as sequences of characters
    MaxKeys         \* how many identities are minted, at most

ASSUME IdentityAssumption == MaxKeys \in Nat

VARIABLES
    file,           \* what each identity file holds
    proc,           \* what each process is doing, and the last result it had
    minted,         \* the number of identities minted so far
    kept,           \* the key the callers of a file's address hold, 0 when none
    calm            \* the files whose calls have never been in each other's way

identityVars == <<file, proc, minted, kept, calm>>

----------------------------------------------------------------------------
\* sanitize_filename and identity_path_for_spec: every character that is not a letter, a
\* digit or one of - _ . @ becomes an underscore.
Plain == {"a", "b", "c", "h", "-", "_", ".", "@"}
PathOf(address) == [i \in DOMAIN address |-> IF address[i] \in Plain THEN address[i] ELSE "_"]
Files == {PathOf(a) : a \in Specs}

\* PersistedMisfinIdentity: the file is absent, does not parse, or holds one.
Absent == [state |-> "absent", address |-> <<>>, key |-> 0]
Torn == [state |-> "torn", address |-> <<>>, key |-> 0]
Whole(address, key) == [state |-> "whole", address |-> address, key |-> key]

Ops == {"material", "status", "ensure", "rotate", "forget"}

\* What a call returns: nothing yet or crashed, an error, or the key (0 when there is none).
Nothing == [kind |-> "nothing", key |-> 0]
Error == [kind |-> "error", key |-> 0]
Ok(key) == [kind |-> "ok", key |-> key]

Idle(result) ==
    [pc |-> "idle", op |-> "status", address |-> <<>>, key |-> 0, linked |-> FALSE, result |-> result]

IdentityInit ==
    /\ file = [f \in Files |-> Absent]
    /\ proc = [p \in Procs |-> Idle(Nothing)]
    /\ minted = 0
    /\ kept = [f \in Files |-> 0]
    /\ calm = Files

----------------------------------------------------------------------------
Path(p) == PathOf(proc[p].address)
Busy(f) == {p \in Procs : proc[p].pc # "idle" /\ Path(p) = f}
At(p, pc) == proc[p].pc = pc

Step(p, pc) == proc' = [proc EXCEPT ![p].pc = pc]
Return(p, result) == proc' = [proc EXCEPT ![p] = Idle(result)]

\* The key that the caller now holds.
Hand(p, key) == kept' = [kept EXCEPT ![Path(p)] = key]

\* Calls that only look at a whole file are not in each other's way.
Replacing == {"rotate", "forget"}
Quiet(f, op) ==
    \/ Busy(f) = {}
    \/ /\ file[f].state = "whole" /\ op \notin Replacing
       /\ \A p \in Busy(f) : proc[p].op \notin Replacing

\* Mutant: rotate does not forget first.
FirstStepInPlace(op) ==
    CASE op \in {"material", "ensure", "rotate"} -> "exists"
      [] op = "status" -> "inspect"
      [] op = "forget" -> "removable"

FirstStep(op) ==
    CASE op \in {"material", "ensure"} -> "exists"
      [] op = "status" -> "inspect"
      [] op \in Replacing -> "removable"

\* A process calls one of the five functions.
Call(p, op, a) ==
    /\ At(p, "idle")
    /\ proc' = [proc EXCEPT ![p] =
                   [pc |-> FirstStep(op), op |-> op, address |-> a, key |-> 0,
                    linked |-> FALSE, result |-> Nothing]]
    /\ calm' = IF Quiet(PathOf(a), op) THEN calm ELSE calm \ {PathOf(a)}
    /\ UNCHANGED <<file, minted, kept>>

\* Mutant: load_or_create does not look for a file first.
NeverFound(f) == FALSE

\* Mutant: a file that does not load counts as no file.
FoundWhole(f) == file[f].state = "whole"

\* path.exists().
Found(f) == file[f].state # "absent"

\* load_or_create_identity: an existing file is loaded, otherwise an identity is minted.
Exists(p) ==
    /\ At(p, "exists")
    /\ \/ /\ Found(Path(p))
          /\ Step(p, "read") /\ UNCHANGED minted
       \/ /\ ~Found(Path(p)) /\ minted < MaxKeys
          /\ minted' = minted + 1
          /\ proc' = [proc EXCEPT ![p].pc = "open", ![p].key = minted + 1]
    /\ UNCHANGED <<file, kept, calm>>

\* The identity is in hand: identity_material returns it, the others report on it.
Loaded(p, key) ==
    IF proc[p].op = "material"
    THEN Return(p, Ok(key)) /\ Hand(p, key)
    ELSE proc' = [proc EXCEPT ![p].pc = "inspect", ![p].key = key] /\ UNCHANGED kept

\* read_to_string and from_str of an existing file; the read itself may fail too.
ReadFile(p) ==
    /\ At(p, "read")
    /\ \/ file[Path(p)].state = "whole" /\ Loaded(p, file[Path(p)].key)
       \/ Return(p, Error) /\ UNCHANGED kept
    /\ UNCHANGED <<file, minted, calm>>

\* fs::write opens the file, which truncates it.
Open(p) ==
    /\ At(p, "open")
    /\ file' = [file EXCEPT ![Path(p)] = Torn]
    /\ proc' = [proc EXCEPT ![p].pc = "write", ![p].linked = TRUE]
    /\ UNCHANGED <<minted, kept, calm>>

\* It writes the content: over another writer's, a tail of which may stay behind, or into
\* a file that is no longer in the directory.
Write(p) ==
    LET mine == Whole(proc[p].address, proc[p].key)
    IN /\ At(p, "write")
       /\ \/ proc[p].linked /\ file' = [file EXCEPT ![Path(p)] = mine]
          \/ /\ proc[p].linked /\ file[Path(p)].state = "whole"
             /\ file' = [file EXCEPT ![Path(p)] = Torn]
          \/ ~proc[p].linked /\ UNCHANGED file
       /\ Loaded(p, proc[p].key)
       /\ UNCHANGED <<minted, calm>>

\* Opening, writing or generating fails; a failed write leaves the file as it is.
CreateFails(p) ==
    /\ proc[p].pc \in {"exists", "open", "write"}
    /\ Return(p, Error)
    /\ UNCHANGED <<file, minted, kept, calm>>

\* identity_status_with_root: an absent file is a result, one that does not parse an error.
Inspect(p) ==
    /\ At(p, "inspect")
    /\ \/ Found(Path(p)) /\ Step(p, "report") /\ UNCHANGED kept
       \/ ~Found(Path(p)) /\ Return(p, Ok(0)) /\ UNCHANGED kept
    /\ UNCHANGED <<file, minted, calm>>

Report(p) ==
    /\ At(p, "report")
    /\ \/ /\ file[Path(p)].state = "whole"
          /\ Return(p, Ok(file[Path(p)].key)) /\ Hand(p, file[Path(p)].key)
       \/ Return(p, Error) /\ UNCHANGED kept
    /\ UNCHANGED <<file, minted, calm>>

\* forget_identity_with_root, which rotate calls first.
Removed(p) == IF proc[p].op = "rotate" THEN Step(p, "exists") ELSE Return(p, Ok(0))

Removable(p) ==
    /\ At(p, "removable")
    /\ IF Found(Path(p)) THEN Step(p, "remove") ELSE Removed(p)
    /\ UNCHANGED <<file, minted, kept, calm>>

\* remove_file; what another process has open there is no longer the file's.
Remove(p) ==
    LET f == Path(p)
        unlinked == [q \in Procs |-> [proc[q] EXCEPT !.linked = @ /\ Path(q) # f]]
        next == IF proc[p].op = "rotate" THEN [proc[p] EXCEPT !.pc = "exists"] ELSE Idle(Ok(0))
    IN /\ At(p, "remove") /\ Found(f)
       /\ file' = [file EXCEPT ![f] = Absent]
       /\ kept' = [kept EXCEPT ![f] = 0]
       /\ proc' = [unlinked EXCEPT ![p] = next]
       /\ UNCHANGED <<minted, calm>>

RemoveFails(p) ==
    /\ At(p, "remove")
    /\ Return(p, Error)
    /\ UNCHANGED <<file, minted, kept, calm>>

\* The process dies between two steps. What it has written stays.
ProcessDies(p) ==
    /\ ~At(p, "idle")
    /\ Return(p, Nothing)
    /\ UNCHANGED <<file, minted, kept, calm>>

IdentityNext ==
    \E p \in Procs :
        \/ \E op \in Ops, a \in Specs : Call(p, op, a)
        \/ Exists(p) \/ ReadFile(p) \/ Open(p) \/ Write(p) \/ CreateFails(p)
        \/ Inspect(p) \/ Report(p)
        \/ Removable(p) \/ Remove(p) \/ RemoveFails(p)
        \/ ProcessDies(p)

IdentitySpec == IdentityInit /\ [][IdentityNext]_identityVars

----------------------------------------------------------------------------
Pcs == {"idle", "exists", "read", "open", "write", "inspect", "report", "removable", "remove"}

IdentityTypeOK ==
    /\ file \in [Files -> [state : {"absent", "torn", "whole"}, address : Specs \cup {<<>>},
                           key : 0..MaxKeys]]
    /\ proc \in [Procs -> [pc : Pcs, op : Ops, address : Specs \cup {<<>>}, key : 0..MaxKeys,
                           linked : BOOLEAN,
                           result : [kind : {"nothing", "error", "ok"}, key : 0..MaxKeys]]]
    /\ minted \in 0..MaxKeys
    /\ kept \in [Files -> 0..MaxKeys]
    /\ calm \subseteq Files

\* The identity a caller was given is the one on disk, whatever crashed or failed since:
\* only forget and rotate take it away. A call that creates or removes the file while
\* another is under way may break this, the code has no lock; so the claim is for files
\* whose calls were not in each other's way.
IdentityKept ==
    \A f \in calm : kept[f] # 0 => file[f].state = "whole" /\ file[f].key = kept[f]

BeingWritten(f) == \E p \in Procs : At(p, "write") /\ Path(p) = f

\* A file that is there, whole or torn by a crash, is never the occasion for a new
\* identity: no later call opens it for writing, one that does not load is an error
\* (load_or_create_identity), and it goes only by being removed.
NothingOverwritten ==
    [][\A f \in calm :
          file[f].state # "absent" /\ ~BeingWritten(f) =>
              /\ ~BeingWritten(f)'
              /\ file'[f] \in {file[f], Absent}]_identityVars

\* A rotate that succeeds reports the identity it has minted, and no caller holds the old
\* one's key any more, although the report reads the file again.
RotateRenews ==
    [][\A p \in Procs :
          At(p, "report") /\ proc[p].op = "rotate" /\ Path(p) \in calm /\ proc'[p].result.kind = "ok" =>
              /\ kept[Path(p)] = 0
              /\ proc'[p].result.key = proc[p].key]_identityVars
=============================================================================
