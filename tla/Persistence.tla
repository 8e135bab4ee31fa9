----------------------------- MODULE Persistence -----------------------------
(***************************************************************************)
(* save_state and load_state at the level of the two files they touch: the *)
(* state file at path and the temporary file beside it.                    *)
(*                                                                         *)
(* A save is a sequence of system calls, and the process or the machine    *)
(* may fail between any two of them.  Nothing is ever synced, and which    *)
(* files the kernel has written back is not tracked: a power failure may   *)
(* tear any.  A torn file does not get past the length and CRC checks of   *)
(* load_from_bytes.  (That the file system keeps directory changes in      *)
(* order is an assumption.)                                                *)
(***************************************************************************)
EXTENDS Naturals

CONSTANT Platforms       \* a subset of {"POSIX", "WINDOWS"}

VARIABLES
    platform,        \* which of the two save_state was compiled for
    path,            \* the file at persistPath
    tmp,             \* the file at persistPath + ".tmp"
    saver            \* the save in progress and the state it is saving

fileVars == <<platform, path, tmp, saver>>

-----------------------------------------------------------------------------
(* Files. *)

\* What a file without a readable state holds: a record without fields.
NoSnapshot == << >>

Absent == [state |-> "absent", snapshot |-> NoSnapshot]
Torn == [state |-> "torn", snapshot |-> NoSnapshot]
Complete(s) == [state |-> "complete", snapshot |-> s]

Idle == [step |-> "idle", snapshot |-> NoSnapshot]
At(step) == [saver EXCEPT !.step = step]

FileInit ==
    /\ platform \in Platforms
    /\ path = Absent
    /\ tmp = Absent
    /\ saver = Idle

-----------------------------------------------------------------------------
(* save_state, one system call a step. *)

SaveInPlace(s) ==
    /\ saver.step = "idle"
    /\ path' = Torn
    /\ saver' = [step |-> "opened", snapshot |-> s]
    /\ UNCHANGED <<platform, tmp>>

\* The temporary file is opened and truncated.
SaveOpen(s) ==
    /\ saver.step = "idle"
    /\ tmp' = Torn
    /\ saver' = [step |-> "opened", snapshot |-> s]
    /\ UNCHANGED <<platform, path>>

\* It is written, flushed and closed ...
SaveWrite ==
    /\ saver.step = "opened"
    /\ tmp' = Complete(saver.snapshot)
    /\ saver' = At("written")
    /\ UNCHANGED <<platform, path>>

\* ... or the write fails and what there is of it stays behind.
SaveWriteFails ==
    /\ saver.step = "opened"
    /\ saver' = Idle
    /\ UNCHANGED <<platform, path, tmp>>

\* On Windows, where rename does not replace, the old file is removed first;
\* that it could not be is not noticed.
SaveRemove ==
    /\ platform = "WINDOWS"
    /\ saver.step = "written"
    /\ path' \in {path, Absent}
    /\ saver' = At("removed")
    /\ UNCHANGED <<platform, tmp>>

Replaceable == \/ platform = "POSIX" /\ saver.step = "written"
               \/ platform = "WINDOWS" /\ saver.step = "removed"

\* The temporary file takes the name of the state file ...
SaveRename ==
    /\ Replaceable
    /\ platform = "WINDOWS" => path = Absent
    /\ path' = tmp
    /\ tmp' = Absent
    /\ saver' = Idle
    /\ UNCHANGED platform

\* ... or it does not: the result of rename is not looked at, and save_state
\* reports success all the same.
SaveRenameFails ==
    /\ Replaceable
    /\ saver' = Idle
    /\ UNCHANGED <<platform, path, tmp>>

SaveStep == SaveWrite \/ SaveWriteFails \/ SaveRemove \/ SaveRename
            \/ SaveRenameFails

-----------------------------------------------------------------------------
(* The environment. *)

AfterPowerFailureReadable(f) ==
    IF f = Absent THEN {f} ELSE {f, [f EXCEPT !.state = "torn"]}

\* What a power failure may make of a file.
AfterPowerFailure(f) ==
    IF f = Absent THEN {f} ELSE {f, Torn}

\* The process dies, or the whole machine.
FilesAfterCrash ==
    /\ saver' = Idle
    /\ UNCHANGED <<platform, path, tmp>>

FilesAfterPowerFailure ==
    /\ path' \in AfterPowerFailure(path)
    /\ tmp' \in AfterPowerFailure(tmp)
    /\ saver' = Idle
    /\ UNCHANGED platform

\* What load_from_bytes gets out of a file, if anything.
Content(f) == f.snapshot

FileTypeOK ==
    /\ platform \in Platforms
    /\ \A f \in {path, tmp} :
          /\ f.state \in {"absent", "torn", "complete"}
          /\ f.state \in {"absent", "torn"} <=> f.snapshot = NoSnapshot
    /\ saver.step \in {"idle", "opened", "written", "removed"}
    /\ saver.step = "idle" <=> saver.snapshot = NoSnapshot
=============================================================================
