---------------------------- MODULE HouseAccess ----------------------------
(***************************************************************************)
(* Who touches what of the butterfly house, and with which lock.           *)
(*                                                                         *)
(* The house is one object for the thread of run control, the request      *)
(* receiver, the spectrum relay and the thread the nodes are initialized   *)
(* and finalized in.  A call is the fields it touches before it locks      *)
(* f_house_mutex, while it holds it, and after: the last for a caller who  *)
(* reads through the reference he has been given.  Two threads that are    *)
(* about to touch one field, one of them to write, race.                   *)
(***************************************************************************)
EXTENDS Naturals, Sequences

CONSTANTS
    Threads,
    Script,         \* the calls of each thread
    StartsAfter,    \* the call that must have returned before, or "nothing"
    NoThread

Fields == {"file_infos", "mw_ptrs", "writers", "house_duration", "extra_info",
           "run_duration", "use_monarch", "waits"}

Access == [field : Fields, write : BOOLEAN]

Read(f) == [field |-> f, write |-> FALSE]
Write(f) == [field |-> f, write |-> TRUE]

\* The joins of the wrapper's threads and the wait for its streams: nothing is
\* touched, and nothing says that it ends.
Waits == Read("waits")

Unlocked(name, accesses) ==
    [name |-> name, before |-> accesses, inside |-> <<>>, after |-> <<>>]
Locked(name, before, accesses) ==
    [name |-> name, before |-> before, inside |-> accesses, after |-> <<>>]
ByReference(name, accesses, after) ==
    [name |-> name, before |-> <<>>, inside |-> accesses, after |-> after]

-----------------------------------------------------------------------------
(* The calls.  The mode of use-monarch is tested before those around a run.*)

PrepareFiles == Locked("PrepareFiles",
    <<Read("use_monarch")>>, <<Write("file_infos")>>)

\* The duration is that of run control; each file gets its wrapper and header
\* from its entry and its writers.
StartFiles == Locked("StartFiles",
    <<Read("use_monarch")>>,
    <<Read("run_duration"), Write("house_duration"), Write("mw_ptrs"),
      Read("file_infos"), Read("house_duration"), Read("writers")>>)

\* Waits with the mutex held.
FinishFiles == Locked("FinishFiles",
    <<Read("use_monarch")>>, <<Read("mw_ptrs"), Waits, Write("mw_ptrs")>>)

RegisterWriter == Locked("RegisterWriter",
    <<>>, <<Read("file_infos"), Read("writers"), Write("writers")>>)

UnregisterWriter == Locked("UnregisterWriter",
    <<>>, <<Read("writers"), Write("writers")>>)

SetFilename == Locked("SetFilename",
    <<>>, <<Read("file_infos"), Write("file_infos")>>)

\* Mutant: without the mutex.
SetDescriptionUnlocked == Unlocked("SetDescription",
    <<Read("file_infos"), Write("file_infos")>>)

SetDescription == Locked("SetDescription",
    <<>>, <<Read("file_infos"), Write("file_infos")>>)

SetValues == Unlocked("SetValues", <<Write("extra_info"), Read("extra_info")>>)

\* A reference is returned, and the string copied by the caller.
GetFilename == ByReference("GetFilename",
    <<Read("file_infos")>>, <<Read("file_infos")>>)

GetDescription == ByReference("GetDescription",
    <<Read("file_infos")>>, <<Read("file_infos")>>)

GetExtraInfo == Unlocked("GetExtraInfo", <<Read("extra_info")>>)

GetRunDuration == Unlocked("GetRunDuration", <<Read("house_duration")>>)

\* The members of daq_control that a request handler touches itself.
SetRunDuration == Unlocked("SetRunDuration",
    <<Read("run_duration"), Write("run_duration")>>)

GetUseMonarch == Unlocked("GetUseMonarch", <<Read("use_monarch")>>)

Calls == {PrepareFiles, StartFiles, FinishFiles, RegisterWriter,
          UnregisterWriter, SetFilename, SetDescription, SetValues,
          GetFilename, GetDescription, GetExtraInfo, GetRunDuration,
          SetRunDuration, GetUseMonarch}

\* The registered requests: there is none to set a filename, a description or
\* the mode.
HandleStartRun == <<SetFilename, SetDescription, SetValues, SetRunDuration>>
HandleGetFilename == <<GetFilename>>
HandleGetDescription == <<GetDescription>>
HandleGetUseMonarch == <<GetUseMonarch>>

\* The labels of a broadcast; the values are got twice.
BroadcastSpectrum == <<GetDescription, GetRunDuration, GetExtraInfo, GetExtraInfo>>

ASSUME AccessAssumption ==
    /\ NoThread \notin Threads
    /\ Script \in [Threads -> Seq(Calls)]

-----------------------------------------------------------------------------
VARIABLES
    script,     \* the calls still to be made
    section,    \* where in its call a thread is
    todo,       \* what it touches there
    owner,      \* who holds f_house_mutex
    returned    \* the names of the calls that have returned

vars == <<script, section, todo, owner, returned>>

Init ==
    /\ script = Script
    /\ section = [t \in Threads |-> "idle"]
    /\ todo = [t \in Threads |-> <<>>]
    /\ owner = NoThread
    /\ returned = {"nothing"}

Enter(t, from, to, accesses) ==
    /\ section[t] = from /\ todo[t] = <<>>
    /\ section' = [section EXCEPT ![t] = to]
    /\ todo' = [todo EXCEPT ![t] = accesses]

Call(t) ==
    /\ script[t] # <<>> /\ StartsAfter[t] \in returned
    /\ Enter(t, "idle", "before", Head(script[t]).before)
    /\ UNCHANGED <<script, owner, returned>>

Touch(t) ==
    /\ todo[t] # <<>> /\ todo' = [todo EXCEPT ![t] = Tail(@)]
    /\ UNCHANGED <<script, section, owner, returned>>

Lock(t) ==
    /\ Enter(t, "before", "inside", Head(script[t]).inside)
    /\ Head(script[t]).inside # <<>>
    /\ owner = NoThread /\ owner' = t
    /\ UNCHANGED <<script, returned>>

NoLock(t) ==
    /\ Enter(t, "before", "after", Head(script[t]).after)
    /\ Head(script[t]).inside = <<>>
    /\ UNCHANGED <<script, owner, returned>>

\* The unique_lock goes out of scope.
Unlock(t) ==
    /\ Enter(t, "inside", "after", Head(script[t]).after)
    /\ owner' = NoThread
    /\ UNCHANGED <<script, returned>>

Return(t) ==
    /\ Enter(t, "after", "idle", <<>>)
    /\ script' = [script EXCEPT ![t] = Tail(@)]
    /\ returned' = returned \cup {Head(script[t]).name}
    /\ UNCHANGED owner

Thread(t) ==
    Call(t) \/ Touch(t) \/ Lock(t) \/ NoLock(t) \/ Unlock(t) \/ Return(t)

Next == \E t \in Threads : Thread(t)

\* Without fairness: a finish_files may keep the mutex for ever.
Spec == Init /\ [][Next]_vars

-----------------------------------------------------------------------------
(* Properties.                                                             *)

\* Every variable takes only the values the code can give it, and whoever is
\* inside holds the mutex.
TypeOK ==
    /\ \A t \in Threads : Len(script[t]) <= Len(Script[t])
    /\ section \in [Threads -> {"idle", "before", "inside", "after"}]
    /\ todo \in [Threads -> Seq(Access)]
    /\ owner \in Threads \cup {NoThread}
    /\ \A t \in Threads : section[t] = "inside" => owner = t

\* Two threads are about to touch field f, one of them to write.
Race(t, u, f) ==
    /\ t # u /\ todo[t] # <<>> /\ todo[u] # <<>>
    /\ Head(todo[t]).field = f /\ Head(todo[u]).field = f
    /\ Head(todo[t]).write \/ Head(todo[u]).write

\* The writers, the wrappers and the mode of the house are never raced for,
\* and the files' names and descriptions only by a caller who reads through a
\* reference after the getter has returned.
RacesOnlyByReference ==
    \A t, u \in Threads :
        /\ \A f \in {"writers", "mw_ptrs", "use_monarch"} : ~Race(t, u, f)
        /\ Race(t, u, "file_infos") =>
               \/ section[t] = "after" /\ ~Head(todo[t]).write
               \/ section[u] = "after" /\ ~Head(todo[u]).write

\* No two calls of the butterfly house race for any of its members.
HouseRaceFree ==
    \A t, u \in Threads :
        \A f \in Fields \ {"run_duration", "use_monarch"} : ~Race(t, u, f)

=============================================================================
