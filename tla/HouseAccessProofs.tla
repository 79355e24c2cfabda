-------------------------- MODULE HouseAccessProofs --------------------------
(***************************************************************************)
(* The butterfly house's mutex, for any number of threads and whatever     *)
(* calls they make in whatever order.                                      *)
(*                                                                         *)
(* Two threads are never inside together, and outside no call touches the  *)
(* writers or the wrappers, nor writes what a reference leads to.          *)
(***************************************************************************)
EXTENDS HouseAccess, TLAPS

USE AccessAssumption

\* Nothing writes the mode; before the mutex is held only the members without
\* one are touched; after it, of the others, what a reference leads to is read.
Anywhere == {a \in Access : a.field = "use_monarch" => ~a.write}
Ahead == {a \in Anywhere : a.field \notin {"writers", "mw_ptrs", "file_infos"}}
Behind == {a \in Anywhere : /\ a.field \notin {"writers", "mw_ptrs"}
                            /\ a.field = "file_infos" => ~a.write}

Allowed(t) ==
    /\ section[t] = "idle" => todo[t] = <<>>
    /\ section[t] = "before" => todo[t] \in Seq(Ahead)
    /\ section[t] = "inside" => todo[t] \in Seq(Anywhere)
    /\ section[t] = "after" => todo[t] \in Seq(Behind)

\* A thread that is in a call has it at the head of its script.
InCall(t) == section[t] # "idle" => script[t] # <<>>

Places ==
    /\ section \in [Threads -> {"idle", "before", "inside", "after"}]
    /\ todo \in [Threads -> Seq(Access)]
    /\ owner \in Threads \cup {NoThread}
    /\ \A t \in Threads : section[t] = "inside" => owner = t

Scripts ==
    /\ script \in [Threads -> Seq(Calls)]
    /\ \A t \in Threads : Len(script[t]) <= Len(Script[t])

IInv == Places /\ Scripts /\ \A t \in Threads : Allowed(t) /\ InCall(t)

-----------------------------------------------------------------------------
\* What the calls touch where.
LEMMA CallAccess ==
    ASSUME NEW c \in Calls
    PROVE  /\ c.before \in Seq(Ahead)
           /\ c.inside \in Seq(Anywhere)
           /\ c.after \in Seq(Behind)
           /\ c.before \in Seq(Access)
           /\ c.inside \in Seq(Access)
           /\ c.after \in Seq(Access)
  <1>0. Ahead \subseteq Access /\ Anywhere \subseteq Access /\ Behind \subseteq Access
    BY DEF Ahead, Anywhere, Behind
  <1>z. SUFFICES /\ c.before \in Seq(Ahead)
                 /\ c.inside \in Seq(Anywhere)
                 /\ c.after \in Seq(Behind)
    BY <1>0
  <1>1. \A f \in Fields : f # "use_monarch" => Read(f) \in Anywhere /\ Write(f) \in Anywhere
    BY DEF Read, Write, Anywhere, Access
  <1>2. Read("use_monarch") \in Ahead
    BY DEF Read, Ahead, Anywhere, Access, Fields
  <1>3. \A f \in {"house_duration", "extra_info", "run_duration"} :
            Read(f) \in Ahead /\ Write(f) \in Ahead
    BY DEF Read, Write, Ahead, Anywhere, Access, Fields
  <1>4. Read("file_infos") \in Behind
    BY DEF Read, Behind, Anywhere, Access, Fields
  <1>5. /\ "file_infos" \in Fields /\ "mw_ptrs" \in Fields /\ "writers" \in Fields
        /\ "house_duration" \in Fields /\ "run_duration" \in Fields
        /\ "waits" \in Fields
    BY DEF Fields
  <1> USE DEF Unlocked, Locked, ByReference
  <1>e. \A S : <<>> \in Seq(S)
    OBVIOUS
  <1>6. CASE c = PrepareFiles
    BY <1>1, <1>2, <1>5, <1>6 DEF PrepareFiles
  <1>7. CASE c = FinishFiles
    BY <1>1, <1>2, <1>5, <1>7 DEF FinishFiles, Waits
  <1>8. CASE c = RegisterWriter
    BY <1>1, <1>5, <1>8 DEF RegisterWriter
  <1>9. CASE c = UnregisterWriter
    BY <1>1, <1>5, <1>9 DEF UnregisterWriter
  <1>10. CASE c = StartFiles
    <2>1. StartFiles.inside \in Seq(Anywhere)
      BY <1>1, <1>5 DEF StartFiles
    <2>2. StartFiles.before \in Seq(Ahead) /\ StartFiles.after = <<>>
      BY <1>2 DEF StartFiles
    <2> QED BY <1>10, <1>e, <2>1, <2>2
  <1>11. CASE c = SetFilename
    BY <1>1, <1>5, <1>11 DEF SetFilename
  <1>12. CASE c = SetDescription
    BY <1>1, <1>5, <1>12 DEF SetDescription
  <1>13. CASE c = GetFilename
    BY <1>1, <1>4, <1>5, <1>13 DEF GetFilename
  <1>14. CASE c = GetDescription
    BY <1>1, <1>4, <1>5, <1>14 DEF GetDescription
  <1>15. CASE c \in {SetValues, GetExtraInfo, GetRunDuration, SetRunDuration}
    <2>1. SetValues.before \in Seq(Ahead) /\ GetExtraInfo.before \in Seq(Ahead)
      BY <1>3 DEF SetValues, GetExtraInfo
    <2>2. GetRunDuration.before \in Seq(Ahead) /\ SetRunDuration.before \in Seq(Ahead)
      BY <1>3 DEF GetRunDuration, SetRunDuration
    <2>3. c.inside = <<>> /\ c.after = <<>>
      BY <1>15 DEF SetValues, GetExtraInfo, GetRunDuration, SetRunDuration
    <2> QED BY <1>15, <2>1, <2>2, <2>3
  <1>16. CASE c = GetUseMonarch
    BY <1>2, <1>16 DEF GetUseMonarch
  <1> QED
    BY <1>6, <1>7, <1>8, <1>9, <1>10, <1>11, <1>12, <1>13, <1>14, <1>15, <1>16
       DEF Calls

LEMMA InitInv == Init => IInv
  BY DEF Init, IInv, Places, Scripts, Allowed, InCall

\* Every step keeps it, whatever the call.
LEMMA NextInv == IInv /\ [Next]_vars => IInv'
  <1> SUFFICES ASSUME IInv, [Next]_vars PROVE IInv'
    OBVIOUS
  <1>0. \A t \in Threads : section[t] # "idle" => Head(script[t]) \in Calls
    BY DEF IInv, Places, Scripts, InCall
  <1>a. ASSUME NEW t \in Threads, section[t] # "idle"
        PROVE  /\ Head(script[t]).before \in Seq(Ahead)
               /\ Head(script[t]).inside \in Seq(Anywhere)
               /\ Head(script[t]).after \in Seq(Behind)
               /\ Head(script[t]).inside \in Seq(Access)
               /\ Head(script[t]).after \in Seq(Access)
    BY <1>0, <1>a, CallAccess
  <1>1. ASSUME NEW t \in Threads, Call(t) PROVE IInv'
    <2>1. Head(script[t]) \in Calls
      BY <1>1 DEF Call, IInv, Scripts
    <2>2. Head(script[t]).before \in Seq(Ahead) /\ Head(script[t]).before \in Seq(Access)
      BY <2>1, CallAccess
    <2>3. /\ section' \in [Threads -> {"idle", "before", "inside", "after"}]
          /\ todo' \in [Threads -> Seq(Access)]
          /\ section'[t] = "before" /\ todo'[t] \in Seq(Ahead)
          /\ \A u \in Threads : u # t => section'[u] = section[u] /\ Allowed(u)'
      BY <1>1, <2>2 DEF Call, Enter, IInv, Places, Allowed
    <2>4. Allowed(t)'
      BY <2>3 DEF Allowed
    <2> QED BY <1>1, <2>3, <2>4 DEF Call, IInv, Places, Scripts, InCall
  <1>2. ASSUME NEW t \in Threads, Touch(t) PROVE IInv'
    <2>1. todo[t] # <<>> /\ todo' = [todo EXCEPT ![t] = Tail(@)]
          /\ UNCHANGED <<script, section, owner>>
      BY <1>2 DEF Touch
    <2>2. \A S : todo[t] \in Seq(S) => Tail(todo[t]) \in Seq(S)
      BY <2>1
    <2>3. Places' /\ Scripts'
      BY <2>1, <2>2 DEF IInv, Places, Scripts
    <2>4. \A u \in Threads : todo'[u] = IF u = t THEN Tail(todo[t]) ELSE todo[u]
      BY <2>1 DEF IInv, Places
    <2>5. ASSUME NEW u \in Threads PROVE Allowed(u)' /\ InCall(u)'
      BY <2>1, <2>2, <2>4 DEF IInv, Allowed, InCall
    <2> QED BY <2>3, <2>5 DEF IInv
  <1>3. ASSUME NEW t \in Threads, Lock(t) PROVE IInv'
    <2>1. section[t] = "before" /\ owner = NoThread
      BY <1>3 DEF Lock, Enter
    <2>2. /\ section' \in [Threads -> {"idle", "before", "inside", "after"}]
          /\ todo' \in [Threads -> Seq(Access)]
          /\ section'[t] = "inside" /\ todo'[t] \in Seq(Anywhere)
          /\ \A u \in Threads : u # t => section'[u] = section[u] /\ Allowed(u)'
      BY <1>3, <1>a, <2>1 DEF Lock, Enter, IInv, Places, Allowed
    <2>3. Allowed(t)'
      BY <2>2 DEF Allowed
    <2>4. \A u \in Threads : section[u] # "inside"
      BY <2>1 DEF IInv, Places
    <2> QED BY <1>3, <2>1, <2>2, <2>3, <2>4 DEF Lock, IInv, Places, Scripts, InCall
  <1>4. ASSUME NEW t \in Threads, NoLock(t) PROVE IInv'
    <2>1. section[t] = "before"
      BY <1>4 DEF NoLock, Enter
    <2>2. /\ section' \in [Threads -> {"idle", "before", "inside", "after"}]
          /\ todo' \in [Threads -> Seq(Access)]
          /\ section'[t] = "after" /\ todo'[t] \in Seq(Behind)
          /\ \A u \in Threads : u # t => section'[u] = section[u] /\ Allowed(u)'
      BY <1>4, <1>a, <2>1 DEF NoLock, Enter, IInv, Places, Allowed
    <2>3. Allowed(t)'
      BY <2>2 DEF Allowed
    <2> QED BY <1>4, <2>1, <2>2, <2>3 DEF NoLock, IInv, Places, Scripts, InCall
  <1>5. ASSUME NEW t \in Threads, Unlock(t) PROVE IInv'
    <2>1. section[t] = "inside"
      BY <1>5 DEF Unlock, Enter
    <2>2. /\ section' \in [Threads -> {"idle", "before", "inside", "after"}]
          /\ todo' \in [Threads -> Seq(Access)]
          /\ section'[t] = "after" /\ todo'[t] \in Seq(Behind)
          /\ \A u \in Threads : u # t => section'[u] = section[u] /\ Allowed(u)'
      BY <1>5, <1>a, <2>1 DEF Unlock, Enter, IInv, Places, Allowed
    <2>3. Allowed(t)'
      BY <2>2 DEF Allowed
    <2>4. \A u \in Threads : u # t => section[u] # "inside"
      BY <2>1 DEF IInv, Places
    <2> QED BY <1>5, <2>1, <2>2, <2>3, <2>4 DEF Unlock, IInv, Places, Scripts, InCall
  <1>6. ASSUME NEW t \in Threads, Return(t) PROVE IInv'
    <2>1. section[t] = "after"
      BY <1>6 DEF Return, Enter
    <2>2. /\ section' \in [Threads -> {"idle", "before", "inside", "after"}]
          /\ todo' \in [Threads -> Seq(Access)]
          /\ section'[t] = "idle" /\ todo'[t] = <<>>
          /\ \A u \in Threads : u # t => section'[u] = section[u] /\ Allowed(u)'
      <3>1. <<>> \in Seq(Access)
        OBVIOUS
      <3> QED BY <1>6, <2>1, <3>1 DEF Return, Enter, IInv, Places, Allowed
    <2>3. Allowed(t)'
      BY <2>2 DEF Allowed
    <2>4. Scripts' /\ \A u \in Threads : u # t => script'[u] = script[u]
      <3>1. script[t] # <<>> /\ script[t] \in Seq(Calls)
        BY <2>1 DEF IInv, Scripts, InCall
      <3>2. Tail(script[t]) \in Seq(Calls) /\ Len(Tail(script[t])) <= Len(script[t])
            /\ Len(script[t]) <= Len(Script[t])
            /\ Len(script[t]) \in Nat /\ Len(Tail(script[t])) \in Nat /\ Len(Script[t]) \in Nat
        BY <3>1 DEF IInv, Scripts
      <3>3. script' = [script EXCEPT ![t] = Tail(@)]
        BY <1>6 DEF Return
      <3> QED BY <3>2, <3>3 DEF IInv, Scripts
    <2> QED BY <1>6, <2>2, <2>3, <2>4 DEF Return, IInv, Places, Scripts, InCall
  <1>7. CASE UNCHANGED vars
    BY <1>7 DEF vars, IInv, Places, Scripts, Allowed, InCall
  <1> QED BY <1>1, <1>2, <1>3, <1>4, <1>5, <1>6, <1>7 DEF Next, Thread

-----------------------------------------------------------------------------
(* The theorems.                                                           *)

\* For any threads and calls: only the owner of the mutex is inside, and every
\* variable keeps its type.
THEOREM HouseTypeCorrect == Spec => []TypeOK
  <1>1. IInv => TypeOK
    BY DEF IInv, TypeOK, Places, Scripts
  <1> QED BY <1>1, InitInv, NextInv, PTL DEF Spec

\* Two threads never race for the writers, the wrappers or the mode.
LEMMA LockedFields ==
    IInv => \A t, u \in Threads :
                \A f \in {"writers", "mw_ptrs", "use_monarch"} : ~Race(t, u, f)
  <1> SUFFICES ASSUME IInv
               PROVE  \A t, u \in Threads :
                          \A f \in {"writers", "mw_ptrs", "use_monarch"} : ~Race(t, u, f)
    OBVIOUS
  <1>1. ASSUME NEW t \in Threads, NEW u \in Threads,
               NEW f \in {"writers", "mw_ptrs", "use_monarch"}, Race(t, u, f)
        PROVE  FALSE
    <2> USE <1>1
    <2>1. ASSUME NEW v \in {t, u}
          PROVE  /\ Head(todo[v]).field = f /\ Head(todo[v]) \in Anywhere
                 /\ f # "use_monarch" => section[v] = "inside"
      <3>1. v \in Threads /\ todo[v] # <<>> /\ Head(todo[v]).field = f
        BY <2>1 DEF Race
      <3>2. section[v] \in {"idle", "before", "inside", "after"} /\ Allowed(v)
        BY <3>1 DEF IInv, Places
      <3>3. \A S : todo[v] \in Seq(S) => Head(todo[v]) \in S
        BY <3>1
      <3> QED BY <3>1, <3>2, <3>3 DEF Allowed, Ahead, Behind
    <2>2. CASE f = "use_monarch"
      BY <2>1, <2>2 DEF Race, Anywhere
    <2>3. CASE f # "use_monarch"
      BY <2>1, <2>3 DEF Race, IInv, Places
    <2> QED BY <2>2, <2>3
  <1> QED BY <1>1

\* For any threads and calls: two threads never race for the writers, the
\* wrappers or the mode, and a race for the names and descriptions always has
\* a caller in it who reads through a reference after his getter has returned.
THEOREM ReferenceRaces == Spec => []RacesOnlyByReference
  <1>1. IInv => RacesOnlyByReference
    <2> SUFFICES ASSUME IInv, NEW t \in Threads, NEW u \in Threads,
                        Race(t, u, "file_infos")
                 PROVE  \/ section[t] = "after" /\ ~Head(todo[t]).write
                        \/ section[u] = "after" /\ ~Head(todo[u]).write
      BY LockedFields DEF RacesOnlyByReference
    <2>1. ASSUME NEW v \in {t, u}
          PROVE  section[v] = "inside" \/ (section[v] = "after" /\ ~Head(todo[v]).write)
      <3>1. v \in Threads /\ todo[v] # <<>> /\ Head(todo[v]).field = "file_infos"
        BY <2>1 DEF Race
      <3>2. section[v] \in {"idle", "before", "inside", "after"} /\ Allowed(v)
        BY <3>1 DEF IInv, Places
      <3>3. \A S : todo[v] \in Seq(S) => Head(todo[v]) \in S
        BY <3>1
      <3> QED BY <3>1, <3>2, <3>3 DEF Allowed, Ahead, Behind
    <2> QED BY <2>1 DEF Race, IInv, Places
  <1> QED BY <1>1, InitInv, NextInv, PTL DEF Spec

=============================================================================
