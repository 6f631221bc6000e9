-------------------------- MODULE NetworkCallsProofs --------------------------
(***************************************************************************)
(* Proofs about NetworkCalls, for any threads, descriptors, addresses and  *)
(* numbers of calls.  The inductive invariant speaks of one thread, or of  *)
(* one call; a step reaches one call of one thread (Touches), so that the  *)
(* invariant has to be looked at for that thread and that call only        *)
(* (StepKeeps).                                                            *)
(***************************************************************************)
EXTENDS NetworkCalls, TLAPS

-----------------------------------------------------------------------------
(* The inductive invariant. *)

Asking == {"perform", "answer", "handle"}
Looping == {"resolve", "next", "socket", "connect"}

\* What a thread's place in its call says of its variables and its outcome
Phase(t) ==
    /\ pc[t] \in {"idle", "perform"} => fd[t] = NoFd
    /\ pc[t] = "connect" => fd[t] # NoFd
    /\ pc[t] = "socket" => left[t] > 0
    /\ pc[t] = "socket" /\ fd[t] # NoFd => held[fd[t]] # Current(t)
    /\ pc[t] \in Asking => outcome[Current(t)] = "asked"
    /\ pc[t] = "clear" => outcome[Current(t)] \in {"true", "false"}
    /\ pc[t] \in Looping => outcome[Current(t)] = "none"
    /\ pc[t] = "close" => outcome[Current(t)] \in {"sent", "silent"}
    /\ pc[t] \in Asking \union {"idle", "clear", "close"} => sock[t] = NoFd
    /\ pc[t] \in Looping /\ kind[t] # "tcp" => sock[t] = NoFd

\* What a thread knows of the request that it is making
Heard(t) ==
    /\ pc[t] = "perform" => Current(t) \notin inflight /\ Current(t) \notin applied
    /\ pc[t] \in {"idle", "perform"} => reply[t] = "none"
    /\ reply[t] # "none" => Current(t) \notin inflight
    /\ reply[t] = "ok" => Current(t) \in applied
    /\ reply[t] = "ko" => Current(t) \notin applied

Owns(t) == InHand(t) => held[fd[t]] = Current(t)

\* A call that has not begun has left nothing.
Fresh(t, n) ==
    n > count[t] =>
        /\ <<t, n>> \in Calls => outcome[<<t, n>>] = "none"
        /\ <<t, n>> \notin handles /\ <<t, n>> \notin inflight /\ <<t, n>> \notin applied
        /\ \A f \in Fds : held[f] # <<t, n>>

\* What roulette has made of a request, and what its caller was told
Fate(t, n) ==
    /\ <<t, n>> \in inflight =>
          <<t, n>> \notin applied /\ outcome[<<t, n>>] \in {"asked", "thrown"}
    /\ <<t, n>> \in applied => outcome[<<t, n>>] \in {"asked", "thrown", "true"}
    /\ <<t, n>> \in Calls /\ outcome[<<t, n>>] = "true" => <<t, n>> \in applied
    /\ <<t, n>> \in handles => outcome[<<t, n>>] \in {"asked", "thrown", "true", "false"}

Leaks(t, n) ==
    proc = "up" =>
        /\ \A f \in Fds : held[f] = <<t, n>> =>
              \/ outcome[<<t, n>>] \in {"thrown", "connected"}
              \/ n = count[t] /\ pc[t] # "idle" /\ (f = fd[t] \/ f = sock[t])
        /\ <<t, n>> \in handles =>
              outcome[<<t, n>>] = "thrown" \/ (n = count[t] /\ pc[t] # "idle")

Connected(t, n) ==
    <<t, n>> \in Calls /\ outcome[<<t, n>>] = "connected" =>
        connection[<<t, n>>] # NoFd /\ held[connection[<<t, n>>]] = <<t, n>>

ThreadInv(t) == Phase(t) /\ Heard(t) /\ Owns(t)
CallInv(t, n) == Fresh(t, n) /\ Fate(t, n) /\ Leaks(t, n) /\ Connected(t, n)

IInv == TypeOK /\ \A t \in Threads : ThreadInv(t) /\ \A n \in Nat : CallInv(t, n)

-----------------------------------------------------------------------------
(* Calls are pairs. *)

\* A call is a thread with a number, and none is Free.
LEMMA CallPairs ==
    /\ \A t \in Threads, n \in Nat : <<t, n>> \in Calls <=> n \in 1 .. MaxCalls[t]
    /\ \A c \in Calls : \E t \in Threads, n \in Nat : c = <<t, n>>
    /\ \A t \in Threads, n \in Nat : <<t, n>> # Free
<1>1. \A t \in Threads, n \in Nat : <<t, n>> \in Calls <=> n \in 1 .. MaxCalls[t]
  BY DEF Calls
<1>2. \A c \in Calls : \E t \in Threads, n \in Nat : c = <<t, n>>
  BY BoundsAssumption DEF Calls
<1> QED
  BY <1>1, <1>2, FreeAssumption

\* The call of a thread that is in one
LEMMA CurrentIsCall ==
    ASSUME TypeOK, NEW t \in Threads, pc[t] # "idle"
    PROVE  Current(t) \in Calls /\ count[t] \in Nat
<1>1. count[t] \in Nat /\ count[t] \in 1 .. MaxCalls[t]
  BY BoundsAssumption DEF TypeOK
<1> QED
  BY <1>1, CallPairs DEF Current

\* The next call of a thread that may begin one
LEMMA NextIsCall ==
    ASSUME TypeOK, NEW t \in Threads, count[t] < MaxCalls[t]
    PROVE  /\ <<t, count[t] + 1>> \in Calls /\ count[t] \in Nat
           /\ count[t] + 1 <= MaxCalls[t]
<1>1. count[t] \in Nat /\ count[t] + 1 \in 1 .. MaxCalls[t] /\ count[t] + 1 \in Nat
  BY BoundsAssumption DEF TypeOK
<1>2. count[t] + 1 <= MaxCalls[t]
  BY <1>1, BoundsAssumption
<1> QED
  BY <1>1, <1>2, CallPairs

\* The invariant about threads says what the properties say.
LEMMA IInvImplies ==
    IInv => OwnDescriptor /\ LeaksAreExplained /\ ConnectReturnsConnection
<1> SUFFICES ASSUME IInv
             PROVE  OwnDescriptor /\ LeaksAreExplained /\ ConnectReturnsConnection
  OBVIOUS
<1>1. OwnDescriptor
  BY DEF IInv, ThreadInv, Owns, OwnDescriptor
<1>2. ASSUME proc = "up", NEW f \in Fds, held[f] # Free
      PROVE  \/ outcome[held[f]] \in {"thrown", "connected"}
             \/ \E t \in Threads : Runs(t, held[f]) /\ f \in {fd[t], sock[t]}
  <2>1. PICK t \in Threads, n \in Nat : held[f] = <<t, n>>
    BY <1>2, CallPairs DEF IInv, TypeOK
  <2> QED
    BY <1>2, <2>1 DEF IInv, CallInv, Leaks, Runs, Current
<1>3. ASSUME proc = "up", NEW c \in handles
      PROVE  outcome[c] = "thrown" \/ \E t \in Threads : Runs(t, c)
  <2>1. PICK t \in Threads, n \in Nat : c = <<t, n>>
    BY <1>3, CallPairs DEF IInv, TypeOK
  <2> QED
    BY <1>3, <2>1 DEF IInv, CallInv, Leaks, Runs, Current
<1>4. LeaksAreExplained
  BY <1>2, <1>3 DEF LeaksAreExplained
<1>5. ConnectReturnsConnection
  BY CallPairs DEF IInv, CallInv, Connected, ConnectReturnsConnection
<1> QED
  BY <1>1, <1>4, <1>5

\* Initially nothing is open.
LEMMA InitIInv == Init => IInv
<1> SUFFICES ASSUME Init PROVE IInv
  OBVIOUS
<1>1. TypeOK
  BY BoundsAssumption DEF Init, TypeOK
<1>2. ASSUME NEW t \in Threads
      PROVE  ThreadInv(t)
  BY DEF Init, ThreadInv, Phase, Heard, Owns, InHand, Asking, Looping
<1>3. ASSUME NEW t \in Threads, NEW n \in Nat
      PROVE  CallInv(t, n)
  BY CallPairs DEF Init, CallInv, Fresh, Fate, Leaks, Connected
<1> QED
  BY <1>1, <1>2, <1>3 DEF IInv

-----------------------------------------------------------------------------
(* What a step leaves alone. *)

\* The variables of a thread stay as they are.
SameThread(u) ==
    /\ pc'[u] = pc[u] /\ kind'[u] = kind[u] /\ count'[u] = count[u] /\ left'[u] = left[u]
    /\ fd'[u] = fd[u] /\ sock'[u] = sock[u] /\ reply'[u] = reply[u]

\* Everything that is said of a call stays as it is.
SameCall(u, n) ==
    /\ <<u, n>> \in Calls => /\ outcome'[<<u, n>>] = outcome[<<u, n>>]
                             /\ connection'[<<u, n>>] = connection[<<u, n>>]
    /\ <<u, n>> \in handles' <=> <<u, n>> \in handles
    /\ <<u, n>> \in inflight' <=> <<u, n>> \in inflight
    /\ <<u, n>> \in applied' <=> <<u, n>> \in applied
    /\ \A f \in Fds : held'[f] = <<u, n>> <=> held[f] = <<u, n>>

\* A step reaches no other thread than t, and no other call than <<t, m>>.
Touches(t, m) ==
    /\ \A u \in Threads \ {t} : SameThread(u)
    /\ \A u \in Threads, n \in Nat : u # t \/ n # m => SameCall(u, n)

\* The part of the type that the steps below use
LEMMA Typing ==
    ASSUME TypeOK, NEW t \in Threads
    PROVE  /\ count[t] \in Nat
           /\ fd[t] \in Fds \union {NoFd} /\ sock[t] \in Fds \union {NoFd}
           /\ \A n \in Nat :
                 /\ <<t, n>> \in Calls => connection[<<t, n>>] \in Fds \union {NoFd}
                 /\ <<t, n>> \in inflight => <<t, n>> \in Calls
                 /\ <<t, n>> \in applied => <<t, n>> \in Calls
                 /\ <<t, n>> \in handles => <<t, n>> \in Calls
                 /\ \A f \in Fds : held[f] = <<t, n>> => <<t, n>> \in Calls
BY CallPairs DEF TypeOK

\* A call whose variables stay as they are keeps its invariant, whatever
\* becomes of its thread, unless it is the call that the thread is making.
LEMMA SameCallKeeps ==
    ASSUME TypeOK, NEW u \in Threads, NEW n \in Nat, CallInv(u, n), SameCall(u, n),
           proc = "up", count'[u] \in Nat, count[u] <= count'[u],
           SameThread(u) \/ n # count[u] \/ pc[u] = "idle"
    PROVE  CallInv(u, n)'
<1>1. Fresh(u, n)'
  BY Typing DEF CallInv, Fresh, SameCall
<1>2. Fate(u, n)'
  BY Typing DEF CallInv, Fate, SameCall
<1>3. Leaks(u, n)'
  BY Typing DEF CallInv, Leaks, SameCall, SameThread
<1>4. Connected(u, n)'
  BY Typing DEF CallInv, Connected, SameCall
<1> QED
  BY <1>1, <1>2, <1>3, <1>4 DEF CallInv

\* A thread whose variables stay as they are, and its call with them, keeps its
\* invariant.
LEMMA SameThreadKeeps ==
    ASSUME TypeOK, NEW u \in Threads, ThreadInv(u), SameThread(u), SameCall(u, count[u])
    PROVE  ThreadInv(u)'
<1>1. count[u] \in Nat /\ fd[u] \in Fds \union {NoFd}
  BY Typing
<1>2. pc[u] # "idle" => Current(u) \in Calls
  BY CurrentIsCall
<1>3. Phase(u)'
  BY <1>1, <1>2 DEF ThreadInv, Phase, SameThread, SameCall, Current, Asking, Looping
<1>4. Heard(u)'
  BY <1>1 DEF ThreadInv, Heard, SameThread, SameCall, Current
<1>5. Owns(u)'
  BY <1>1 DEF ThreadInv, Owns, InHand, SameThread, SameCall, Current
<1> QED
  BY <1>3, <1>4, <1>5 DEF ThreadInv

\* A step that reaches one call of one thread has to keep the invariant of that
\* thread and of that call.
LEMMA StepKeeps ==
    ASSUME IInv, TypeOK', proc = "up", NEW t \in Threads, NEW m \in Nat, Touches(t, m),
           \/ SameThread(t)
           \/ m = count[t] /\ count'[t] = m
           \/ m = count[t] + 1 /\ count'[t] = m /\ pc[t] = "idle",
           ThreadInv(t)', CallInv(t, m)'
    PROVE  IInv'
<1>1. TypeOK /\ \A u \in Threads : ThreadInv(u) /\ \A n \in Nat : CallInv(u, n)
  BY DEF IInv
<1>2. \A u \in Threads : count[u] \in Nat /\ count'[u] \in Nat
  BY <1>1 DEF TypeOK
<1>3. ASSUME NEW u \in Threads, u # t
      PROVE  ThreadInv(u)' /\ \A n \in Nat : CallInv(u, n)'
  <2>1. SameThread(u) /\ \A n \in Nat : SameCall(u, n)
    BY <1>3 DEF Touches
  <2>2. count[u] <= count'[u]
    BY <1>2, <2>1 DEF SameThread
  <2> QED
    BY <1>1, <1>2, <2>1, <2>2, SameThreadKeeps, SameCallKeeps
<1>4. ASSUME NEW n \in Nat, n # m
      PROVE  CallInv(t, n)'
  <2>1. SameCall(t, n)
    BY <1>4 DEF Touches
  <2>2. count[t] <= count'[t] /\ (SameThread(t) \/ n # count[t] \/ pc[t] = "idle")
    BY <1>2, <1>4 DEF SameThread
  <2> QED
    BY <1>1, <1>2, <2>1, <2>2, SameCallKeeps
<1> QED
  BY <1>3, <1>4 DEF IInv

-----------------------------------------------------------------------------
(* What the steps do to the descriptors. *)

\* Descriptor f becomes that of call c; or it is closed.
Opens(c, f) ==
    \A g \in Fds, u \in Threads, n \in Nat :
        held'[g] = <<u, n>> <=> held[g] = <<u, n>> \/ (g = f /\ c = <<u, n>>)
Closes(f) ==
    \A g \in Fds, u \in Threads, n \in Nat :
        held'[g] = <<u, n>> <=> held[g] = <<u, n>> /\ g # f

\* socket() gives a free descriptor to the call.
LEMMA OpenOpens ==
    ASSUME TypeOK, NEW c \in Calls, NEW f \in Fds, Open(c, f)
    PROVE  Opens(c, f) /\ held' \in [Fds -> Calls \union {Free}]
BY CallPairs DEF TypeOK, Open, Opens

\* close() takes it back.
LEMMA CloseCloses ==
    ASSUME TypeOK, NEW f \in Fds \union {NoFd}, Close(f)
    PROVE  Closes(f) /\ held' \in [Fds -> Calls \union {Free}]
BY CallPairs, FdsAssumption DEF TypeOK, Close, Closes

-----------------------------------------------------------------------------
(* One lemma per action. *)

\* Asking roulette keeps the inductive invariant.
LEMMA RequestKeeps ==
    ASSUME IInv, NEW t \in Threads, proc = "up", Request(t)
    PROVE  IInv'
<1>m. PICK m \in Nat : m = count[t] + 1
  BY DEF IInv, TypeOK
<1>0. TypeOK /\ ThreadInv(t) /\ CallInv(t, m)
  BY DEF IInv
<1>1. <<t, m>> \in Calls /\ count[t] \in Nat /\ count[t] < m /\ m \in Nat /\ m <= MaxCalls[t]
  BY <1>m, <1>0, NextIsCall DEF Request, Begin
<1>2. held' = held
  BY DEF Request
<1>3. TypeOK'
  <2>1. outcome' \in [Calls -> {"none", "asked", "true", "false", "thrown", "sent", "silent", "connected"}]
    BY <1>0 DEF TypeOK, Request
  <2>2. pc' \in [Threads -> {"idle", "perform", "answer", "handle", "clear", "resolve", "next", "socket",
                              "connect", "close"}]
    BY <1>0 DEF TypeOK, Request, Goto
  <2>3. \A u \in Threads : count'[u] <= MaxCalls[u] /\ (pc'[u] # "idle" => count'[u] > 0)
    BY <1>m, <1>0, <1>1 DEF TypeOK, Request, Begin, Goto
  <2>4. kind' \in [Threads -> {"none", "request", "udp", "tcp"}] /\ count' \in [Threads -> Nat]
    BY <1>0 DEF TypeOK, Request, Begin
  <2>5. left' \in [Threads -> 0 .. MaxAddrs]
    BY <1>0 DEF TypeOK, Request
  <2>6. fd' \in [Threads -> Fds \union {NoFd}] /\ sock' \in [Threads -> Fds \union {NoFd}]
    BY <1>0 DEF TypeOK, Request, Begin
  <2>7. reply' \in [Threads -> {"ok", "ko", "garbled", "none"}]
    BY <1>0 DEF TypeOK, Request, Begin
  <2>8. connection' \in [Calls -> Fds \union {NoFd}]
    BY <1>0 DEF TypeOK, Request, Begin
  <2>9. /\ handles' \subseteq Calls /\ inflight' \subseteq Calls /\ applied' \subseteq Calls
        /\ proc' \in {"up", "exit"}
    BY <1>m, <1>0, <1>1 DEF TypeOK, Request, Begin, Exit, net
  <2>10. held' \in [Fds -> Calls \union {Free}]
    BY <1>0, <1>2 DEF TypeOK
  <2> QED
    BY <2>1, <2>2, <2>3, <2>4, <2>5, <2>6, <2>7, <2>8, <2>9, <2>10 DEF TypeOK
<1>4. Touches(t, m) /\ count'[t] = m
  <2>1. \A u \in Threads \ {t} : SameThread(u)
    BY <1>0 DEF TypeOK, SameThread, Request, Begin, Goto
  <2>2. ASSUME NEW u \in Threads, NEW n \in Nat, u # t \/ n # m PROVE SameCall(u, n)
    <3> <<u, n>> # <<t, m>>
      BY <2>2
    <3> QED
      BY <1>m, <1>0 DEF TypeOK, SameCall, Request, Begin, net
  <2>3. count'[t] = m
    BY <1>m, <1>0 DEF TypeOK, Request, Begin
  <2> QED
    BY <2>1, <2>2, <2>3 DEF Touches
<1>5. Phase(t)'
  BY <1>m, <1>0, <1>1 DEF TypeOK, ThreadInv, Phase, Asking, Looping, Request, Begin, Goto, Current
<1>6. Heard(t)'
  BY <1>m, <1>0 DEF TypeOK, ThreadInv, CallInv, Heard, Fresh, Request, Begin, net, Current
<1>7. Owns(t)'
  BY <1>0 DEF ThreadInv, Owns, InHand, Phase, Request, Begin
<1>8. CallInv(t, m)'
  <2>1. Fresh(t, m)'
    BY <1>4 DEF Fresh
  <2>2. Fate(t, m)'
    BY <1>0, <1>1 DEF TypeOK, CallInv, Fate, Request, Begin, net
  <2>3. Leaks(t, m)'
    BY <1>m, <1>0, <1>4 DEF TypeOK, CallInv, Leaks, Fresh, Request, Goto
  <2>4. Connected(t, m)'
    BY <1>m, <1>0 DEF TypeOK, CallInv, Connected, Fresh, Request
  <2> QED
    BY <2>1, <2>2, <2>3, <2>4 DEF CallInv
<1> QED
  BY <1>3, <1>4, <1>5, <1>6, <1>7, <1>8, StepKeeps DEF ThreadInv, Request, Begin

\* Sending the request keeps the invariant.
LEMMA PerformKeeps ==
    ASSUME IInv, NEW t \in Threads, proc = "up", Perform(t)
    PROVE  IInv'
<1>m. PICK m \in Nat : m = count[t]
  BY DEF IInv, TypeOK
<1>0. TypeOK /\ ThreadInv(t) /\ CallInv(t, m)
  BY DEF IInv
<1>1. <<t, m>> \in Calls /\ m \in Nat
  BY <1>m, <1>0, CurrentIsCall DEF Perform, Current
<1>2. /\ held' \in [Fds -> Calls \union {Free}]
      /\ \/ \E f \in Fds : /\ Opens(<<t, m>>, f) /\ fd' = [fd EXCEPT ![t] = f]
                           /\ pc' = [pc EXCEPT ![t] = "answer"] /\ inflight' = inflight \union {<<t, m>>}
         \/ fd' = fd /\ held' = held /\ pc' = [pc EXCEPT ![t] = "handle"] /\ inflight' = inflight
  BY <1>m, <1>0, <1>1, OpenOpens DEF Perform, TypeOK, Goto, Current
<1>3. TypeOK'
  BY <1>0, <1>1, <1>2 DEF TypeOK, Perform
<1>4. Touches(t, m) /\ count'[t] = m
  <2>1. \A u \in Threads \ {t} : SameThread(u)
    BY <1>0, <1>2 DEF TypeOK, SameThread, Perform
  <2>2. ASSUME NEW u \in Threads, NEW n \in Nat, u # t \/ n # m PROVE SameCall(u, n)
    <3> <<u, n>> # <<t, m>>
      BY <2>2
    <3> QED
      BY <1>2 DEF SameCall, Perform, Opens
  <2>3. count'[t] = m
    BY <1>m DEF Perform
  <2> QED
    BY <2>1, <2>2, <2>3 DEF Touches
<1>5. Phase(t)'
  BY <1>0, <1>2 DEF TypeOK, ThreadInv, Phase, Asking, Looping, Perform, Current
<1>6. Heard(t)'
  BY <1>0, <1>2 DEF TypeOK, ThreadInv, Heard, Perform
<1>7. Owns(t)'
  BY <1>m, <1>0, <1>2 DEF TypeOK, ThreadInv, Owns, InHand, Perform, Opens, Current
<1>8. CallInv(t, m)'
  <2>1. Fresh(t, m)'
    BY <1>4 DEF Fresh
  <2>2. Fate(t, m)'
    BY <1>0 DEF ThreadInv, CallInv, Fate, Heard, Phase, Asking, Perform
  <2>3. Leaks(t, m)'
    <3>1. ASSUME proc' = "up", NEW f \in Fds, held'[f] = <<t, m>>
          PROVE  \/ outcome'[<<t, m>>] \in {"thrown", "connected"}
                 \/ m = count'[t] /\ pc'[t] # "idle" /\ (f = fd'[t] \/ f = sock'[t])
      <4>1. held[f] # <<t, m>>
        BY <1>m, <1>0, FdsAssumption DEF ThreadInv, Phase, Asking, CallInv, Leaks, Perform, Current
      <4>2. fd' = [fd EXCEPT ![t] = f] /\ pc' = [pc EXCEPT ![t] = "answer"]
        BY <1>2, <3>1, <4>1 DEF Opens
      <4> QED
        BY <1>0, <1>4, <4>2 DEF TypeOK
    <3>2. ASSUME <<t, m>> \in handles'
          PROVE  outcome'[<<t, m>>] = "thrown" \/ (m = count'[t] /\ pc'[t] # "idle")
      BY <1>m, <1>0 DEF TypeOK, Perform, Goto
    <3> QED
      BY <3>1, <3>2 DEF Leaks
  <2>4. Connected(t, m)'
    BY <1>m, <1>0 DEF ThreadInv, Connected, Phase, Asking, Perform, Current
  <2> QED
    BY <2>1, <2>2, <2>3, <2>4 DEF CallInv
<1> QED
  BY <1>m, <1>3, <1>4, <1>5, <1>6, <1>7, <1>8, StepKeeps DEF ThreadInv

\* The end of a request keeps the invariant.
LEMMA ReturnKeeps ==
    ASSUME IInv, NEW t \in Threads, proc = "up", Return(t)
    PROVE  IInv'
<1>m. PICK m \in Nat : m = count[t]
  BY DEF IInv, TypeOK
<1>0. TypeOK /\ ThreadInv(t) /\ CallInv(t, m)
  BY DEF IInv
<1>1. <<t, m>> \in Calls /\ m \in Nat
  BY <1>m, <1>0, CurrentIsCall DEF Return, Current
<1>2. /\ held' \in [Fds -> Calls \union {Free}]
      /\ \/ fd' = fd /\ held' = held
         \/ fd' = [fd EXCEPT ![t] = NoFd] /\ Closes(fd[t])
  BY <1>0, CloseCloses DEF Return, TypeOK
<1>3. TypeOK'
  BY <1>0, <1>2 DEF TypeOK, Return, Goto, net
<1>4. Touches(t, m) /\ count'[t] = m
  <2>1. \A u \in Threads \ {t} : SameThread(u)
    BY <1>0 DEF TypeOK, SameThread, Return, Goto
  <2>2. ASSUME NEW u \in Threads, NEW n \in Nat, u # t \/ n # m PROVE SameCall(u, n)
    <3> <<u, n>> # <<t, m>>
      BY <2>2
    <3> QED
      BY <1>m, <1>0, <1>2, FdsAssumption DEF SameCall, ThreadInv, Owns, InHand, Return, net,
         Closes, Current
  <2>3. count'[t] = m
    BY <1>m DEF Return
  <2> QED
    BY <2>1, <2>2, <2>3 DEF Touches
<1>5. Phase(t)'
  BY <1>0 DEF ThreadInv, Phase, Asking, Looping, Return, Goto, Current
<1>6. Heard(t)'
  BY <1>0 DEF TypeOK, ThreadInv, Heard, Return, Goto, net, Current
<1>7. Owns(t)'
  BY <1>0 DEF TypeOK, ThreadInv, Owns, InHand, Return, Current
<1>8. CallInv(t, m)'
  <2>1. Fresh(t, m)'
    BY <1>4 DEF Fresh
  <2>2. Fate(t, m)'
    BY <1>0 DEF CallInv, Fate, Return, net
  <2>3. Leaks(t, m)'
    <3>1. ASSUME proc' = "up", NEW f \in Fds, held'[f] = <<t, m>>
          PROVE  \/ outcome'[<<t, m>>] \in {"thrown", "connected"}
                 \/ m = count'[t] /\ pc'[t] # "idle" /\ (f = fd'[t] \/ f = sock'[t])
      <4>1. outcome[<<t, m>>] \notin {"thrown", "connected"} /\ sock[t] = NoFd
        BY <1>m, <1>0 DEF ThreadInv, Phase, Asking, Return, Current
      <4>2. held[f] = <<t, m>> /\ (fd' = fd \/ f # fd[t])
        BY <1>2, <3>1 DEF Closes
      <4>3. f = fd[t] /\ fd' = fd
        BY <1>0, <4>1, <4>2, FdsAssumption DEF CallInv, Leaks
      <4> QED
        BY <1>4, <4>3 DEF Return, Goto
    <3>2. ASSUME <<t, m>> \in handles'
          PROVE  outcome'[<<t, m>>] = "thrown" \/ (m = count'[t] /\ pc'[t] # "idle")
      BY <1>m DEF Return, Goto
    <3> QED
      BY <3>1, <3>2 DEF Leaks
  <2>4. Connected(t, m)'
    BY <1>m, <1>0 DEF ThreadInv, Connected, Phase, Asking, Return, Current
  <2> QED
    BY <2>1, <2>2, <2>3, <2>4 DEF CallInv
<1> QED
  BY <1>m, <1>3, <1>4, <1>5, <1>6, <1>7, <1>8, StepKeeps DEF ThreadInv

\* Giving an answer to its handler keeps the invariant.
LEMMA HandleKeeps ==
    ASSUME IInv, NEW t \in Threads, proc = "up", Handle(t)
    PROVE  IInv'
<1>m. PICK m \in Nat : m = count[t]
  BY DEF IInv, TypeOK
<1>0. TypeOK /\ ThreadInv(t) /\ CallInv(t, m)
  BY DEF IInv
<1>1. <<t, m>> \in Calls /\ m \in Nat
  BY <1>m, <1>0, CurrentIsCall DEF Handle, Current
<1>2. held' = held
  BY DEF Handle
<1>3. TypeOK'
  <2>1. outcome' \in [Calls -> {"none", "asked", "true", "false", "thrown", "sent", "silent", "connected"}]
    BY <1>0 DEF TypeOK, Handle, Ends
  <2>2. pc' \in [Threads -> {"idle", "perform", "answer", "handle", "clear", "resolve", "next", "socket",
                              "connect", "close"}]
    BY <1>0 DEF TypeOK, Handle, Leave, Goto
  <2>3. \A u \in Threads : count'[u] <= MaxCalls[u] /\ (pc'[u] # "idle" => count'[u] > 0)
    BY <1>0 DEF TypeOK, Handle, Leave, Goto
  <2>4. kind' \in [Threads -> {"none", "request", "udp", "tcp"}] /\ count' \in [Threads -> Nat]
    BY <1>0 DEF TypeOK, Handle, Leave
  <2>5. left' \in [Threads -> 0 .. MaxAddrs]
    BY <1>0, BoundsAssumption DEF TypeOK, Handle, Leave
  <2>6. fd' \in [Threads -> Fds \union {NoFd}] /\ sock' \in [Threads -> Fds \union {NoFd}]
    BY <1>0 DEF TypeOK, Handle, Leave
  <2>7. reply' \in [Threads -> {"ok", "ko", "garbled", "none"}]
    BY <1>0 DEF TypeOK, Handle, Leave
  <2>8. connection' \in [Calls -> Fds \union {NoFd}]
    BY <1>0 DEF TypeOK, Handle
  <2>9. /\ handles' \subseteq Calls /\ inflight' \subseteq Calls /\ applied' \subseteq Calls
        /\ proc' \in {"up", "exit"}
    BY <1>0 DEF TypeOK, Handle, net
  <2>10. held' \in [Fds -> Calls \union {Free}]
    BY <1>0, <1>2 DEF TypeOK
  <2> QED
    BY <2>1, <2>2, <2>3, <2>4, <2>5, <2>6, <2>7, <2>8, <2>9, <2>10 DEF TypeOK
<1>4. Touches(t, m) /\ count'[t] = m
  <2>1. \A u \in Threads \ {t} : SameThread(u)
    BY <1>0 DEF TypeOK, SameThread, Handle, Leave, Goto
  <2>2. ASSUME NEW u \in Threads, NEW n \in Nat, u # t \/ n # m PROVE SameCall(u, n)
    <3> <<u, n>> # <<t, m>>
      BY <2>2
    <3> QED
      BY <1>m, <1>0 DEF TypeOK, SameCall, Handle, Ends, net, Current
  <2>3. count'[t] = m
    BY <1>m DEF Handle, Leave
  <2> QED
    BY <2>1, <2>2, <2>3 DEF Touches
<1>5. Phase(t)'
  BY <1>m, <1>0, <1>1 DEF TypeOK, ThreadInv, Phase, Asking, Looping, Handle, Ends, Leave, Goto,
     Current
<1>6. Heard(t)'
  BY <1>0 DEF TypeOK, ThreadInv, Heard, Handle, Leave, Goto, net, Current
<1>7. Owns(t)'
  BY <1>0 DEF TypeOK, ThreadInv, Owns, InHand, Handle, Leave, Current
<1>8. CallInv(t, m)'
  <2>1. Fresh(t, m)'
    BY <1>4 DEF Fresh
  <2>2. Fate(t, m)'
    BY <1>0 DEF TypeOK, ThreadInv, CallInv, Fate, Heard, Handle, Ends, net
  <2>3. Leaks(t, m)'
    BY <1>0, <1>1 DEF TypeOK, ThreadInv, CallInv, Leaks, Phase, Asking, Handle, Ends, Goto, Current
  <2>4. Connected(t, m)'
    BY <1>0 DEF TypeOK, CallInv, Connected, Handle, Ends
  <2> QED
    BY <2>1, <2>2, <2>3, <2>4 DEF CallInv
<1> QED
  BY <1>m, <1>3, <1>4, <1>5, <1>6, <1>7, <1>8, StepKeeps DEF ThreadInv

\* clear_local_res keeps the invariant.
LEMMA ClearKeeps ==
    ASSUME IInv, NEW t \in Threads, proc = "up", Clear(t)
    PROVE  IInv'
<1>m. PICK m \in Nat : m = count[t]
  BY DEF IInv, TypeOK
<1>0. TypeOK /\ ThreadInv(t) /\ CallInv(t, m)
  BY DEF IInv
<1>1. <<t, m>> \in Calls /\ m \in Nat
  BY <1>m, <1>0, CurrentIsCall DEF Clear, Current
<1>2. Closes(fd[t]) /\ held' \in [Fds -> Calls \union {Free}]
  BY <1>0, Typing, CloseCloses DEF Clear
<1>3. TypeOK'
  BY <1>0, <1>2, BoundsAssumption DEF TypeOK, Clear, Leave, Goto, net
<1>4. Touches(t, m) /\ count'[t] = m
  <2>1. \A u \in Threads \ {t} : SameThread(u)
    BY DEF SameThread, Clear, Leave, Goto
  <2>2. ASSUME NEW u \in Threads, NEW n \in Nat, u # t \/ n # m PROVE SameCall(u, n)
    <3> <<u, n>> # <<t, m>>
      BY <2>2
    <3> QED
      BY <1>m, <1>0, <1>2, FdsAssumption DEF SameCall, ThreadInv, Owns, InHand, Clear, net, Closes,
         Current
  <2>3. count'[t] = m
    BY <1>m DEF Clear, Leave
  <2> QED
    BY <2>1, <2>2, <2>3 DEF Touches
<1>5. Phase(t)'
  BY <1>0 DEF TypeOK, Phase, Asking, Looping, Clear, Leave, Goto
<1>6. Heard(t)'
  BY <1>0 DEF TypeOK, Heard, Clear, Leave, Goto
<1>7. Owns(t)'
  BY <1>0 DEF TypeOK, Owns, InHand, Clear, Leave
<1>8. CallInv(t, m)'
  <2>1. Fresh(t, m)'
    BY <1>4 DEF Fresh
  <2>2. Fate(t, m)'
    BY <1>0 DEF CallInv, Fate, Clear, net
  <2>3. Leaks(t, m)'
    <3>1. ASSUME proc' = "up", NEW f \in Fds, held'[f] = <<t, m>>
          PROVE  \/ outcome'[<<t, m>>] \in {"thrown", "connected"}
                 \/ m = count'[t] /\ pc'[t] # "idle" /\ (f = fd'[t] \/ f = sock'[t])
      <4>1. held[f] = <<t, m>> /\ f # fd[t]
        BY <1>2, <3>1 DEF Closes
      <4>2. outcome[<<t, m>>] \in {"thrown", "connected"} \/ f = sock[t]
        BY <1>0, <4>1 DEF CallInv, Leaks
      <4> QED
        BY <1>0, <4>2, FdsAssumption DEF ThreadInv, Phase, Clear
    <3>2. ASSUME <<t, m>> \in handles'
          PROVE  outcome'[<<t, m>>] = "thrown" \/ (m = count'[t] /\ pc'[t] # "idle")
      BY <1>m, <3>2 DEF Clear, Current
    <3> QED
      BY <3>1, <3>2 DEF Leaks
  <2>4. Connected(t, m)'
    BY <1>m, <1>0 DEF ThreadInv, Connected, Phase, Clear, Current
  <2> QED
    BY <2>1, <2>2, <2>3, <2>4 DEF CallInv
<1> QED
  BY <1>m, <1>3, <1>4, <1>5, <1>6, <1>7, <1>8, StepKeeps DEF ThreadInv

\* Sending a datagram keeps the invariant.
LEMMA SendUdpKeeps ==
    ASSUME IInv, NEW t \in Threads, proc = "up", SendUdp(t)
    PROVE  IInv'
<1>m. PICK m \in Nat : m = count[t] + 1
  BY DEF IInv, TypeOK
<1>0. TypeOK /\ ThreadInv(t) /\ CallInv(t, m)
  BY DEF IInv
<1>1. <<t, m>> \in Calls /\ count[t] \in Nat /\ count[t] < m /\ m \in Nat /\ m <= MaxCalls[t]
  BY <1>m, <1>0, NextIsCall DEF SendUdp, Begin
<1>2. held' = held
  BY DEF SendUdp
<1>3. TypeOK'
  BY <1>m, <1>0, <1>1 DEF TypeOK, SendUdp, Begin, Resolved, Exit, Goto, net
<1>4. Touches(t, m) /\ count'[t] = m
  <2>1. \A u \in Threads \ {t} : SameThread(u)
    BY <1>0 DEF TypeOK, SameThread, SendUdp, Begin, Resolved, Goto
  <2>2. ASSUME NEW u \in Threads, NEW n \in Nat, u # t \/ n # m PROVE SameCall(u, n)
    <3> <<u, n>> # <<t, m>>
      BY <2>2
    <3> QED
      BY DEF SameCall, SendUdp, Begin, net
  <2>3. count'[t] = m
    BY <1>m, <1>0 DEF TypeOK, SendUdp, Begin
  <2> QED
    BY <2>1, <2>2, <2>3 DEF Touches
<1>5. Phase(t)'
  BY <1>m, <1>0, <1>1 DEF TypeOK, ThreadInv, CallInv, Phase, Fresh, Asking, SendUdp, Begin,
     Resolved, Goto, Current
<1>6. Heard(t)'
  BY <1>0 DEF TypeOK, ThreadInv, Heard, SendUdp, Begin, Resolved, Goto
<1>7. Owns(t)'
  BY <1>0 DEF ThreadInv, Owns, InHand, Phase, SendUdp, Begin
<1>8. CallInv(t, m)'
  <2>1. Fresh(t, m)'
    BY <1>4 DEF Fresh
  <2>2. Fate(t, m)'
    BY <1>0 DEF CallInv, Fate, SendUdp, Begin, net
  <2>3. Leaks(t, m)'
    BY <1>m, <1>0 DEF CallInv, Leaks, SendUdp
  <2>4. Connected(t, m)'
    BY <1>0, <1>1 DEF CallInv, Connected, Fresh, SendUdp
  <2> QED
    BY <2>1, <2>2, <2>3, <2>4 DEF CallInv
<1> QED
  BY <1>3, <1>4, <1>5, <1>6, <1>7, <1>8, StepKeeps DEF ThreadInv, SendUdp, Begin

\* A TCP call that begins keeps the invariant.
LEMMA ConnectTcpKeeps ==
    ASSUME IInv, NEW t \in Threads, proc = "up", ConnectTcp(t)
    PROVE  IInv'
<1>m. PICK m \in Nat : m = count[t] + 1
  BY DEF IInv, TypeOK
<1>0. TypeOK /\ ThreadInv(t) /\ CallInv(t, m)
  BY DEF IInv
<1>1. <<t, m>> \in Calls /\ count[t] \in Nat /\ count[t] < m /\ m \in Nat /\ m <= MaxCalls[t]
  BY <1>m, <1>0, NextIsCall DEF ConnectTcp, Begin
<1>2. /\ held' \in [Fds -> Calls \union {Free}]
      /\ \/ \E f \in Fds : /\ Opens(<<t, m>>, f) /\ sock' = [sock EXCEPT ![t] = f]
                           /\ pc' = [pc EXCEPT ![t] = "resolve"] /\ proc' = proc
         \/ sock' = sock /\ held' = held /\ pc' = pc /\ proc' = "exit"
  BY <1>m, <1>0, <1>1, OpenOpens DEF ConnectTcp, TypeOK, Exit, Goto
<1>3. TypeOK'
  BY <1>m, <1>0, <1>1, <1>2 DEF TypeOK, ConnectTcp, Begin, net
<1>4. Touches(t, m) /\ count'[t] = m
  <2>1. \A u \in Threads \ {t} : SameThread(u)
    BY <1>0, <1>2 DEF TypeOK, SameThread, ConnectTcp, Begin
  <2>2. ASSUME NEW u \in Threads, NEW n \in Nat, u # t \/ n # m PROVE SameCall(u, n)
    <3> <<u, n>> # <<t, m>>
      BY <2>2
    <3> QED
      BY <1>2 DEF SameCall, ConnectTcp, Begin, net, Opens
  <2>3. count'[t] = m
    BY <1>m, <1>0 DEF TypeOK, ConnectTcp, Begin
  <2> QED
    BY <2>1, <2>2, <2>3 DEF Touches
<1>5. Phase(t)'
  BY <1>m, <1>0, <1>1, <1>2 DEF TypeOK, ThreadInv, CallInv, Phase, Fresh, Asking, ConnectTcp,
     Begin, Current
<1>6. Heard(t)'
  BY <1>0, <1>2 DEF TypeOK, ThreadInv, Heard, ConnectTcp, Begin
<1>7. Owns(t)'
  BY <1>0 DEF ThreadInv, Owns, InHand, Phase, ConnectTcp, Begin
<1>8. CallInv(t, m)'
  <2>1. Fresh(t, m)'
    BY <1>4 DEF Fresh
  <2>2. Fate(t, m)'
    BY <1>0 DEF CallInv, Fate, ConnectTcp, Begin, net
  <2>3. Leaks(t, m)'
    <3>1. ASSUME proc' = "up", NEW f \in Fds, held'[f] = <<t, m>>
          PROVE  \/ outcome'[<<t, m>>] \in {"thrown", "connected"}
                 \/ m = count'[t] /\ pc'[t] # "idle" /\ (f = fd'[t] \/ f = sock'[t])
      <4>1. PICK g \in Fds : Opens(<<t, m>>, g) /\ sock' = [sock EXCEPT ![t] = g] /\ pc' = [pc EXCEPT ![t] = "resolve"]
        BY <1>2, <3>1
      <4>2. f = g
        BY <1>0, <1>1, <3>1, <4>1 DEF CallInv, Fresh, Opens
      <4> QED
        BY <1>0, <1>4, <4>1, <4>2 DEF TypeOK
    <3>2. ASSUME <<t, m>> \in handles'
          PROVE  outcome'[<<t, m>>] = "thrown" \/ (m = count'[t] /\ pc'[t] # "idle")
      BY <1>m, <1>0, <3>2 DEF CallInv, Leaks, ConnectTcp
    <3> QED
      BY <3>1, <3>2 DEF Leaks
  <2>4. Connected(t, m)'
    BY <1>0, <1>1 DEF CallInv, Connected, Fresh, ConnectTcp
  <2> QED
    BY <2>1, <2>2, <2>3, <2>4 DEF CallInv
<1> QED
  BY <1>3, <1>4, <1>5, <1>6, <1>7, <1>8, StepKeeps DEF ThreadInv, ConnectTcp, Begin

\* Resolving the address keeps the invariant.
LEMMA ResolveKeeps ==
    ASSUME IInv, NEW t \in Threads, proc = "up", Resolve(t)
    PROVE  IInv'
<1>m. PICK m \in Nat : m = count[t]
  BY DEF IInv, TypeOK
<1>0. TypeOK /\ ThreadInv(t) /\ CallInv(t, m)
  BY DEF IInv
<1>1. <<t, m>> \in Calls /\ m \in Nat
  BY <1>m, <1>0, CurrentIsCall DEF Resolve, Current
<1>2. held' = held
  BY DEF Resolve
<1>3. TypeOK'
  BY <1>0 DEF TypeOK, Resolve, Resolved, Exit, Goto, net
<1>4. Touches(t, m) /\ count'[t] = m
  <2>1. \A u \in Threads \ {t} : SameThread(u)
    BY <1>0 DEF TypeOK, SameThread, Resolve, Resolved, Goto
  <2>2. ASSUME NEW u \in Threads, NEW n \in Nat, u # t \/ n # m PROVE SameCall(u, n)
    <3> <<u, n>> # <<t, m>>
      BY <2>2
    <3> QED
      BY DEF SameCall, Resolve, net
  <2>3. count'[t] = m
    BY <1>m DEF Resolve
  <2> QED
    BY <2>1, <2>2, <2>3 DEF Touches
<1>5. Phase(t)'
  BY <1>0 DEF TypeOK, ThreadInv, Phase, Asking, Looping, Resolve, Resolved, Goto, Current
<1>6. Heard(t)'
  BY <1>0 DEF TypeOK, ThreadInv, Heard, Resolve, Resolved, Goto, net, Current
<1>7. Owns(t)'
  BY <1>0 DEF ThreadInv, Owns, InHand, Resolve, Current
<1>8. CallInv(t, m)'
  <2>1. Fresh(t, m)'
    BY <1>4 DEF Fresh
  <2>2. Fate(t, m)'
    BY <1>0 DEF CallInv, Fate, Resolve, net
  <2>3. Leaks(t, m)'
    BY <1>0 DEF TypeOK, CallInv, Leaks, Resolve, Resolved, Goto
  <2>4. Connected(t, m)'
    BY <1>0 DEF CallInv, Connected, Resolve
  <2> QED
    BY <2>1, <2>2, <2>3, <2>4 DEF CallInv
<1> QED
  BY <1>m, <1>3, <1>4, <1>5, <1>6, <1>7, <1>8, StepKeeps DEF ThreadInv

\* Going on to the next address keeps the invariant.
LEMMA TryNextKeeps ==
    ASSUME IInv, NEW t \in Threads, proc = "up", TryNext(t)
    PROVE  IInv'
<1>m. PICK m \in Nat : m = count[t]
  BY DEF IInv, TypeOK
<1>0. TypeOK /\ ThreadInv(t) /\ CallInv(t, m)
  BY DEF IInv
<1>1. <<t, m>> \in Calls /\ m \in Nat
  BY <1>m, <1>0, CurrentIsCall DEF TryNext, Current
<1>2. Closes(fd[t]) /\ held' \in [Fds -> Calls \union {Free}]
  BY <1>0, Typing, CloseCloses DEF TryNext
<1>3. TypeOK'
  BY <1>0, <1>2 DEF TypeOK, TryNext, Goto, net
<1>4. Touches(t, m) /\ count'[t] = m
  <2>1. \A u \in Threads \ {t} : SameThread(u)
    BY DEF SameThread, TryNext, Goto
  <2>2. ASSUME NEW u \in Threads, NEW n \in Nat, u # t \/ n # m PROVE SameCall(u, n)
    <3> <<u, n>> # <<t, m>>
      BY <2>2
    <3> QED
      BY <1>m, <1>0, <1>2, FdsAssumption DEF SameCall, ThreadInv, Owns, InHand, TryNext, net,
         Closes, Current
  <2>3. count'[t] = m
    BY <1>m DEF TryNext
  <2> QED
    BY <2>1, <2>2, <2>3 DEF Touches
<1>5. Phase(t)'
  BY <1>0, <1>2, FdsAssumption DEF TypeOK, ThreadInv, Phase, Owns, InHand, Fresh, Asking, Looping,
     TryNext, Goto, Closes, Current
<1>6. Heard(t)'
  BY <1>0 DEF ThreadInv, Heard, TryNext, Goto, net, Current
<1>7. Owns(t)'
  BY <1>0 DEF TypeOK, Owns, InHand, TryNext, Goto
<1>8. CallInv(t, m)'
  <2>1. Fresh(t, m)'
    BY <1>4 DEF Fresh
  <2>2. Fate(t, m)'
    BY <1>0 DEF CallInv, Fate, TryNext, net
  <2>3. Leaks(t, m)'
    <3>1. ASSUME proc' = "up", NEW f \in Fds, held'[f] = <<t, m>>
          PROVE  \/ outcome'[<<t, m>>] \in {"thrown", "connected"}
                 \/ m = count'[t] /\ pc'[t] # "idle" /\ (f = fd'[t] \/ f = sock'[t])
      <4>1. held[f] = <<t, m>> /\ f # fd[t]
        BY <1>2, <3>1 DEF Closes
      <4>2. outcome[<<t, m>>] \in {"thrown", "connected"} \/ f = sock[t]
        BY <1>0, <4>1 DEF CallInv, Leaks
      <4> QED
        BY <1>m, <4>2 DEF TryNext, Goto
    <3>2. ASSUME <<t, m>> \in handles'
          PROVE  outcome'[<<t, m>>] = "thrown" \/ (m = count'[t] /\ pc'[t] # "idle")
      BY <1>m DEF TryNext, Goto
    <3> QED
      BY <3>1, <3>2 DEF Leaks
  <2>4. Connected(t, m)'
    BY <1>m, <1>0 DEF ThreadInv, Connected, Phase, Looping, TryNext, Current
  <2> QED
    BY <2>1, <2>2, <2>3, <2>4 DEF CallInv
<1> QED
  BY <1>m, <1>3, <1>4, <1>5, <1>6, <1>7, <1>8, StepKeeps DEF ThreadInv

\* Opening a descriptor keeps the invariant.
LEMMA SocketKeeps ==
    ASSUME IInv, NEW t \in Threads, proc = "up", Socket(t)
    PROVE  IInv'
<1>m. PICK m \in Nat : m = count[t]
  BY DEF IInv, TypeOK
<1>0. TypeOK /\ ThreadInv(t) /\ CallInv(t, m)
  BY DEF IInv
<1>1. <<t, m>> \in Calls /\ m \in Nat
  BY <1>m, <1>0, CurrentIsCall DEF Socket, Current
<1>2. /\ held' \in [Fds -> Calls \union {Free}]
      /\ \/ \E f \in Fds : /\ Opens(<<t, m>>, f) /\ fd' = [fd EXCEPT ![t] = f]
                           /\ pc' = [pc EXCEPT ![t] = "connect"]
         \/ fd' = [fd EXCEPT ![t] = NoFd] /\ held' = held /\ pc' = [pc EXCEPT ![t] = "next"]
  BY <1>m, <1>0, <1>1, OpenOpens DEF Socket, TypeOK, Goto, Current
<1>3. TypeOK'
  <2>1. outcome' \in [Calls -> {"none", "asked", "true", "false", "thrown", "sent", "silent", "connected"}]
    BY <1>0 DEF TypeOK, Socket
  <2>2. pc' \in [Threads -> {"idle", "perform", "answer", "handle", "clear", "resolve", "next", "socket",
                              "connect", "close"}]
    BY <1>0 DEF TypeOK, Socket, Goto
  <2>3. \A u \in Threads : count'[u] <= MaxCalls[u] /\ (pc'[u] # "idle" => count'[u] > 0)
    BY <1>0 DEF TypeOK, Socket, Goto
  <2>4. kind' \in [Threads -> {"none", "request", "udp", "tcp"}] /\ count' \in [Threads -> Nat]
    BY <1>0 DEF TypeOK, Socket
  <2>5. left' \in [Threads -> 0 .. MaxAddrs]
    BY <1>0, BoundsAssumption DEF TypeOK, ThreadInv, Phase, Socket
  <2>6. fd' \in [Threads -> Fds \union {NoFd}] /\ sock' \in [Threads -> Fds \union {NoFd}]
    BY <1>0 DEF TypeOK, Socket
  <2>7. reply' \in [Threads -> {"ok", "ko", "garbled", "none"}]
    BY <1>0 DEF TypeOK, Socket
  <2>8. connection' \in [Calls -> Fds \union {NoFd}]
    BY <1>0 DEF TypeOK, Socket
  <2>9. /\ handles' \subseteq Calls /\ inflight' \subseteq Calls /\ applied' \subseteq Calls
        /\ proc' \in {"up", "exit"}
    BY <1>0 DEF TypeOK, Socket, net
  <2>10. held' \in [Fds -> Calls \union {Free}]
    BY <1>2
  <2> QED
    BY <2>1, <2>2, <2>3, <2>4, <2>5, <2>6, <2>7, <2>8, <2>9, <2>10 DEF TypeOK
<1>4. Touches(t, m) /\ count'[t] = m
  <2>1. \A u \in Threads \ {t} : SameThread(u)
    BY <1>0, <1>2 DEF TypeOK, SameThread, Socket
  <2>2. ASSUME NEW u \in Threads, NEW n \in Nat, u # t \/ n # m PROVE SameCall(u, n)
    <3> <<u, n>> # <<t, m>>
      BY <2>2
    <3>1. \A f \in Fds : held'[f] = <<u, n>> <=> held[f] = <<u, n>>
      BY <1>2 DEF Opens
    <3> QED
      BY <3>1 DEF SameCall, Socket, net
  <2>3. count'[t] = m
    BY <1>m DEF Socket
  <2> QED
    BY <2>1, <2>2, <2>3 DEF Touches
<1>5. Phase(t)'
  BY <1>0, <1>2, FdsAssumption DEF TypeOK, ThreadInv, Phase, Asking, Looping, Socket, Current
<1>6. Heard(t)'
  BY <1>0, <1>2 DEF TypeOK, ThreadInv, Heard, Socket, net, Current
<1>7. Owns(t)'
  BY <1>m, <1>0, <1>2 DEF TypeOK, Owns, InHand, Socket, Opens, Current
<1>8. CallInv(t, m)'
  <2>1. Fresh(t, m)'
    BY <1>4 DEF Fresh
  <2>2. Fate(t, m)'
    BY <1>0 DEF CallInv, Fate, Socket, net
  <2>3. Leaks(t, m)'
    <3>1. ASSUME proc' = "up", NEW f \in Fds, held'[f] = <<t, m>>
          PROVE  \/ outcome'[<<t, m>>] \in {"thrown", "connected"}
                 \/ m = count'[t] /\ pc'[t] # "idle" /\ (f = fd'[t] \/ f = sock'[t])
      <4>1. outcome[<<t, m>>] \notin {"thrown", "connected"} /\ proc' = proc /\ sock' = sock
        BY <1>m, <1>0 DEF ThreadInv, Phase, Looping, Socket, Current
      <4>2. ASSUME held[f] = <<t, m>> PROVE f = sock[t]
        BY <1>0, <4>1, <4>2, FdsAssumption DEF CallInv, Leaks, ThreadInv, Phase, Socket, Current
      <4>3. pc'[t] # "idle"
        BY <1>0 DEF TypeOK, Socket, Goto
      <4>4. CASE held[f] = <<t, m>>
        BY <1>4, <4>1, <4>2, <4>3, <4>4
      <4>5. CASE held[f] # <<t, m>>
        <5>1. PICK g \in Fds : Opens(<<t, m>>, g) /\ fd' = [fd EXCEPT ![t] = g]
          BY <1>2, <3>1, <4>5
        <5>2. f = g
          BY <3>1, <4>5, <5>1 DEF Opens
        <5> QED
          BY <1>0, <1>4, <4>3, <5>1, <5>2 DEF TypeOK
      <4> QED
        BY <4>4, <4>5
    <3>2. ASSUME <<t, m>> \in handles'
          PROVE  outcome'[<<t, m>>] = "thrown" \/ (m = count'[t] /\ pc'[t] # "idle")
      BY <1>m, <1>0 DEF TypeOK, Socket, Goto
    <3> QED
      BY <3>1, <3>2 DEF Leaks
  <2>4. Connected(t, m)'
    BY <1>m, <1>0 DEF ThreadInv, Connected, Phase, Looping, Socket, Current
  <2> QED
    BY <2>1, <2>2, <2>3, <2>4 DEF CallInv
<1> QED
  BY <1>m, <1>3, <1>4, <1>5, <1>6, <1>7, <1>8, StepKeeps DEF ThreadInv

\* An attempt to connect keeps the invariant.
LEMMA AttemptKeeps ==
    ASSUME IInv, NEW t \in Threads, proc = "up", Attempt(t)
    PROVE  IInv'
<1>m. PICK m \in Nat : m = count[t]
  BY DEF IInv, TypeOK
<1>0. TypeOK /\ ThreadInv(t) /\ CallInv(t, m)
  BY DEF IInv
<1>1. <<t, m>> \in Calls /\ m \in Nat
  BY <1>m, <1>0, CurrentIsCall DEF Attempt, Current
<1>2. held' = held
  BY DEF Attempt
<1>3. TypeOK'
  <2>1. outcome' \in [Calls -> {"none", "asked", "true", "false", "thrown", "sent", "silent", "connected"}]
    BY <1>0 DEF TypeOK, Attempt, Ends
  <2>2. pc' \in [Threads -> {"idle", "perform", "answer", "handle", "clear", "resolve", "next", "socket",
                              "connect", "close"}]
    BY <1>0 DEF TypeOK, Attempt, Leave, Goto
  <2>3. \A u \in Threads : count'[u] <= MaxCalls[u] /\ (pc'[u] # "idle" => count'[u] > 0)
    BY <1>0 DEF TypeOK, Attempt, Leave, Goto
  <2>4. kind' \in [Threads -> {"none", "request", "udp", "tcp"}] /\ count' \in [Threads -> Nat]
    BY <1>0 DEF TypeOK, Attempt, Leave
  <2>5. left' \in [Threads -> 0 .. MaxAddrs]
    BY <1>0, BoundsAssumption DEF TypeOK, Attempt, Leave
  <2>6. fd' \in [Threads -> Fds \union {NoFd}] /\ sock' \in [Threads -> Fds \union {NoFd}]
    BY <1>0 DEF TypeOK, Attempt, Leave
  <2>7. reply' \in [Threads -> {"ok", "ko", "garbled", "none"}]
    BY <1>0 DEF TypeOK, Attempt, Leave
  <2>8. connection' \in [Calls -> Fds \union {NoFd}]
    BY <1>0 DEF TypeOK, Attempt
  <2>9. /\ handles' \subseteq Calls /\ inflight' \subseteq Calls /\ applied' \subseteq Calls
        /\ proc' \in {"up", "exit"}
    BY <1>0 DEF TypeOK, Attempt, net
  <2>10. held' \in [Fds -> Calls \union {Free}]
    BY <1>0, <1>2 DEF TypeOK
  <2> QED
    BY <2>1, <2>2, <2>3, <2>4, <2>5, <2>6, <2>7, <2>8, <2>9, <2>10 DEF TypeOK
<1>4. Touches(t, m) /\ count'[t] = m
  <2>1. \A u \in Threads \ {t} : SameThread(u)
    BY <1>0 DEF TypeOK, SameThread, Attempt, Leave, Goto
  <2>2. ASSUME NEW u \in Threads, NEW n \in Nat, u # t \/ n # m PROVE SameCall(u, n)
    <3> <<u, n>> # <<t, m>>
      BY <2>2
    <3> QED
      BY <1>m, <1>0 DEF TypeOK, SameCall, Attempt, Ends, net, Current
  <2>3. count'[t] = m
    BY <1>m DEF Attempt, Leave
  <2> QED
    BY <2>1, <2>2, <2>3 DEF Touches
<1>5. Phase(t)'
  BY <1>m, <1>0, <1>1 DEF TypeOK, ThreadInv, Phase, Asking, Looping, Attempt, Ends, Leave, Goto,
     Current
<1>6. Heard(t)'
  BY <1>0 DEF TypeOK, ThreadInv, Heard, Attempt, Leave, Goto, net, Current
<1>7. Owns(t)'
  BY <1>0 DEF TypeOK, ThreadInv, Owns, InHand, Attempt, Leave, Current
<1>8. CallInv(t, m)'
  <2>1. Fresh(t, m)'
    BY <1>4 DEF Fresh
  <2>2. Fate(t, m)'
    BY <1>0 DEF TypeOK, ThreadInv, CallInv, Fate, Phase, Looping, Attempt, Ends, net
  <2>3. Leaks(t, m)'
    <3>1. ASSUME proc' = "up", NEW f \in Fds, held'[f] = <<t, m>>
          PROVE  \/ outcome'[<<t, m>>] \in {"thrown", "connected"}
                 \/ m = count'[t] /\ pc'[t] # "idle" /\ (f = fd'[t] \/ f = sock'[t])
      BY <1>0, <1>1, <3>1 DEF TypeOK, ThreadInv, CallInv, Leaks, Phase, Looping, Attempt, Ends,
         Goto, Current
    <3>2. ASSUME <<t, m>> \in handles'
          PROVE  outcome'[<<t, m>>] = "thrown" \/ (m = count'[t] /\ pc'[t] # "idle")
      BY <1>m, <1>0, <3>2 DEF CallInv, Fate, ThreadInv, Phase, Looping, Attempt, Current
    <3> QED
      BY <3>1, <3>2 DEF Leaks
  <2>4. Connected(t, m)'
    BY <1>0 DEF TypeOK, ThreadInv, CallInv, Connected, Owns, InHand, Phase, Attempt, Ends
  <2> QED
    BY <2>1, <2>2, <2>3, <2>4 DEF CallInv
<1> QED
  BY <1>m, <1>3, <1>4, <1>5, <1>6, <1>7, <1>8, StepKeeps DEF ThreadInv

\* The end of the addresses keeps the invariant.
LEMMA NoMoreKeeps ==
    ASSUME IInv, NEW t \in Threads, proc = "up", NoMore(t)
    PROVE  IInv'
<1>m. PICK m \in Nat : m = count[t]
  BY DEF IInv, TypeOK
<1>0. TypeOK /\ ThreadInv(t) /\ CallInv(t, m)
  BY DEF IInv
<1>1. <<t, m>> \in Calls /\ m \in Nat
  BY <1>m, <1>0, CurrentIsCall DEF NoMore, Current
<1>2. held' = held
  BY DEF NoMore
<1>3. TypeOK'
  BY <1>0 DEF TypeOK, NoMore, Ends, Exit, Goto, net
<1>4. Touches(t, m) /\ count'[t] = m
  <2>1. \A u \in Threads \ {t} : SameThread(u)
    BY <1>0 DEF TypeOK, SameThread, NoMore, Goto
  <2>2. ASSUME NEW u \in Threads, NEW n \in Nat, u # t \/ n # m PROVE SameCall(u, n)
    <3> <<u, n>> # <<t, m>>
      BY <2>2
    <3> QED
      BY <1>m, <1>0 DEF TypeOK, SameCall, NoMore, Ends, net, Current
  <2>3. count'[t] = m
    BY <1>m DEF NoMore
  <2> QED
    BY <2>1, <2>2, <2>3 DEF Touches
<1>5. Phase(t)'
  BY <1>m, <1>0, <1>1 DEF TypeOK, ThreadInv, Phase, Asking, Looping, NoMore, Ends, Goto, Current
<1>6. Heard(t)'
  BY <1>0 DEF TypeOK, ThreadInv, Heard, NoMore, Goto, net, Current
<1>7. Owns(t)'
  BY <1>0 DEF ThreadInv, Owns, InHand, NoMore, Current
<1>8. CallInv(t, m)'
  <2>1. Fresh(t, m)'
    BY <1>4 DEF Fresh
  <2>2. Fate(t, m)'
    BY <1>0 DEF TypeOK, ThreadInv, CallInv, Fate, Phase, Looping, NoMore, Ends, net
  <2>3. Leaks(t, m)'
    BY <1>0, <1>1 DEF TypeOK, ThreadInv, CallInv, Leaks, Phase, Looping, NoMore, Ends, Exit, Goto
  <2>4. Connected(t, m)'
    BY <1>0 DEF TypeOK, CallInv, Connected, NoMore, Ends
  <2> QED
    BY <2>1, <2>2, <2>3, <2>4 DEF CallInv
<1> QED
  BY <1>m, <1>3, <1>4, <1>5, <1>6, <1>7, <1>8, StepKeeps DEF ThreadInv

\* Closing the descriptor of a datagram keeps the invariant.
LEMMA CloseUdpKeeps ==
    ASSUME IInv, NEW t \in Threads, proc = "up", CloseUdp(t)
    PROVE  IInv'
<1>m. PICK m \in Nat : m = count[t]
  BY DEF IInv, TypeOK
<1>0. TypeOK /\ ThreadInv(t) /\ CallInv(t, m)
  BY DEF IInv
<1>1. <<t, m>> \in Calls /\ m \in Nat
  BY <1>m, <1>0, CurrentIsCall DEF CloseUdp, Current
<1>2. Closes(fd[t]) /\ held' \in [Fds -> Calls \union {Free}]
  BY <1>0, Typing, CloseCloses DEF CloseUdp
<1>3. TypeOK'
  BY <1>0, <1>2, BoundsAssumption DEF TypeOK, CloseUdp, Leave, Goto, net
<1>4. Touches(t, m) /\ count'[t] = m
  <2>1. \A u \in Threads \ {t} : SameThread(u)
    BY DEF SameThread, CloseUdp, Leave, Goto
  <2>2. ASSUME NEW u \in Threads, NEW n \in Nat, u # t \/ n # m PROVE SameCall(u, n)
    <3> <<u, n>> # <<t, m>>
      BY <2>2
    <3> QED
      BY <1>m, <1>0, <1>2, FdsAssumption DEF SameCall, ThreadInv, Owns, InHand, CloseUdp, net,
         Closes, Current
  <2>3. count'[t] = m
    BY <1>m DEF CloseUdp, Leave
  <2> QED
    BY <2>1, <2>2, <2>3 DEF Touches
<1>5. Phase(t)'
  BY <1>0 DEF TypeOK, Phase, Asking, Looping, CloseUdp, Leave, Goto
<1>6. Heard(t)'
  BY <1>0 DEF TypeOK, Heard, CloseUdp, Leave, Goto
<1>7. Owns(t)'
  BY <1>0 DEF TypeOK, Owns, InHand, CloseUdp, Leave
<1>8. CallInv(t, m)'
  <2>1. Fresh(t, m)'
    BY <1>4 DEF Fresh
  <2>2. Fate(t, m)'
    BY <1>0 DEF CallInv, Fate, CloseUdp, net
  <2>3. Leaks(t, m)'
    <3>1. ASSUME proc' = "up", NEW f \in Fds, held'[f] = <<t, m>>
          PROVE  \/ outcome'[<<t, m>>] \in {"thrown", "connected"}
                 \/ m = count'[t] /\ pc'[t] # "idle" /\ (f = fd'[t] \/ f = sock'[t])
      <4>1. held[f] = <<t, m>> /\ f # fd[t]
        BY <1>2, <3>1 DEF Closes
      <4>2. outcome[<<t, m>>] \in {"thrown", "connected"} \/ f = sock[t]
        BY <1>0, <4>1 DEF CallInv, Leaks
      <4> QED
        BY <1>0, <4>2, FdsAssumption DEF ThreadInv, Phase, CloseUdp
    <3>2. ASSUME <<t, m>> \in handles'
          PROVE  outcome'[<<t, m>>] = "thrown" \/ (m = count'[t] /\ pc'[t] # "idle")
      BY <1>m, <1>0, <3>2 DEF CallInv, Fate, ThreadInv, Phase, CloseUdp, Current
    <3> QED
      BY <3>1, <3>2 DEF Leaks
  <2>4. Connected(t, m)'
    BY <1>m, <1>0 DEF ThreadInv, Connected, Phase, CloseUdp, Current
  <2> QED
    BY <2>1, <2>2, <2>3, <2>4 DEF CallInv
<1> QED
  BY <1>m, <1>3, <1>4, <1>5, <1>6, <1>7, <1>8, StepKeeps DEF ThreadInv

\* Roulette applying a request keeps the invariant.
LEMMA RouletteKeeps ==
    ASSUME IInv, NEW c \in inflight, proc = "up", Roulette(c[1], c[2])
    PROVE  IInv'
<1>1. PICK t \in Threads, m \in Nat : c = <<t, m>>
  BY CallPairs DEF IInv, TypeOK
<1>2. TypeOK /\ ThreadInv(t) /\ CallInv(t, m) /\ <<t, m>> \in Calls /\ <<t, m>> \in inflight
  BY <1>1 DEF IInv, TypeOK
<1>3. /\ inflight' = inflight \ {<<t, m>>}
      /\ \/ applied' = applied \union {<<t, m>>} /\ Answered(t, m, {"ok", "garbled", "none"})
         \/ UNCHANGED applied /\ Answered(t, m, {"ko", "garbled", "none"})
      /\ UNCHANGED <<proc, pc, kind, count, fd, sock, left, held, handles, outcome, connection>>
  BY <1>1 DEF Roulette
<1>4. TypeOK'
  BY <1>2, <1>3 DEF TypeOK, Answered
<1>5. Touches(t, m) /\ count'[t] = count[t] /\ (SameThread(t) \/ m = count[t])
  BY <1>2, <1>3 DEF TypeOK, Touches, SameThread, SameCall, Answered
<1>6. Phase(t)'
  BY <1>2, <1>3 DEF ThreadInv, Phase, Current
<1>7. Heard(t)'
  BY <1>2, <1>3 DEF TypeOK, ThreadInv, CallInv, Heard, Fate, Answered, Current
<1>8. Owns(t)'
  BY <1>2, <1>3 DEF ThreadInv, Owns, InHand, Current
<1>9. Fresh(t, m)'
  BY <1>2, <1>3 DEF CallInv, Fresh
<1>10. Fate(t, m)'
  BY <1>2, <1>3 DEF CallInv, Fate
<1>11. Leaks(t, m)'
  BY <1>2, <1>3 DEF CallInv, Leaks
<1>12. Connected(t, m)'
  BY <1>2, <1>3 DEF CallInv, Connected
<1> QED
  BY <1>4, <1>5, <1>6, <1>7, <1>8, <1>9, <1>10, <1>11, <1>12, StepKeeps DEF ThreadInv, CallInv

\* Every step keeps it.
LEMMA NextKeeps == IInv /\ [Next]_vars => IInv'
<1> SUFFICES ASSUME IInv, [Next]_vars PROVE IInv'
  OBVIOUS
<1>1. CASE UNCHANGED vars
  <2>1. TypeOK'
    BY <1>1 DEF IInv, TypeOK, vars
  <2>2. ASSUME NEW t \in Threads PROVE ThreadInv(t)'
    BY <1>1 DEF IInv, ThreadInv, Phase, Heard, Owns, InHand, Current, vars
  <2>3. ASSUME NEW t \in Threads, NEW n \in Nat PROVE CallInv(t, n)'
    BY <1>1 DEF IInv, CallInv, Fresh, Fate, Leaks, Connected, vars
  <2> QED
    BY <2>1, <2>2, <2>3 DEF IInv
<1>2. ASSUME proc = "up", NEW t \in Threads, Request(t) \/ SendUdp(t) \/ ConnectTcp(t) \/ GoOn(t)
      PROVE  IInv'
  BY <1>2, RequestKeeps, SendUdpKeeps, ConnectTcpKeeps, PerformKeeps, ReturnKeeps, HandleKeeps,
     ClearKeeps,
     ResolveKeeps, TryNextKeeps, SocketKeeps, AttemptKeeps, NoMoreKeeps, CloseUdpKeeps DEF GoOn
<1>3. ASSUME proc = "up", NEW c \in inflight, Roulette(c[1], c[2])
      PROVE  IInv'
  BY <1>3, RouletteKeeps
<1> QED
  BY <1>1, <1>2, <1>3 DEF Next

\* The inductive invariant holds of every state.
LEMMA Invariance == Spec => []IInv
<1>1. Init => IInv
  BY InitIInv
<1>2. IInv /\ [Next]_vars => IInv'
  BY NextKeeps
<1> QED
  BY <1>1, <1>2, PTL DEF Spec

-----------------------------------------------------------------------------
\* TypeOK holds in every reachable state: the call that a thread makes, and its
\* place in it, are those of db/dbquery.cpp, client/clientudp.cpp and
\* client/clienttcp.cpp.
THEOREM TypeCorrect == Spec => []TypeOK
<1>1. IInv => TypeOK
  BY DEF IInv
<1> QED
  BY <1>1, Invariance, PTL

\* A number that a thread uses or closes is open and was opened by the same
\* call (clientudp.cpp:40-62, clienttcp.cpp:46-54).
THEOREM DescriptorOwned == Spec => []OwnDescriptor
BY IInvImplies, Invariance, PTL

\* What is open and not in use was left by a request that threw (dbquery.h:81-87)
\* or by a connection (clienttcp.cpp:4, 54).
THEOREM LeaksExplained == Spec => []LeaksAreExplained
BY IInvImplies, Invariance, PTL

\* connect_to_server returns only with a connection of its own
\* (clienttcp.cpp:44-60).
THEOREM ConnectionReturned == Spec => []ConnectReturnsConnection
BY IInvImplies, Invariance, PTL

-----------------------------------------------------------------------------
(* The refinement. *)

\* What RemoteCall sees of the outcome of a call
Known == {"asked", "true", "false", "thrown"}
Seen == [c \in Calls |-> IF outcome[c] \in Known THEN outcome[c] ELSE "none"]

\* A step that changes one outcome changes what is seen of it, or nothing.
LEMMA SeenExcept ==
    ASSUME TypeOK, NEW c \in Calls, NEW o, outcome' = [outcome EXCEPT ![c] = o]
    PROVE  /\ o \in Known => Seen' = [Seen EXCEPT ![c] = o]
           /\ o \notin Known /\ outcome[c] = "none" => Seen' = Seen
<1>1. \A d \in Calls : outcome'[d] = IF d = c THEN o ELSE outcome[d]
  BY DEF TypeOK
<1>2. ASSUME o \in Known
      PROVE  Seen' = [Seen EXCEPT ![c] = o]
  BY <1>1, <1>2 DEF Seen
<1>3. ASSUME o \notin Known, outcome[c] = "none"
      PROVE  Seen' = Seen
  <2>1. outcome[c] \notin Known
    BY <1>3 DEF Known
  <2> QED
    BY <1>3 DEF Seen
<1> QED
  BY <1>2, <1>3

\* The initial states are those of the abstract specification.
LEMMA RemoteInit == Init => Remote!Init
BY DEF Init, Remote!Init

\* Every step is one of the abstract specification, or stutters.
LEMMA RemoteStep == IInv /\ [Next]_vars => [Remote!Next]_Remote!vars
<1> SUFFICES ASSUME IInv, [Next]_vars PROVE [Remote!Next]_Remote!vars
  OBVIOUS
<1>0. TypeOK
  BY DEF IInv
<1>1. ASSUME UNCHANGED <<Seen, applied>>
      PROVE  UNCHANGED Remote!vars
  BY <1>1 DEF Remote!vars, Seen, Known
<1>2. ASSUME outcome' = outcome, applied' = applied
      PROVE  UNCHANGED Remote!vars
  BY <1>1, <1>2 DEF Seen
<1>3. CASE UNCHANGED vars
  BY <1>2, <1>3 DEF vars
<1>4. ASSUME proc = "up", NEW t \in Threads, Request(t)
      PROVE  [Remote!Next]_Remote!vars
  <2>1. CASE outcome' = outcome
    BY <1>2, <1>4, <2>1 DEF Request, Begin, net
  <2>2. CASE outcome' = [outcome EXCEPT ![<<t, count[t] + 1>>] = "asked"]
    <3>1. PICK m \in Nat : m = count[t] + 1 /\ <<t, m>> \in Calls /\ m > count[t]
      BY <1>0, <1>4, NextIsCall DEF Request, Begin
    <3>2. outcome[<<t, m>>] = "none"
      BY <3>1 DEF IInv, CallInv, Fresh
    <3>3. Seen' = [Seen EXCEPT ![<<t, m>>] = "asked"] /\ Seen[<<t, m>>] = "none"
      BY <1>0, <2>2, <3>1, <3>2, SeenExcept DEF Seen, Known
    <3>4. Remote!Ask(<<t, m>>)
      BY <1>4, <3>3 DEF Remote!Ask, Seen, Known, Request, Begin, net
    <3> QED
      BY <3>1, <3>4 DEF Remote!Next
  <2> QED
    BY <1>4, <2>1, <2>2 DEF Request
<1>5. ASSUME proc = "up", NEW c \in inflight, Roulette(c[1], c[2])
      PROVE  [Remote!Next]_Remote!vars
  <2>1. PICK t \in Threads, m \in Nat : c = <<t, m>> /\ <<t, m>> \in Calls
    BY CallPairs DEF IInv, TypeOK
  <2>2. <<t, m>> \notin applied /\ outcome[<<t, m>>] \in {"asked", "thrown"}
    BY <2>1 DEF IInv, CallInv, Fate
  <2>3. Seen' = Seen /\ Seen[<<t, m>>] \in {"asked", "thrown"}
    BY <1>5, <2>1, <2>2 DEF Roulette, Seen, Known
  <2>4. CASE applied' = applied \union {<<t, m>>}
    <3>1. Remote!Apply(<<t, m>>)
      BY <2>2, <2>3, <2>4 DEF Remote!Apply, Seen, Known
    <3> QED
      BY <2>1, <3>1 DEF Remote!Next
  <2>5. CASE applied' = applied
    BY <1>1, <2>3, <2>5
  <2> QED
    BY <1>5, <2>1, <2>4, <2>5 DEF Roulette
<1>6. ASSUME proc = "up", NEW t \in Threads, Handle(t)
      PROVE  [Remote!Next]_Remote!vars
  <2>1. PICK m \in Nat : m = count[t] /\ <<t, m>> \in Calls
    BY <1>0, <1>6, CurrentIsCall DEF Handle, Current
  <2>2. PICK a \in {"true", "false", "thrown"} :
            /\ outcome' = [outcome EXCEPT ![<<t, m>>] = a]
            /\ a = "true" => reply[t] = "ok"
            /\ a = "false" => reply[t] = "ko"
    BY <1>6, <2>1 DEF Handle, Ends, Current
  <2>3. outcome[<<t, m>>] = "asked"
    BY <1>6, <2>1 DEF IInv, ThreadInv, Phase, Asking, Handle, Current
  <2>4. /\ a = "true" => <<t, m>> \in applied
        /\ a = "false" => <<t, m>> \notin applied
    BY <2>1, <2>2 DEF IInv, ThreadInv, Heard, Current
  <2>5. Seen' = [Seen EXCEPT ![<<t, m>>] = a] /\ Seen[<<t, m>>] = "asked" /\ applied' = applied
    BY <1>0, <1>6, <2>1, <2>2, <2>3, SeenExcept DEF Seen, Known, Handle, net
  <2>6. Remote!Answer(<<t, m>>, a)
    BY <2>4, <2>5 DEF Remote!Answer, Seen, Known
  <2> QED
    BY <2>1, <2>6 DEF Remote!Next
<1>7. ASSUME proc = "up", NEW t \in Threads, Attempt(t) \/ NoMore(t)
      PROVE  UNCHANGED Remote!vars
  <2>1. PICK m \in Nat : m = count[t] /\ <<t, m>> \in Calls
    BY <1>0, <1>7, CurrentIsCall DEF Attempt, NoMore, Current
  <2>2. outcome[<<t, m>>] = "none"
    BY <1>7, <2>1 DEF IInv, ThreadInv, Phase, Looping, Attempt, NoMore, Current
  <2>3. applied' = applied
    BY <1>7 DEF Attempt, NoMore, net
  <2>4. CASE outcome' = outcome
    BY <1>2, <2>3, <2>4
  <2>5. ASSUME NEW o \in {"sent", "silent", "connected"}, outcome' = [outcome EXCEPT ![<<t, m>>] = o]
        PROVE  UNCHANGED Remote!vars
    <3>1. o \notin Known
      BY DEF Known
    <3>2. Seen' = Seen
      BY <1>0, <2>1, <2>2, <2>5, <3>1, SeenExcept
    <3> QED
      BY <1>1, <2>3, <3>2
  <2> QED
    BY <1>7, <2>1, <2>4, <2>5 DEF Attempt, NoMore, Ends, Current
<1>8. ASSUME NEW t \in Threads,
             \/ SendUdp(t) \/ ConnectTcp(t) \/ Perform(t) \/ Return(t) \/ Clear(t) \/ Resolve(t)
             \/ TryNext(t) \/ Socket(t) \/ CloseUdp(t)
      PROVE  UNCHANGED Remote!vars
  BY <1>2, <1>8 DEF SendUdp, ConnectTcp, Begin, Perform, Return, Clear, Resolve, TryNext, Socket,
     CloseUdp, net
<1> QED
  BY <1>3, <1>4, <1>5, <1>6, <1>7, <1>8 DEF Next, GoOn

\* Requests implement RemoteCall: handle_req answers "true" only for what
\* roulette has carried out and "false" only for what it has refused
\* (dbquery.cpp:265-296), and a request that threw may still be carried out, once.
THEOREM RequestsImplementRemoteCall == Spec => ImplementsRemoteCall
<1>1. Init => Remote!Init
  BY RemoteInit
<1>2. IInv /\ [Next]_vars => [Remote!Next]_Remote!vars
  BY RemoteStep
<1> QED
  BY <1>1, <1>2, Invariance, PTL DEF Spec, ImplementsRemoteCall, Remote!Spec

=============================================================================
