------------------------- MODULE ControlServerProofs -------------------------
(***************************************************************************)
(* OneReachableDaemon of module ControlServer, for any number of daemons,  *)
(* clients, starts and crashes.                                            *)
(***************************************************************************)
EXTENDS ControlServer, TLAPS

Places == {"down", "lstat", "probe", "remove", "listen", "chmod", "serving",
           "unlink", "hang up", "remove again"}
Sockets == Daemons \X Nat

TypeInv ==
    /\ daemon \in [Daemons -> [at : Places, n : Nat]]
    /\ path \in {NoFile} \cup Sockets
    /\ overlap \in BOOLEAN

\* A daemon past listen, and not yet closing, listens on its socket
Bound(d) == daemon[d].at \in {"chmod", "serving"}
Heard == \A d \in Daemons : Bound(d) => SocketOf(d) \in listening
NoneBound == \A d \in Daemons : ~Bound(d)

\* Beside a daemon that serves another one only ever looks
Looking(d) == daemon[d].at \in {"lstat", "probe"}

Orderly ==
    /\ \A d, e \in Daemons : Busy(d) /\ Busy(e) => d = e
    /\ \A d \in Daemons : Bound(d) => path = SocketOf(d)
    /\ \A d, e \in Daemons : Busy(d) /\ Serving(e) => Looking(d)

IInv == TypeInv /\ Heard /\ (~overlap => Orderly)

-----------------------------------------------------------------------------
\* Sockets tell the daemon that bound them.
LEMMA SocketsDiffer ==
    ASSUME NEW d \in Daemons, NEW e \in Daemons, SocketOf(d) = SocketOf(e)
    PROVE  d = e
BY DEF SocketOf

LEMMA SocketIsAFile ==
    ASSUME TypeInv, NEW d \in Daemons
    PROVE  SocketOf(d) \in Sockets /\ SocketOf(d) # NoFile
<1>1. daemon[d].n \in Nat
  BY DEF TypeInv
<1>2. SocketOf(d) \in Sockets
  BY <1>1 DEF SocketOf, Sockets
<1> QED
  BY <1>2, ControlServerAssumption DEF Sockets

\* Two serving daemons would both be found at the path.
LEMMA OneServes ==
    ASSUME Orderly, NEW d \in Daemons, NEW e \in Daemons, Serving(d), Serving(e)
    PROVE  d = e
<1>1. path = SocketOf(d) /\ path = SocketOf(e)
  BY DEF Orderly, Bound, Serving
<1> QED
  BY <1>1, SocketsDiffer

LEMMA Initial == Init => IInv
<1> SUFFICES ASSUME Init PROVE IInv
  OBVIOUS
<1>1. TypeInv
  <2>1. Daemons \X {0} \subseteq Daemons \X Nat
    OBVIOUS
  <2>2. path \in {NoFile} \cup Sockets
    BY <2>1 DEF Init, Sockets
  <2>3. daemon \in [Daemons -> [at : Places, n : Nat]]
    BY DEF Init, Places
  <2> QED
    BY <2>2, <2>3 DEF Init, TypeInv
<1>2. \A d \in Daemons : ~Bound(d) /\ ~Busy(d)
  BY DEF Init, Bound, Busy, Up
<1> QED
  BY <1>1, <1>2 DEF IInv, Heard, Orderly

-----------------------------------------------------------------------------
\* A step of daemon d alone that leaves its socket's number alone.
LEMMA GoType ==
    ASSUME TypeInv, NEW d \in Daemons, NEW at \in Places, Go(d, at)
    PROVE  /\ daemon' \in [Daemons -> [at : Places, n : Nat]]
           /\ daemon'[d].at = at
           /\ \A e \in Daemons \ {d} : daemon'[e] = daemon[e]
           /\ \A e \in Daemons : SocketOf(e)' = SocketOf(e)
BY DEF TypeInv, Go, SocketOf

LEMMA StartDaemonStep ==
    ASSUME IInv, NEW d \in Daemons, StartDaemon(d)
    PROVE  IInv'
<1>1. /\ daemon' \in [Daemons -> [at : Places, n : Nat]]
      /\ daemon'[d].at = "lstat"
      /\ \A e \in Daemons \ {d} : daemon'[e] = daemon[e]
      /\ \A e \in Daemons : SocketOf(e)' = SocketOf(e)
  BY GoType DEF StartDaemon, IInv, Places
<1>2. path' = path /\ listening' = listening
  BY DEF StartDaemon
<1>3. \A e \in Daemons : Bound(e)' => Bound(e)
  BY <1>1 DEF Bound
<1>4. TypeInv'
  BY <1>1, <1>2 DEF StartDaemon, IInv, TypeInv
<1>5. Heard'
  BY <1>1, <1>2, <1>3 DEF IInv, Heard
<1>6. ASSUME ~overlap' PROVE Orderly'
  <2>1. CASE \A e \in Daemons : ~Up(e)
    <3>1. \A e \in Daemons \ {d} : daemon'[e].at = "down"
      BY <2>1, <1>1 DEF Up
    <3> QED
      BY <3>1, <1>1 DEF Orderly, Busy, Up, Serving, Bound, Looking
  <2>2. CASE ~overlap /\ \A e \in Daemons : ~Busy(e)
    <3>1. Orderly
      BY <2>2 DEF IInv
    <3>2. \A e \in Daemons : Busy(e)' => e = d
      BY <2>2, <1>1 DEF Busy, Up, Serving
    <3>3. \A e \in Daemons : Bound(e)' => path' = SocketOf(e)'
      BY <3>1, <1>1, <1>2, <1>3 DEF Orderly
    <3> QED
      BY <3>2, <3>3, <1>1 DEF Orderly, Looking
  <2> QED
    BY <1>6, <2>1, <2>2 DEF StartDaemon
<1> QED
  BY <1>4, <1>5, <1>6 DEF IInv

\* A daemon that is at work may go on to a place: only from chmod it goes on to
\* serve, and past the look at the path there is nobody who serves.
MayGo(d, at) ==
    /\ at \in Places \ {"chmod"}
    /\ at = "serving" => daemon[d].at = "chmod"
    /\ Busy(d) \/ at = "down"
    /\ at \notin {"down", "serving", "lstat", "probe"} =>
         \A e \in Daemons : Serving(e) => overlap

\* It takes away no socket but its own, and no file another one is bound to.
TakesItsOwn(d, at) ==
    /\ path' \in {path, NoFile} /\ overlap' = overlap
    /\ path' # path => overlap \/ NoneBound'
    /\ \/ listening' = listening
       \/ listening' = listening \ {SocketOf(d)} /\ at # "serving"

LEMMA WorkStep ==
    ASSUME IInv, NEW d \in Daemons, NEW at, MayGo(d, at), Go(d, at), TakesItsOwn(d, at)
    PROVE  IInv'
<1>1. /\ daemon' \in [Daemons -> [at : Places, n : Nat]]
      /\ daemon'[d].at = at
      /\ \A e \in Daemons \ {d} : daemon'[e] = daemon[e]
      /\ \A e \in Daemons : SocketOf(e)' = SocketOf(e)
  BY GoType DEF IInv, MayGo
<1>2. TypeInv'
  BY <1>1 DEF IInv, TypeInv, TakesItsOwn
<1>3. \A e \in Daemons : Bound(e)' => Bound(e) /\ (e = d => at = "serving")
  BY <1>1 DEF Bound, MayGo
<1>4. Heard'
  <2> SUFFICES ASSUME NEW e \in Daemons, Bound(e)' PROVE SocketOf(e) \in listening'
    BY <1>1 DEF Heard
  <2>1. SocketOf(e) \in listening /\ (e = d => at = "serving")
    BY <1>3 DEF IInv, Heard
  <2> QED
    BY <2>1, SocketsDiffer DEF TakesItsOwn
<1>5. ASSUME ~overlap' PROVE Orderly'
  <2>1. Orderly /\ ~overlap
    BY <1>5 DEF IInv, TakesItsOwn
  <2>2. \A e \in Daemons : Bound(e)' => path' = SocketOf(e)'
    BY <1>1, <1>3, <2>1 DEF Orderly, NoneBound, TakesItsOwn
  <2>3. \A e \in Daemons : Busy(e)' => Busy(e)
    BY <1>1 DEF Busy, Up, Serving, MayGo
  <2>4. ASSUME NEW e \in Daemons, NEW f \in Daemons, Busy(e)', Serving(f)'
        PROVE  Looking(e)'
    <3>1. Busy(e) /\ e # f
      BY <2>3, <2>4 DEF Busy
    <3>2. CASE e = d
      <4>1. Serving(f)
        BY <1>1, <2>4, <3>1, <3>2 DEF Serving
      <4> QED
        BY <4>1, <1>1, <2>1, <2>4, <3>2 DEF Looking, Busy, Up, Serving, MayGo
    <3>3. CASE e # d /\ f = d
      <4>1. at = "serving" /\ Busy(d)
        BY <1>1, <2>4, <3>3 DEF Serving, Busy, Up, MayGo
      <4> QED
        BY <4>1, <3>1, <3>3, <2>1 DEF Orderly
    <3>4. CASE e # d /\ f # d
      <4>1. Serving(f)
        BY <1>1, <2>4, <3>4 DEF Serving
      <4>2. Looking(e)
        BY <4>1, <3>1, <2>1 DEF Orderly
      <4> QED
        BY <4>2, <1>1, <3>4 DEF Looking
    <3> QED
      BY <3>2, <3>3, <3>4
  <2> QED
    BY <2>1, <2>2, <2>3, <2>4 DEF Orderly
<1> QED
  BY <1>2, <1>4, <1>5 DEF IInv

\* A daemon that looks at the path leaves, unless nobody serves.
LEMMA LstatStep ==
    ASSUME IInv, NEW d \in Daemons, Lstat(d)
    PROVE  IInv'
<1> DEFINE at == IF path = NoFile THEN "listen" ELSE "probe"
<1>1. ASSUME path = NoFile, NEW e \in Daemons, Serving(e) PROVE overlap
  <2>1. SocketOf(e) # NoFile
    BY SocketIsAFile DEF IInv
  <2> QED
    BY <1>1, <2>1 DEF IInv, Orderly, Bound, Serving
<1>2. /\ Go(d, at) /\ Busy(d) /\ path' = path /\ overlap' = overlap
      /\ listening' = listening /\ at \in Places \ {"chmod"} /\ at \in {"listen", "probe"}
  BY DEF Lstat, Rest, Busy, Up, Serving, Places
<1>3. at = "listen" => \A e \in Daemons : Serving(e) => overlap
  BY <1>1
<1> HIDE DEF at
<1> QED
  BY <1>2, <1>3, WorkStep DEF MayGo, TakesItsOwn

LEMMA ProbeStep ==
    ASSUME IInv, NEW d \in Daemons, Probe(d)
    PROVE  IInv'
<1> DEFINE at == IF Alive THEN "down" ELSE "remove"
<1>1. ASSUME ~Alive, NEW e \in Daemons, Serving(e) PROVE overlap
  <2>1. SocketOf(e) \in listening /\ (~overlap => path = SocketOf(e))
    BY <1>1 DEF IInv, Heard, Orderly, Bound, Serving
  <2> QED
    BY <1>1, <2>1 DEF Alive, IInv, TypeInv
<1>2. /\ Go(d, at) /\ Busy(d) /\ path' = path /\ overlap' = overlap
      /\ listening' = listening /\ at \in Places \ {"chmod"} /\ at \in {"down", "remove"}
  BY DEF Probe, Rest, Busy, Up, Serving, Places
<1>3. at = "remove" => \A e \in Daemons : Serving(e) => overlap
  BY <1>1
<1> HIDE DEF at
<1> QED
  BY <1>2, <1>3, WorkStep DEF MayGo, TakesItsOwn

\* A daemon taken for dead ends the order, and still listens.
LEMMA ProbeFailsStep ==
    ASSUME IInv, NEW d \in Daemons, ProbeFails(d)
    PROVE  IInv'
<1>1. Go(d, "remove") /\ overlap' = TRUE /\ UNCHANGED <<path, listening>>
  BY DEF ProbeFails
<1>2. /\ daemon' \in [Daemons -> [at : Places, n : Nat]]
      /\ daemon'[d].at = "remove"
      /\ \A e \in Daemons \ {d} : daemon'[e] = daemon[e]
      /\ \A e \in Daemons : SocketOf(e)' = SocketOf(e)
  BY <1>1, GoType DEF IInv, Places
<1>3. TypeInv'
  BY <1>1, <1>2 DEF IInv, TypeInv
<1>4. Heard'
  BY <1>1, <1>2 DEF IInv, Heard, Bound
<1> QED
  BY <1>1, <1>3, <1>4 DEF IInv

\* Nothing is bound next to a daemon that removes, binds or closes, unless
\* starts or stops overlap.
LEMMA NobodyElse ==
    ASSUME IInv, ~overlap, NEW d \in Daemons, Busy(d), ~Looking(d)
    PROVE  /\ \A e \in Daemons : ~Serving(e)
           /\ \A e \in Daemons \ {d} : ~Bound(e)
<1>1. \A e \in Daemons : ~Serving(e)
  BY DEF IInv, Orderly
<1>2. \A e \in Daemons : daemon[e].at = "chmod" => e = d
  BY DEF IInv, Orderly, Busy, Up, Serving
<1> QED
  BY <1>1, <1>2 DEF Bound, Serving

LEMMA RemoveStaleStep ==
    ASSUME IInv, NEW d \in Daemons, RemoveStale(d)
    PROVE  IInv'
<1> DEFINE at == IF path = NoFile THEN "down" ELSE "listen"
<1>1. /\ Go(d, at) /\ Busy(d) /\ ~Looking(d) /\ path' = NoFile /\ overlap' = overlap
      /\ listening' = listening /\ at \in Places \ {"chmod"} /\ at \in {"down", "listen"}
  BY DEF RemoveStale, Rest, Busy, Up, Serving, Places, Looking
<1> HIDE DEF at
<1>2. \A e \in Daemons : Serving(e) => overlap
  BY <1>1, NobodyElse DEF IInv, TypeInv
<1>3. overlap \/ NoneBound'
  <2>1. /\ daemon'[d].at = at
        /\ \A e \in Daemons \ {d} : daemon'[e] = daemon[e]
    BY <1>1, GoType DEF IInv
  <2> QED
    BY <2>1, <1>1, NobodyElse DEF NoneBound, Bound, IInv, TypeInv
<1> QED
  BY <1>1, <1>2, <1>3, WorkStep DEF MayGo, TakesItsOwn

\* A daemon that binds is at the path, with nobody beside it.
LEMMA ListenStep ==
    ASSUME IInv, NEW d \in Daemons, Listen(d)
    PROVE  IInv'
<1>1. Busy(d) /\ ~Looking(d) /\ overlap' = overlap
  BY DEF Listen, Rest, Busy, Up, Serving, Looking
<1>2. CASE path # NoFile
  <2>1. Go(d, "down") /\ path' = path /\ listening' = listening
    BY <1>2 DEF Listen
  <2> QED
    BY <1>1, <2>1, WorkStep DEF MayGo, TakesItsOwn, Places
<1>3. CASE path = NoFile
  <2> DEFINE n == daemon[d].n + 1
  <2>1. /\ daemon' = [daemon EXCEPT ![d] = [at |-> "chmod", n |-> n]]
        /\ path' = <<d, n>> /\ listening' = listening \cup {<<d, n>>}
    BY <1>3 DEF Listen
  <2>2. n \in Nat
    BY DEF IInv, TypeInv
  <2> HIDE DEF n
  <2>3. /\ daemon' \in [Daemons -> [at : Places, n : Nat]]
        /\ daemon'[d].at = "chmod" /\ SocketOf(d)' = <<d, n>>
        /\ \A e \in Daemons \ {d} : daemon'[e] = daemon[e]
    BY <2>1, <2>2 DEF IInv, TypeInv, SocketOf, Places
  <2>4. \A e \in Daemons \ {d} : SocketOf(e)' = SocketOf(e)
    BY <2>3 DEF SocketOf
  <2>5. TypeInv'
    BY <1>1, <2>1, <2>2, <2>3 DEF IInv, TypeInv, Sockets
  <2>6. Heard'
    BY <2>1, <2>3, <2>4 DEF IInv, Heard, Bound
  <2>7. ASSUME ~overlap' PROVE Orderly'
    <3>1. /\ \A e \in Daemons : ~Serving(e)
          /\ \A e \in Daemons \ {d} : ~Bound(e) /\ ~Busy(e)
      BY <2>7, <1>1, NobodyElse DEF IInv, Orderly
    <3> QED
      BY <3>1, <2>1, <2>3, <2>4 DEF Orderly, Bound, Busy, Up, Serving, Looking
  <2> QED
    BY <2>5, <2>6, <2>7 DEF IInv
<1> QED
  BY <1>2, <1>3

\* What a daemon removes in chmod and in Close is its own, or nobody's.
LEMMA RemovingStep ==
    ASSUME IInv, NEW d \in Daemons, Busy(d), ~Looking(d),
           NEW at \in Places \ {"chmod", "serving"}, Go(d, at),
           path' \in {path, NoFile}, overlap' = overlap,
           listening' \in {listening, listening \ {SocketOf(d)}}
    PROVE  IInv'
<1>1. \A e \in Daemons : Serving(e) => overlap
  BY NobodyElse DEF IInv, TypeInv
<1>2. overlap \/ NoneBound'
  <2>1. /\ daemon'[d].at = at
        /\ \A e \in Daemons \ {d} : daemon'[e] = daemon[e]
    BY GoType DEF IInv
  <2> QED
    BY <2>1, NobodyElse DEF NoneBound, Bound, IInv, TypeInv
<1> QED
  BY <1>1, <1>2, WorkStep DEF MayGo, TakesItsOwn

LEMMA ChmodStep ==
    ASSUME IInv, NEW d \in Daemons, Chmod(d)
    PROVE  IInv'
<1>1. Busy(d) /\ ~Looking(d) /\ overlap' = overlap /\ daemon[d].at = "chmod"
  BY DEF Chmod, Rest, Busy, Up, Serving, Looking
<1>2. CASE Go(d, "serving") /\ path' = path /\ listening' = listening
  <2>1. "serving" \in Places \ {"chmod"}
    BY DEF Places
  <2> QED
    BY <1>1, <1>2, <2>1, WorkStep DEF MayGo, TakesItsOwn
<1>3. CASE Go(d, "down") /\ path' = NoFile /\ listening' = listening \ {SocketOf(d)}
  BY <1>1, <1>3, RemovingStep DEF Places
<1> QED
  BY <1>2, <1>3 DEF Chmod

LEMMA CloseSteps ==
    ASSUME IInv, NEW d \in Daemons, CloseListener(d) \/ CloseConns(d) \/ RemoveAndExit(d)
    PROVE  IInv'
<1>1. Busy(d) /\ ~Looking(d) /\ overlap' = overlap
  BY DEF CloseListener, CloseConns, RemoveAndExit, Rest, Busy, Up, Serving, Looking
<1>2. CASE CloseListener(d)
  BY <1>1, <1>2, RemovingStep DEF CloseListener, Places
<1>3. CASE CloseConns(d)
  BY <1>1, <1>3, RemovingStep DEF CloseConns, Places
<1>4. CASE RemoveAndExit(d)
  BY <1>1, <1>4, RemovingStep DEF RemoveAndExit, Places
<1> QED
  BY <1>2, <1>3, <1>4

\* A stop with nobody at work begins with the only daemon that serves.
LEMMA StopDaemonStep ==
    ASSUME IInv, NEW d \in Daemons, StopDaemon(d)
    PROVE  IInv'
<1>1. /\ daemon' \in [Daemons -> [at : Places, n : Nat]]
      /\ daemon'[d].at = "unlink"
      /\ \A e \in Daemons \ {d} : daemon'[e] = daemon[e]
      /\ \A e \in Daemons : SocketOf(e)' = SocketOf(e)
  BY GoType DEF StopDaemon, IInv, Places
<1>2. path' = path /\ listening' = listening /\ Serving(d)
      /\ overlap' = (overlap \/ \E e \in Daemons : Busy(e))
  BY DEF StopDaemon
<1>3. \A e \in Daemons : Bound(e)' => Bound(e)
  BY <1>1 DEF Bound
<1>4. TypeInv'
  BY <1>1, <1>2 DEF IInv, TypeInv
<1>5. Heard'
  BY <1>1, <1>2, <1>3 DEF IInv, Heard
<1>6. ASSUME ~overlap' PROVE Orderly'
  <2>1. Orderly /\ \A e \in Daemons : ~Busy(e)
    BY <1>2, <1>6 DEF IInv
  <2>2. \A e \in Daemons : Busy(e)' => e = d
    BY <2>1, <1>1 DEF Busy, Up, Serving
  <2>3. \A e \in Daemons : ~Serving(e)'
    BY <2>1, <1>1, <1>2, OneServes DEF Serving
  <2>4. \A e \in Daemons : Bound(e)' => path' = SocketOf(e)'
    BY <2>1, <1>1, <1>2, <1>3 DEF Orderly
  <2> QED
    BY <2>2, <2>3, <2>4 DEF Orderly
<1> QED
  BY <1>4, <1>5, <1>6 DEF IInv

LEMMA CrashStep ==
    ASSUME IInv, NEW d \in Daemons, Crash(d)
    PROVE  IInv'
<1>1. Go(d, "down") /\ path' = path /\ overlap' = overlap
      /\ listening' = listening \ {SocketOf(d)}
  BY DEF Crash, Rest
<1> QED
  BY <1>1, WorkStep DEF MayGo, TakesItsOwn, Places

\* Connections do not touch the path.
LEMMA Inductive == IInv /\ [Next]_vars => IInv'
<1> SUFFICES ASSUME IInv, [Next]_vars PROVE IInv'
  OBVIOUS
<1>1. CASE UNCHANGED <<path, listening, daemon, overlap>>
  BY <1>1 DEF IInv, TypeInv, Heard, Orderly, Bound, Busy, Up, Serving, Looking, SocketOf
<1>2. ASSUME NEW d \in Daemons, StartDaemon(d) \/ Steps(d) \/ StopDaemon(d) \/ Crash(d)
      PROVE  IInv'
  BY <1>2, StartDaemonStep, LstatStep, ProbeStep, ProbeFailsStep, RemoveStaleStep, ListenStep,
     ChmodStep, CloseSteps, StopDaemonStep, CrashStep DEF Steps
<1>3. ASSUME NEW d \in Daemons, AcceptFails(d) \/ \E c \in Clients : Accept(d, c)
      PROVE  UNCHANGED <<path, listening, daemon, overlap>>
  BY <1>3 DEF AcceptFails, Accept, Move, Rest
<1>4. ASSUME NEW c \in Clients, Dial(c) \/ Serve(c) \/ Interrupt(c)
      PROVE  UNCHANGED <<path, listening, daemon, overlap>>
  BY <1>4 DEF Dial, Serve, Interrupt, Register, ReadRequest, Respond, HangUp, Move, Rest
<1>5. CASE UNCHANGED vars
  BY <1>1, <1>5 DEF vars
<1> QED
  BY <1>1, <1>2, <1>3, <1>4, <1>5 DEF Next

-----------------------------------------------------------------------------
\* IInv holds in every reachable state: a daemon listens while it serves, and
\* without overlapping starts and stops at most one is at work and only looks
\* beside another that serves.
THEOREM SocketInvariant == Spec => []IInv
<1> QED
  BY Initial, Inductive, PTL DEF Spec

\* Unless starts or stops overlap, a daemon that serves is the only one of its
\* data directory and is found at the path, whatever killed daemons left there.
THEOREM DaemonIsReachable == Spec => []OneReachableDaemon
<1>1. IInv => OneReachableDaemon
  <2> SUFFICES ASSUME IInv, ~overlap, NEW d \in Daemons, Serving(d)
               PROVE  path = SocketOf(d) /\ \A e \in Daemons \ {d} : ~Serving(e)
    BY DEF OneReachableDaemon
  <2>1. Orderly
    BY DEF IInv
  <2> QED
    BY <2>1, OneServes DEF Orderly, Bound, Serving
<1> QED
  BY <1>1, SocketInvariant, PTL
=============================================================================
