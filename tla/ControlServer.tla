---------------------------- MODULE ControlServer ----------------------------
(***************************************************************************)
(* The control socket of daemons that share a data directory, and the      *)
(* command-line clients that talk to them (control/server.go,              *)
(* control/client.go, cmd/pogu/serve.go).                                  *)
(*                                                                         *)
(* Start and Close of a daemon are sequences of system calls; calls of     *)
(* different daemons interleave.  A socket is <<d, n>>, the n-th one       *)
(* daemon d bound; the file at the path is the socket bound last, whether  *)
(* anybody still listens on it or not.  A client sends one line, waits for *)
(* the answer without a deadline of its own (client.go:42) and hangs up.   *)
(***************************************************************************)
EXTENDS Naturals, FiniteSets

CONSTANTS
    Daemons,     \* processes running `pogu serve`
    Clients,     \* processes running a management command
    NoFile,      \* there is nothing at the path
    MaxStarts,   \* bound: starts of a daemon
    MaxDials,    \* bound: connections made
    MaxHiccups   \* bound: Accept errors other than a closed listener

ASSUME ControlServerAssumption ==
    /\ NoFile \notin Daemons \X Nat
    /\ MaxStarts \in Nat /\ MaxDials \in Nat /\ MaxHiccups \in Nat

VARIABLES
    path,       \* the socket file
    listening,  \* sockets somebody listens on
    daemon,     \* daemon -> next step and its socket's number
    looping,    \* daemons whose acceptLoop runs
    conn,       \* client -> its connection
    starts, dials, hiccups,  \* bounds
    overlap     \* ghost: a start or a stop began during another one, or a start
                \* took a daemon it could not reach for a dead one

vars == <<path, listening, daemon, looping, conn, starts, dials, hiccups, overlap>>

NoConn == [at |-> "none", peer |-> NoFile]

SocketOf(d) == <<d, daemon[d].n>>
Serving(d) == daemon[d].at = "serving"
Up(d) == daemon[d].at # "down"
Busy(d) == Up(d) /\ ~Serving(d)
Go(d, at) == daemon' = [daemon EXCEPT ![d].at = at]

Links == <<conn, dials, hiccups>>
Rest == <<starts, dials, hiccups, overlap>>

\* What the peers of sockets S see when these are closed or their process ends
Cut(S, states) == conn' = [c \in Clients |->
    IF conn[c].peer \in S /\ conn[c].at \in states
    THEN [conn[c] EXCEPT !.at = "eof"] ELSE conn[c]]

-----------------------------------------------------------------------------
(* Start *)

StartDaemon(d) ==
    /\ ~Up(d) /\ starts < MaxStarts
    /\ starts' = starts + 1
    /\ overlap' = IF \A e \in Daemons : ~Up(e) THEN FALSE
                  ELSE overlap \/ \E e \in Daemons : Busy(e)
    /\ Go(d, "lstat")
    /\ UNCHANGED <<path, listening, looping, conn, dials, hiccups>>

Lstat(d) ==
    /\ daemon[d].at = "lstat"
    /\ Go(d, IF path = NoFile THEN "listen" ELSE "probe")
    /\ UNCHANGED <<path, listening, looping, conn>> /\ UNCHANGED Rest

\* Mutation: the socket is taken for a leftover without dialling it
AliveNever == FALSE

\* DialTimeout: is there a listener behind the file?
Alive == path \in listening

\* "another daemon is already running"
Probe(d) ==
    /\ daemon[d].at = "probe"
    /\ Go(d, IF Alive THEN "down" ELSE "remove")
    /\ UNCHANGED <<path, listening, looping, conn>> /\ UNCHANGED Rest

\* The dial fails though somebody listens (a full backlog, no descriptors, the
\* 200 ms are over): any error counts as a stale socket
ProbeFails(d) ==
    /\ daemon[d].at = "probe" /\ Alive
    /\ Go(d, "remove")
    /\ overlap' = TRUE
    /\ UNCHANGED <<path, listening, looping, conn, starts, dials, hiccups>>

\* os.Remove takes whatever is at the path by now; nothing there is an error
RemoveStale(d) ==
    /\ daemon[d].at = "remove"
    /\ Go(d, IF path = NoFile THEN "down" ELSE "listen")
    /\ path' = NoFile
    /\ UNCHANGED <<listening, looping, conn>> /\ UNCHANGED Rest

\* bind fails when the file is there again
Listen(d) ==
    /\ daemon[d].at = "listen"
    /\ IF path # NoFile
       THEN Go(d, "down") /\ UNCHANGED <<path, listening>>
       ELSE LET n == daemon[d].n + 1
            IN  /\ daemon' = [daemon EXCEPT ![d] = [at |-> "chmod", n |-> n]]
                /\ path' = <<d, n>>
                /\ listening' = listening \cup {<<d, n>>}
    /\ UNCHANGED <<looping, conn>> /\ UNCHANGED Rest

\* Chmod, then the accept loop; a failed Chmod closes and removes again
Chmod(d) ==
    /\ daemon[d].at = "chmod"
    /\ \/ /\ Go(d, "serving")
          /\ looping' = looping \cup {d}
          /\ UNCHANGED <<path, listening, conn>>
       \/ /\ Go(d, "down")
          /\ path' = NoFile
          /\ listening' = listening \ {SocketOf(d)}
          /\ Cut({SocketOf(d)}, {"queued"})
          /\ UNCHANGED looping
    /\ UNCHANGED Rest

-----------------------------------------------------------------------------
(* Close, after a signal or an error of the HTTP server; crash *)

\* Under mu: closed is set, the connections known by now will be closed
StopDaemon(d) ==
    /\ Serving(d)
    /\ Go(d, "unlink")
    /\ overlap' = (overlap \/ \E e \in Daemons : Busy(e))
    /\ conn' = [c \in Clients |->
                  IF conn[c].peer = SocketOf(d) /\ conn[c].at \in {"open", "run"}
                  THEN [conn[c] EXCEPT !.at = IF conn[c].at = "run" THEN "doomed run"
                                              ELSE "doomed"]
                  ELSE conn[c]]
    /\ UNCHANGED <<path, listening, looping, starts, dials, hiccups>>

\* ln.Close unlinks the path (net.UnixListener does) and resets the backlog
CloseListener(d) ==
    /\ daemon[d].at = "unlink"
    /\ Go(d, "hang up")
    /\ path' = NoFile
    /\ listening' = listening \ {SocketOf(d)}
    /\ Cut({SocketOf(d)}, {"queued"})
    /\ UNCHANGED looping /\ UNCHANGED Rest

CloseConns(d) ==
    /\ daemon[d].at = "hang up"
    /\ Go(d, "remove again")
    /\ Cut({SocketOf(d)}, {"doomed", "doomed run"})
    /\ UNCHANGED <<path, listening, looping>> /\ UNCHANGED Rest

\* os.Remove(path) once more, whoever's socket is there now; then main returns
\* and the process takes every connection with it
RemoveAndExit(d) ==
    /\ daemon[d].at = "remove again"
    /\ Go(d, "down")
    /\ path' = NoFile
    /\ looping' = looping \ {d}
    /\ Cut({SocketOf(d)}, {"accepted", "open", "run"})
    /\ UNCHANGED listening /\ UNCHANGED Rest

\* The process is killed: its socket file stays behind
Crash(d) ==
    /\ Up(d)
    /\ Go(d, "down")
    /\ listening' = listening \ {SocketOf(d)}
    /\ looping' = looping \ {d}
    /\ Cut({SocketOf(d)}, {"queued", "accepted", "open", "run", "doomed", "doomed run"})
    /\ UNCHANGED path /\ UNCHANGED Rest

-----------------------------------------------------------------------------
(* A connection: dialled, accepted, registered in conns, served, closed *)

\* The client connects and writes its line; the kernel queues both
Dial(c) ==
    /\ conn[c].at = "none" /\ dials < MaxDials /\ path \in listening
    /\ dials' = dials + 1
    /\ conn' = [conn EXCEPT ![c] = [at |-> "queued", peer |-> path]]
    /\ UNCHANGED <<path, listening, daemon, looping, starts, hiccups, overlap>>

Move(c, from, to) ==
    /\ conn[c].at = from
    /\ conn' = [conn EXCEPT ![c].at = to]
    /\ UNCHANGED <<path, listening, daemon, looping>> /\ UNCHANGED Rest

Accept(d, c) == /\ d \in looping /\ conn[c].peer = SocketOf(d)
                /\ Move(c, "queued", "accepted")

\* conns[conn] under mu, then a goroutine of its own: the loop does not look
\* whether Close has copied conns in between
Register(c) == Move(c, "accepted", "open")

\* readLine returns the line; dispatch runs it for at most 30 s
ReadRequest(c) == Move(c, "open", "run") \/ Move(c, "doomed", "doomed run")

Respond(c) == Move(c, "run", "answered") \/ Move(c, "doomed run", "answered")

\* The client has its answer, or an end of file instead, and hangs up
HangUp(c) ==
    /\ conn[c].at \in {"answered", "eof"}
    /\ conn' = [conn EXCEPT ![c] = NoConn]
    /\ UNCHANGED <<path, listening, daemon, looping>> /\ UNCHANGED Rest

\* The client process is interrupted
Interrupt(c) ==
    /\ conn[c].at # "none"
    /\ conn' = [conn EXCEPT ![c] = NoConn]
    /\ UNCHANGED <<path, listening, daemon, looping>> /\ UNCHANGED Rest

\* Mutation: the loop ends at the first error
OnwardGone(d) == looping \ {d}

\* Accept fails for want of descriptors, say: the loop tries again
Onward(d) == looping

AcceptFails(d) ==
    /\ d \in looping /\ SocketOf(d) \in listening /\ hiccups < MaxHiccups
    /\ hiccups' = hiccups + 1
    /\ looping' = Onward(d)
    /\ UNCHANGED <<path, listening, daemon, conn, starts, dials, overlap>>

-----------------------------------------------------------------------------
\* A data directory that is new, or one whose daemon was killed
Init ==
    /\ path \in {NoFile} \cup (Daemons \X {0})
    /\ listening = {}
    /\ daemon = [d \in Daemons |-> [at |-> "down", n |-> 0]]
    /\ looping = {}
    /\ conn = [c \in Clients |-> NoConn]
    /\ starts = 0 /\ dials = 0 /\ hiccups = 0
    /\ overlap = FALSE

Steps(d) == \/ Lstat(d) \/ Probe(d) \/ ProbeFails(d) \/ RemoveStale(d) \/ Listen(d)
            \/ Chmod(d) \/ CloseListener(d) \/ CloseConns(d) \/ RemoveAndExit(d)
Serve(c) == Register(c) \/ ReadRequest(c) \/ Respond(c) \/ HangUp(c)

Next == \/ \E d \in Daemons : \/ StartDaemon(d) \/ Steps(d) \/ StopDaemon(d)
                              \/ Crash(d) \/ AcceptFails(d)
                              \/ \E c \in Clients : Accept(d, c)
        \/ \E c \in Clients : Dial(c) \/ Serve(c) \/ Interrupt(c)

\* Threads of a process that lives are scheduled, and an operation ends by its
\* 30 s timeout; nobody has to start, stop or kill a daemon
Fairness == /\ \A d \in Daemons : WF_vars(Steps(d))
            /\ \A c \in Clients : /\ WF_vars(Serve(c))
                                  /\ WF_vars(\E d \in Daemons : Accept(d, c))

Spec == Init /\ [][Next]_vars /\ Fairness

-----------------------------------------------------------------------------
(* Properties. *)

\* Unless a start or a stop overlaps another one or cannot reach the daemon that
\* listens, a daemon that serves is the only one of its data directory and is
\* found at the path, whatever crashes left there (server.go:58-69): a second one
\* is refused, and stops no other.
OneReachableDaemon ==
    ~overlap => \A d \in Daemons : Serving(d) =>
        /\ path = SocketOf(d)
        /\ \A e \in Daemons \ {d} : ~Serving(e)

\* A client that is connected gets its answer or an end of file, though it
\* sets no deadline: through failed accepts, a Close that does not see its
\* connection (server.go:107, 200) and crashes.
NoClientHangs == \A c \in Clients : conn[c].at # "none" ~> conn[c].at = "none"
=============================================================================
