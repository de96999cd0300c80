------------------------------- MODULE Daemon -------------------------------
(***************************************************************************)
(* One daemon over its lives: start, command server, shutdown and saving   *)
(* (cmd/daemon/main.go, internal/node/node.go and command.go), with crashes *)
(* in between.                                                             *)
(*                                                                         *)
(* What is saved is reduced to counters.  Every connection sends messages  *)
(* in a relationship of its own; a message is signed with the next index   *)
(* of the relationship, which then moves on, and the new key is registered *)
(* in the wallet.  Every callback of spynode changes wallet and            *)
(* relationships.                                                          *)
(***************************************************************************)
EXTENDS Naturals, Sequences

CONSTANTS
    Conn,      \* the connections a life of the daemon may accept
    MaxIndex,  \* bound: messages per relationship
    MaxHeard,  \* bound: callbacks
    MaxLives   \* bound: starts

ASSUME LivesAssumption == MaxIndex \in Nat /\ MaxHeard \in Nat /\ MaxLives \in Nat

VARIABLES
    main,      \* the main goroutine
    todo,      \* what it has still to stop
    node,      \* the goroutine of Node.Run
    spy,       \* the goroutine of spynode
    errors,    \* the goroutines whose error channel is filled
    stop,      \* Node.stop
    listener,  \* Node.netListener
    socket,    \* is there a file at the command path?
    conn,      \* the goroutine of every connection
    open,      \* the connections that are not closed
    tracked,   \* Node.netConns
    memory,    \* wallet and relationships
    image,     \* the wallet as it is being serialized
    disk,      \* the database
    signed,    \* the last index of every relationship that was signed with
    answered,  \* ... and that of the last command answered before the stop
    failed,    \* has the command server ended by itself, or saving failed?
    torn,      \* relationships that ever moved on while they were saved
    lost,      \* relationships a life of which ended with an unsaved message
    lives      \* starts so far

vars == <<main, todo, node, spy, errors, stop, listener, socket, conn, open, tracked,
          memory, image, disk, signed, answered, failed, torn, lost, lives>>
process == <<main, todo, errors, stop, spy>>
server == <<node, listener, socket, failed>>
connections == <<conn, open, tracked>>
data == <<memory, image, disk, torn>>
history == <<signed, answered, lost, lives>>

Wallet == [watched : [Conn -> Nat \ {0}], heard : Nat]
Manager == [index : [Conn -> Nat \ {0}], heard : Nat]
NewWallet == [watched |-> [c \in Conn |-> 1], heard |-> 0]
NewManager == [index |-> [c \in Conn |-> 1], heard |-> 0]

Alive == main \in {"select", "stopping"}

Init ==
    /\ main = "select" /\ todo = <<>> /\ errors = {} /\ stop = FALSE
    /\ node = "start" /\ spy = "running" /\ failed = FALSE
    /\ listener = "nil" /\ socket = FALSE
    /\ conn = [c \in Conn |-> "none"] /\ open = {} /\ tracked = {}
    /\ memory = [wallet |-> NewWallet, rs |-> NewManager]
    /\ image = NewWallet
    /\ disk = memory
    /\ signed = [c \in Conn |-> 0] /\ answered = signed
    /\ torn = {} /\ lost = {} /\ lives = 1

-----------------------------------------------------------------------------
(* main.                                                                   *)

\* The select: which goroutine's error, or the signal, comes first says what
\* is stopped.
Stopping(list) ==
    /\ main = "select"
    /\ main' = "stopping" /\ todo' = list
    /\ UNCHANGED <<errors, stop, spy, server, connections, data, history>>

\* Fault: the node is stopped first.
SignalNodeFirst == Stopping(<<"node", "spy">>)

Signal == Stopping(<<"spy", "node">>)
NodeError == "node" \in errors /\ Stopping(<<"spy">>)
SpyError == "spy" \in errors /\ Stopping(<<"node">>)

\* spyNode.Stop returns once spynode has ended.
StopSpy ==
    /\ main = "stopping" /\ todo # <<>> /\ Head(todo) = "spy"
    /\ spy' = IF spy = "running" THEN "returned" ELSE spy
    /\ todo' = Tail(todo)
    /\ UNCHANGED <<main, errors, stop, server, connections, data, history>>

\* Node.Stop: the flag first ...
StoreStop ==
    /\ main = "stopping" /\ todo # <<>> /\ Head(todo) = "node" /\ ~stop
    /\ stop' = TRUE
    /\ UNCHANGED <<main, todo, errors, spy, server, connections, data, history>>

\* Fault: the listener is left to its deadline.
CloseConnectionsOnly ==
    /\ open' = open \ tracked
    /\ UNCHANGED <<listener, socket>>

\* ... then, under netLock, the listener, whose file goes with it, and the
\* connections ...
CloseAll ==
    /\ listener' = "closed" /\ socket' = FALSE
    /\ open' = open \ tracked

Close ==
    /\ main = "stopping" /\ todo # <<>> /\ Head(todo) = "node" /\ stop
    /\ listener # "nil"
    /\ CloseAll
    /\ todo' = Tail(todo)
    /\ UNCHANGED <<main, errors, stop, spy, node, failed, conn, tracked, data, history>>

\* ... which panics if the server has not opened the listener yet.
CloseNil ==
    /\ main = "stopping" /\ todo # <<>> /\ Head(todo) = "node" /\ stop
    /\ listener = "nil"
    /\ main' = "panicked"
    /\ UNCHANGED <<todo, errors, stop, spy, server, connections, data, history>>

\* wg.Wait, and the process is gone, whatever its connections were doing.
Exit ==
    /\ main = "stopping" /\ todo = <<>>
    /\ node = "done" /\ spy = "done"
    /\ main' = "exited"
    /\ UNCHANGED <<todo, errors, stop, spy, server, connections, data, history>>

\* A crash: a kill, or a runtime error (maps written while they are serialized).
Crash ==
    /\ Alive
    /\ main' = "crashed"
    /\ UNCHANGED <<todo, errors, stop, spy, server, connections, data, history>>

-----------------------------------------------------------------------------
(* spynode and its callbacks.                                              *)

\* A transaction is taken and processed; a wallet that is being serialized
\* may or may not show it.
Callback ==
    /\ Alive /\ spy = "running"
    /\ memory.rs.heard < MaxHeard
    /\ memory' = [memory EXCEPT !.wallet.heard = @ + 1, !.rs.heard = @ + 1]
    /\ image' \in {image, [image EXCEPT !.heard = memory.wallet.heard + 1]}
    /\ UNCHANGED <<process, server, connections, disk, torn, history>>

\* spynode ends by itself.
SpyFails ==
    /\ Alive /\ spy = "running"
    /\ spy' = "returned"
    /\ UNCHANGED <<main, todo, errors, stop, server, connections, data, history>>

\* Fault: an unbuffered channel, which nobody reads after the select.
ReportUnbuffered(goroutine) ==
    /\ main = "select"
    /\ errors' = errors \cup {goroutine}

\* The error goes into a buffered channel.
Report(goroutine) == Alive /\ errors' = errors \cup {goroutine}

SpyReports ==
    /\ spy = "returned" /\ Report("spy")
    /\ spy' = "done"
    /\ UNCHANGED <<main, todo, stop, server, connections, data, history>>

-----------------------------------------------------------------------------
(* Node.Run: the command server, then Save.                                *)

\* The server ends, in error or because of the flag, and the node is saved.
ServerEnds ==
    /\ node' = "save"
    /\ failed' = (failed \/ ~stop)

\* Fault: nothing is saved after an error.
ServerErrorUnsaved ==
    /\ node' = "returned"
    /\ failed' = (failed \/ ~stop)

ServerError == ServerEnds

Listen ==
    /\ Alive /\ node = "start" /\ ~socket
    /\ node' = "accept" /\ listener' = "open" /\ socket' = TRUE
    /\ UNCHANGED <<failed, process, connections, data, history>>

\* A file is there already: a daemon that crashed has left it.
ListenFails ==
    /\ Alive /\ node = "start" /\ socket
    /\ ServerError
    /\ UNCHANGED <<listener, socket, process, connections, data, history>>

Accept(c) ==
    /\ Alive /\ node = "accept" /\ listener = "open" /\ conn[c] = "none"
    /\ node' = "append" /\ conn' = [conn EXCEPT ![c] = "accepted"]
    /\ open' = open \cup {c}
    /\ UNCHANGED <<listener, socket, failed, tracked, process, data, history>>

\* Under netLock, and the goroutine of the connection starts.
AppendConn(c) ==
    /\ Alive /\ node = "append" /\ conn[c] = "accepted"
    /\ node' = "check" /\ conn' = [conn EXCEPT ![c] = "reading"]
    /\ tracked' = tracked \cup {c}
    /\ UNCHANGED <<listener, socket, failed, open, process, data, history>>

\* The stop flag, after a connection or after a second without one.
CheckStop ==
    /\ Alive /\ node = "check"
    /\ IF stop THEN ServerEnds ELSE node' = "accept" /\ UNCHANGED failed
    /\ UNCHANGED <<listener, socket, process, connections, data, history>>

Deadline ==
    /\ Alive /\ node = "accept" /\ stop
    /\ ServerEnds
    /\ UNCHANGED <<listener, socket, process, connections, data, history>>

\* The listener was closed, or fails by itself.
AcceptFails ==
    /\ Alive /\ node = "accept"
    /\ ServerError
    /\ UNCHANGED <<listener, socket, process, connections, data, history>>

\* What takes locks of the wallet.
InWallet == spy = "running" \/ \E c \in Conn : conn[c] \in {"working", "signed", "moved"}

\* Wallet.Serialize works on a copy of the wallet, its locks included ...
SerializeWallet ==
    /\ Alive /\ node = "save"
    /\ node' = "put"
    /\ image' = memory.wallet
    /\ torn' = torn \cup {c \in Conn : conn[c] = "moved"}
    /\ UNCHANGED <<listener, socket, failed, memory, disk, process, connections, history>>

\* ... and waits for ever if one was held: nobody unlocks the copy.
SerializeHangs ==
    /\ Alive /\ node = "save"
    /\ InWallet
    /\ node' = "hung"
    /\ UNCHANGED <<listener, socket, failed, process, connections, data, history>>

\* Fault: the relationships are saved first.
SavedSwapped(first) ==
    IF first THEN [disk EXCEPT !.rs = memory.rs] ELSE [disk EXCEPT !.wallet = image]

\* The database after Wallet.Save, and after Relationships.Save.
Saved(first) ==
    IF first THEN [disk EXCEPT !.wallet = image] ELSE [disk EXCEPT !.rs = memory.rs]

SaveWallet ==
    /\ Alive /\ node = "put"
    /\ node' = "saveRs" /\ disk' = Saved(TRUE)
    /\ UNCHANGED <<listener, socket, failed, memory, image, torn, process, connections, history>>

SaveRelationships ==
    /\ Alive /\ node = "saveRs"
    /\ node' = "returned" /\ disk' = Saved(FALSE)
    /\ UNCHANGED <<listener, socket, failed, memory, image, torn, process, connections, history>>

\* Storage fails, and what comes after is not saved either.
SaveFails ==
    /\ Alive /\ node \in {"put", "saveRs"}
    /\ node' = "returned" /\ failed' = TRUE
    /\ UNCHANGED <<listener, socket, process, connections, data, history>>

NodeReports ==
    /\ node = "returned" /\ Report("node")
    /\ node' = "done"
    /\ UNCHANGED <<main, todo, stop, spy, listener, socket, failed, connections, data, history>>

-----------------------------------------------------------------------------
(* RunConnection.                                                          *)

To(c, at) == conn' = [conn EXCEPT ![c] = at]

ReadCommand(c) ==
    /\ Alive /\ conn[c] = "reading"
    /\ To(c, IF c \in open THEN "working" ELSE "ended")
    /\ UNCHANGED <<open, tracked, process, server, data, history>>

\* The command fails, or signs with the next index and broadcasts.
CommandFails(c) ==
    /\ Alive /\ conn[c] = "working"
    /\ To(c, "refused")
    /\ UNCHANGED <<open, tracked, process, server, data, history>>

Sign(c) ==
    /\ Alive /\ conn[c] = "working"
    /\ memory.rs.index[c] <= MaxIndex
    /\ To(c, "signed")
    /\ signed' = [signed EXCEPT ![c] = memory.rs.index[c]]
    /\ UNCHANGED <<answered, lost, lives, open, tracked, process, server, data>>

Increment(c) ==
    /\ Alive /\ conn[c] = "signed"
    /\ To(c, "moved")
    /\ memory' = [memory EXCEPT !.rs.index[c] = @ + 1]
    /\ torn' = IF node \in {"put", "saveRs"} THEN torn \cup {c} ELSE torn
    /\ UNCHANGED <<image, disk, open, tracked, process, server, history>>

Register(c) ==
    /\ Alive /\ conn[c] = "moved"
    /\ To(c, "done")
    /\ memory' = [memory EXCEPT !.wallet.watched[c] = memory.rs.index[c]]
    /\ image' \in {image, [image EXCEPT !.watched[c] = memory.rs.index[c]]}
    /\ UNCHANGED <<disk, torn, open, tracked, process, server, history>>

\* The answer, and the stop flag.
Answer(c) ==
    /\ Alive /\ conn[c] \in {"done", "refused"}
    /\ To(c, IF c \notin open \/ stop THEN "ended" ELSE "reading")
    /\ answered' = IF conn[c] = "done" /\ c \in open /\ ~stop
                   THEN [answered EXCEPT ![c] = signed[c]] ELSE answered
    /\ UNCHANGED <<signed, lost, lives, open, tracked, process, server, data>>

-----------------------------------------------------------------------------
\* Faults: indexes are not saved; only the wallet is loaded.
LoadNoIndex == [disk EXCEPT !.rs.index = [c \in Conn |-> 0]]
LoadWalletOnly == [wallet |-> disk.wallet, rs |-> NewManager]

\* Node.Load.
Load == disk

\* The relationships whose last message need not have been saved.
Unsaved == IF main # "exited" \/ failed THEN Conn ELSE {c \in Conn : answered[c] < signed[c]}

\* The next life of a daemon that has ended; somebody may have removed the file.
Start ==
    /\ ~Alive /\ lives < MaxLives
    /\ lives' = lives + 1
    /\ lost' = lost \cup Unsaved
    /\ answered' = [c \in Conn |-> IF c \in Unsaved THEN 0 ELSE answered[c]]
    /\ main' = "select" /\ todo' = <<>> /\ errors' = {} /\ stop' = FALSE
    /\ node' = "start" /\ spy' = "running" /\ failed' = FALSE
    /\ listener' = "nil" /\ socket' \in {socket, FALSE}
    /\ conn' = [c \in Conn |-> "none"] /\ open' = {} /\ tracked' = {}
    /\ memory' = Load
    /\ image' = disk.wallet
    /\ UNCHANGED <<disk, torn, signed>>

MainStep ==
    \/ NodeError \/ SpyError \/ StopSpy \/ StoreStop \/ Close \/ CloseNil \/ Exit
NodeStep ==
    \/ Listen \/ ListenFails \/ (\E c \in Conn : AppendConn(c)) \/ CheckStop \/ Deadline
    \/ SerializeWallet \/ SerializeHangs \/ SaveWallet \/ SaveRelationships \/ NodeReports
CommandStep(c) ==
    \/ ReadCommand(c) \/ CommandFails(c) \/ Sign(c) \/ Increment(c) \/ Register(c) \/ Answer(c)

Next ==
    \/ MainStep \/ Signal \/ Crash \/ Start
    \/ NodeStep \/ AcceptFails \/ SaveFails \/ \E c \in Conn : Accept(c)
    \/ Callback \/ SpyFails \/ SpyReports
    \/ \E c \in Conn : CommandStep(c)

Spec == Init /\ [][Next]_vars

\* Every goroutine goes on; nobody has to connect, to signal or to fail.
FairSpec ==
    Spec /\ WF_vars(MainStep) /\ WF_vars(NodeStep) /\ WF_vars(SpyReports)

-----------------------------------------------------------------------------
(* Properties.                                                             *)

\* The type invariant. What is saved is always a whole wallet and whole
\* relationships, and main has at most spynode and then the node to stop
\* (main.go's select).
TypeOK ==
    /\ main \in {"select", "stopping", "exited", "panicked", "crashed"}
    /\ todo \in {<<>>, <<"spy">>, <<"node">>, <<"spy", "node">>}
    /\ node \in {"start", "accept", "append", "check", "save", "put", "saveRs",
                 "returned", "done", "hung"}
    /\ spy \in {"running", "returned", "done"}
    /\ errors \subseteq {"node", "spy"}
    /\ stop \in BOOLEAN /\ socket \in BOOLEAN /\ failed \in BOOLEAN
    /\ listener \in {"nil", "open", "closed"}
    /\ conn \in [Conn -> {"none", "accepted", "reading", "working", "refused", "signed",
                          "moved", "done", "ended"}]
    /\ tracked \subseteq Conn /\ open \subseteq Conn
    /\ memory \in [wallet : Wallet, rs : Manager] /\ disk \in [wallet : Wallet, rs : Manager]
    /\ image \in Wallet
    /\ signed \in [Conn -> Nat] /\ answered \in [Conn -> Nat]
    /\ torn \subseteq Conn /\ lost \subseteq Conn /\ lives \in Nat

\* The daemon has stopped as it should.
Stopped == main = "exited" /\ ~failed

\* A command that was answered before the stop is in both parts of the
\* database when the daemon has stopped, although Stop makes the command
\* server return an error (Node.Run).
AnsweredSaved ==
    Stopped => \A c \in Conn : /\ answered[c] < disk.rs.index[c]
                               /\ answered[c] < disk.wallet.watched[c]

\* So is everything spynode has told: it ends before the node is saved.
CallbacksSaved ==
    Stopped => disk.wallet.heard = memory.wallet.heard /\ disk.rs.heard = memory.rs.heard

\* At every moment, after a crash between the two parts of a save too, the
\* saved wallet watches the next key of each saved relationship, unless the
\* relationship moved on while it was saved (Node.Save, wallet first).
SavedKeysWatched ==
    \A c \in Conn \ torn : disk.rs.index[c] <= disk.wallet.watched[c]

\* No life signs with a key that an earlier one has used, unless that crashed,
\* lost its command server, or was stopped before it had answered.
KeysFresh ==
    \A c \in Conn \ lost : Alive /\ conn[c] # "signed" => signed[c] < memory.rs.index[c]

\* A daemon that was stopped leaves the command path free for the next.
SocketFreed == Stopped => ~socket

\* "Use a buffered channel so the goroutine can exit if we don't collect this
\* error" (main.go): once a goroutine has ended or main is stopping, the
\* daemon ends ...
Ending == main = "stopping" \/ spy = "returned" \/ node = "returned"
StopsInTheEnd == Ending ~> ~Alive

\* ... unless Wallet.Serialize has copied a lock that was held.
StopsUnlessHung == Ending ~> (~Alive \/ node = "hung")
=============================================================================
