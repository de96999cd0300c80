---------------------------- MODULE Daemon_proofs ----------------------------
(***************************************************************************)
(* What a daemon saves and leaves behind (Daemon), for any number of       *)
(* connections, messages, callbacks and lives.                             *)
(***************************************************************************)
EXTENDS Daemon, TLAPS

(***************************************************************************)
(* The inductive invariant.                                                *)
(***************************************************************************)

\* How far the goroutines can be, given what main has told them: spynode is
\* told first, so there is no callback after Node.stop; and a node that has
\* not failed goes to save only because of Node.stop.
MainOK ==
    /\ main = "select" => todo = <<>> /\ ~stop
    /\ main = "exited" => todo = <<>> /\ node = "done"
    /\ main = "stopping" /\ todo = <<"node">> => spy # "running"
    /\ "spy" \in errors => spy = "done"
    /\ stop => spy # "running"
    /\ stop => todo = <<"node">> \/ (listener = "closed" /\ ~socket)
    /\ node = "start" => listener = "nil"
    /\ ~failed => stop \/ node \in {"start", "accept", "append", "check"}

\* Where a relationship's next index and registered key are, given how far the
\* connection's command is.
CommandOK(c) ==
    /\ conn[c] = "signed" => signed[c] = memory.rs.index[c]
    /\ conn[c] \in {"moved", "done"} => signed[c] < memory.rs.index[c]
    /\ conn[c] = "done" => signed[c] < memory.wallet.watched[c]
    /\ c \notin lost /\ conn[c] # "signed" => signed[c] < memory.rs.index[c]
    /\ answered[c] < memory.rs.index[c]
    /\ answered[c] < memory.wallet.watched[c]

\* What memory, the image of the wallet and the database have to do with each
\* other at each step of saving.
SavedOK(c) ==
    /\ disk.rs.index[c] <= memory.rs.index[c]
    /\ c \notin torn =>
           /\ conn[c] # "moved" => memory.rs.index[c] <= memory.wallet.watched[c]
           /\ node = "put" => memory.rs.index[c] <= image.watched[c]
           /\ node = "saveRs" => memory.rs.index[c] <= disk.wallet.watched[c]
           /\ disk.rs.index[c] <= disk.wallet.watched[c]

\* How much of what was answered before the stop is saved already.
AnsweredOK(c) ==
    ~failed =>
        /\ node = "put" => answered[c] < image.watched[c]
        /\ node \in {"saveRs", "returned", "done"} => answered[c] < disk.wallet.watched[c]
        /\ node \in {"returned", "done"} => answered[c] < disk.rs.index[c]

\* ... and of what spynode has told.
HeardOK ==
    ~failed =>
        /\ node = "put" => image.heard = memory.wallet.heard
        /\ node \in {"saveRs", "returned", "done"} => disk.wallet.heard = memory.wallet.heard
        /\ node \in {"returned", "done"} => disk.rs.heard = memory.rs.heard

DataOK ==
    /\ HeardOK
    /\ \A c \in Conn : CommandOK(c) /\ SavedOK(c) /\ AnsweredOK(c)

DaemonInv == TypeOK /\ MainOK /\ DataOK

-----------------------------------------------------------------------------
(* The facts about memory and database that the type invariant gives.       *)

\* The saved and the counted are numbers.
LEMMA TypeFacts ==
    ASSUME TypeOK
    PROVE  /\ memory = [wallet |-> memory.wallet, rs |-> memory.rs]
           /\ disk = [wallet |-> disk.wallet, rs |-> disk.rs]
           /\ memory.wallet \in Wallet /\ disk.wallet \in Wallet /\ image \in Wallet
           /\ memory.rs \in Manager /\ disk.rs \in Manager
  BY DEF TypeOK

LEMMA WalletFacts ==
    ASSUME NEW w, w \in Wallet
    PROVE  /\ w.watched \in [Conn -> Nat \ {0}]
           /\ w.heard \in Nat
           /\ \A c \in Conn : w.watched[c] \in Nat \ {0}
  BY DEF Wallet

LEMMA ManagerFacts ==
    ASSUME NEW r, r \in Manager
    PROVE  /\ r.index \in [Conn -> Nat \ {0}]
           /\ r.heard \in Nat
           /\ \A c \in Conn : r.index[c] \in Nat \ {0}
  BY DEF Manager

\* What every step uses of the type invariant.
LEMMA NumberFacts ==
    ASSUME TypeOK
    PROVE  /\ memory.wallet.heard \in Nat /\ memory.rs.heard \in Nat
           /\ \A c \in Conn :
                 /\ memory.rs.index[c] \in Nat \ {0} /\ disk.rs.index[c] \in Nat \ {0}
                 /\ memory.wallet.watched[c] \in Nat \ {0}
                 /\ disk.wallet.watched[c] \in Nat \ {0}
                 /\ image.watched[c] \in Nat \ {0}
                 /\ signed[c] \in Nat /\ answered[c] \in Nat
  <1>1. /\ memory.wallet \in Wallet /\ disk.wallet \in Wallet /\ image \in Wallet
        /\ memory.rs \in Manager /\ disk.rs \in Manager
    BY TypeFacts
  <1>2. signed \in [Conn -> Nat] /\ answered \in [Conn -> Nat]
    BY DEF TypeOK
  <1> QED
    BY <1>1, <1>2, WalletFacts, ManagerFacts

-----------------------------------------------------------------------------
(* The initial state.                                                      *)

LEMMA NewFacts ==
    /\ NewWallet \in Wallet /\ NewManager \in Manager
    /\ NewWallet.heard = 0 /\ NewManager.heard = 0
    /\ \A c \in Conn : NewWallet.watched[c] = 1 /\ NewManager.index[c] = 1
  BY DEF NewWallet, NewManager, Wallet, Manager

LEMMA InitTypeOK == Init => TypeOK
  <1> SUFFICES ASSUME Init PROVE TypeOK
    OBVIOUS
  <1>1. memory \in [wallet : Wallet, rs : Manager] /\ image \in Wallet
    BY NewFacts DEF Init
  <1>2. disk \in [wallet : Wallet, rs : Manager]
    BY <1>1 DEF Init
  <1>3. signed \in [Conn -> Nat] /\ answered \in [Conn -> Nat]
    BY DEF Init
  <1>4. conn \in [Conn -> {"none", "accepted", "reading", "working", "refused", "signed",
                          "moved", "done", "ended"}]
    BY DEF Init
  <1> QED
    BY <1>1, <1>2, <1>3, <1>4 DEF Init, TypeOK

LEMMA InitDataOK == Init => DataOK
  <1> SUFFICES ASSUME Init PROVE DataOK
    OBVIOUS
  <1>1. /\ memory.wallet = NewWallet /\ memory.rs = NewManager /\ image = NewWallet
        /\ disk.wallet = NewWallet /\ disk.rs = NewManager
    BY DEF Init
  <1>2. HeardOK
    BY DEF Init, HeardOK
  <1>3. ASSUME NEW c \in Conn
        PROVE  CommandOK(c) /\ SavedOK(c) /\ AnsweredOK(c)
    <2>1. conn[c] = "none" /\ signed[c] = 0 /\ answered[c] = 0 /\ node = "start"
      BY DEF Init
    <2>2. CommandOK(c)
      BY <1>1, <2>1, NewFacts DEF CommandOK
    <2>3. SavedOK(c)
      BY <1>1, <2>1, NewFacts DEF SavedOK
    <2>4. AnsweredOK(c)
      BY <2>1 DEF AnsweredOK
    <2> QED
      BY <2>2, <2>3, <2>4
  <1> QED
    BY <1>2, <1>3 DEF DataOK

LEMMA InitDaemonInv == Init => DaemonInv
  <1>1. Init => MainOK
    BY DEF Init, MainOK
  <1> QED
    BY <1>1, InitTypeOK, InitDataOK DEF DaemonInv

-----------------------------------------------------------------------------
(* Types.                                                                  *)

\* The lists of what main has still to stop.
LEMMA TodoFacts ==
    /\ Head(<<"spy">>) = "spy" /\ Tail(<<"spy">>) = <<>>
    /\ Head(<<"node">>) = "node" /\ Tail(<<"node">>) = <<>>
    /\ Head(<<"spy", "node">>) = "spy" /\ Tail(<<"spy", "node">>) = <<"node">>
    /\ <<"spy">> # <<>> /\ <<"node">> # <<>> /\ <<"spy", "node">> # <<>>
    /\ <<"spy">> # <<"node">> /\ <<"spy", "node">> # <<"node">>
  OBVIOUS

\* Main, spynode and the command server change no data.
LEMMA ProcessTypeOK ==
    ASSUME TypeOK,
           \/ MainStep \/ Signal \/ Crash \/ SpyFails \/ SpyReports
           \/ Listen \/ ListenFails \/ CheckStop \/ Deadline
           \/ SerializeHangs \/ NodeReports \/ AcceptFails \/ SaveFails
    PROVE  TypeOK'
  <1> USE DEF data, history, connections, server
  <1>1. CASE NodeError
    BY <1>1 DEF NodeError, Stopping, TypeOK
  <1>2. CASE SpyError
    BY <1>2 DEF SpyError, Stopping, TypeOK
  <1>3. CASE Signal
    BY <1>3 DEF Signal, Stopping, TypeOK
  <1>4. CASE StopSpy
    <2>1. Tail(todo) \in {<<>>, <<"node">>}
      BY <1>4, TodoFacts DEF StopSpy, TypeOK
    <2> QED
      BY <1>4, <2>1 DEF StopSpy, TypeOK
  <1>5. CASE StoreStop
    BY <1>5 DEF StoreStop, TypeOK
  <1>6. CASE Close
    <2>1. Tail(todo) = <<>>
      BY <1>6, TodoFacts DEF Close, TypeOK
    <2> QED
      BY <1>6, <2>1 DEF Close, CloseAll, TypeOK
  <1>7. CASE CloseNil
    BY <1>7 DEF CloseNil, TypeOK
  <1>8. CASE Exit
    BY <1>8 DEF Exit, TypeOK
  <1>9. CASE Crash
    BY <1>9 DEF Crash, TypeOK
  <1> USE DEF process
  <1>10. CASE SpyFails
    BY <1>10 DEF SpyFails, TypeOK
  <1>11. CASE SpyReports
    BY <1>11 DEF SpyReports, Report, TypeOK
  <1>12. CASE Listen
    BY <1>12 DEF Listen, TypeOK
  <1>13. CASE ListenFails \/ Deadline \/ AcceptFails
    <2>1. CASE ListenFails
      BY <2>1 DEF ListenFails, ServerError, ServerEnds, TypeOK
    <2>2. CASE Deadline
      BY <2>2 DEF Deadline, ServerEnds, TypeOK
    <2>3. CASE AcceptFails
      BY <2>3 DEF AcceptFails, ServerError, ServerEnds, TypeOK
    <2> QED
      BY <1>13, <2>1, <2>2, <2>3
  <1>14. CASE CheckStop
    BY <1>14 DEF CheckStop, ServerEnds, TypeOK
  <1>15. CASE SerializeHangs
    BY <1>15 DEF SerializeHangs, TypeOK
  <1>16. CASE NodeReports
    BY <1>16 DEF NodeReports, Report, TypeOK
  <1>17. CASE SaveFails
    BY <1>17 DEF SaveFails, TypeOK
  <1> QED
    BY <1>1, <1>2, <1>3, <1>4, <1>5, <1>6, <1>7, <1>8, <1>9, <1>10, <1>11, <1>12, <1>13,
       <1>14, <1>15, <1>16, <1>17 DEF MainStep

\* What a command does to wallet and relationships.
LEMMA IncrementData ==
    ASSUME TypeOK, NEW c \in Conn, Increment(c)
    PROVE  /\ memory' \in [wallet : Wallet, rs : Manager]
           /\ memory'.wallet = memory.wallet
           /\ memory'.rs.heard = memory.rs.heard
           /\ memory'.rs.index = [memory.rs.index EXCEPT ![c] = @ + 1]
  <1>1. memory \in [wallet : Wallet, rs : Manager]
    BY DEF TypeOK
  <1>2. memory' = [memory EXCEPT !.rs.index[c] = @ + 1]
    BY DEF Increment
  <1>3. memory.rs \in Manager /\ memory.rs.index \in [Conn -> Nat \ {0}]
    BY TypeFacts, ManagerFacts
  <1>4. memory'.wallet = memory.wallet /\ memory'.rs = [memory.rs EXCEPT !.index[c] = @ + 1]
    BY <1>1, <1>2
  <1>5. /\ memory'.rs.heard = memory.rs.heard
        /\ memory'.rs.index = [memory.rs.index EXCEPT ![c] = @ + 1]
    BY <1>3, <1>4 DEF Manager
  <1>6. [memory.rs.index EXCEPT ![c] = @ + 1] \in [Conn -> Nat \ {0}]
    BY <1>3
  <1>7. memory'.rs \in Manager
    BY <1>3, <1>4, <1>6 DEF Manager
  <1> QED
    BY <1>1, <1>2, <1>4, <1>5, <1>7

LEMMA RegisterData ==
    ASSUME TypeOK, NEW c \in Conn, Register(c)
    PROVE  /\ memory' \in [wallet : Wallet, rs : Manager]
           /\ memory'.rs = memory.rs
           /\ memory'.wallet.heard = memory.wallet.heard
           /\ memory'.wallet.watched = [memory.wallet.watched EXCEPT ![c] = memory.rs.index[c]]
           /\ image' \in Wallet
           /\ image'.heard = image.heard
           /\ \/ image'.watched = image.watched
              \/ image'.watched = [image.watched EXCEPT ![c] = memory.rs.index[c]]
  <1>1. memory \in [wallet : Wallet, rs : Manager]
    BY DEF TypeOK
  <1>2. memory' = [memory EXCEPT !.wallet.watched[c] = memory.rs.index[c]]
    BY DEF Register
  <1>3. /\ memory.wallet \in Wallet /\ memory.wallet.watched \in [Conn -> Nat \ {0}]
        /\ image \in Wallet /\ image.watched \in [Conn -> Nat \ {0}]
        /\ memory.rs.index[c] \in Nat \ {0}
    BY TypeFacts, WalletFacts, NumberFacts
  <1>4. /\ memory'.rs = memory.rs
        /\ memory'.wallet = [memory.wallet EXCEPT !.watched[c] = memory.rs.index[c]]
    BY <1>1, <1>2
  <1>5. ASSUME NEW w, w \in Wallet, NEW v, v = [w EXCEPT !.watched[c] = memory.rs.index[c]]
        PROVE  /\ v \in Wallet /\ v.heard = w.heard
               /\ v.watched = [w.watched EXCEPT ![c] = memory.rs.index[c]]
    <2>1. w.watched \in [Conn -> Nat \ {0}]
      BY <1>5, WalletFacts
    <2>2. [w.watched EXCEPT ![c] = memory.rs.index[c]] \in [Conn -> Nat \ {0}]
      BY <2>1, <1>3
    <2> QED
      BY <1>5, <2>2 DEF Wallet
  <1>6. /\ memory'.wallet \in Wallet /\ memory'.wallet.heard = memory.wallet.heard
        /\ memory'.wallet.watched = [memory.wallet.watched EXCEPT ![c] = memory.rs.index[c]]
    BY <1>3, <1>4, <1>5
  <1>7. image' = image \/ image' = [image EXCEPT !.watched[c] = memory.rs.index[c]]
    BY DEF Register
  <1>8. CASE image' = image
    BY <1>1, <1>2, <1>3, <1>4, <1>6, <1>8
  <1>9. CASE image' = [image EXCEPT !.watched[c] = memory.rs.index[c]]
    <2>1. /\ image' \in Wallet /\ image'.heard = image.heard
          /\ image'.watched = [image.watched EXCEPT ![c] = memory.rs.index[c]]
      BY <1>3, <1>5, <1>9
    <2> QED
      BY <1>1, <1>2, <1>4, <1>6, <2>1
  <1> QED
    BY <1>7, <1>8, <1>9

\* ... and what a callback does.
LEMMA CallbackData ==
    ASSUME TypeOK, Callback
    PROVE  /\ memory' \in [wallet : Wallet, rs : Manager]
           /\ memory'.rs.index = memory.rs.index
           /\ memory'.wallet.watched = memory.wallet.watched
           /\ image' \in Wallet
           /\ image'.watched = image.watched
  <1>1. memory \in [wallet : Wallet, rs : Manager]
    BY DEF TypeOK
  <1>2. memory' = [memory EXCEPT !.wallet.heard = @ + 1, !.rs.heard = @ + 1]
    BY DEF Callback
  <1>3. /\ memory.wallet \in Wallet /\ memory.wallet.heard \in Nat /\ image \in Wallet
        /\ memory.rs \in Manager /\ memory.rs.heard \in Nat
    BY TypeFacts, NumberFacts
  <1>4. /\ memory'.rs = [memory.rs EXCEPT !.heard = @ + 1]
        /\ memory'.wallet = [memory.wallet EXCEPT !.heard = @ + 1]
    BY <1>1, <1>2
  <1>5. memory'.rs \in Manager /\ memory'.rs.index = memory.rs.index
    BY <1>3, <1>4 DEF Manager
  <1>6. memory'.wallet \in Wallet /\ memory'.wallet.watched = memory.wallet.watched
    BY <1>3, <1>4 DEF Wallet
  <1>7. image' = image \/ image' = [image EXCEPT !.heard = memory.wallet.heard + 1]
    BY DEF Callback
  <1>8. image' \in Wallet /\ image'.watched = image.watched
    BY <1>3, <1>7 DEF Wallet
  <1> QED
    BY <1>1, <1>2, <1>5, <1>6, <1>8

\* The two parts of Node.Save.
LEMMA SaveData ==
    ASSUME TypeOK
    PROVE  /\ SaveWallet => /\ disk' \in [wallet : Wallet, rs : Manager]
                            /\ disk'.wallet = image /\ disk'.rs = disk.rs
           /\ SaveRelationships => /\ disk' \in [wallet : Wallet, rs : Manager]
                                   /\ disk'.wallet = disk.wallet /\ disk'.rs = memory.rs
  <1>1. disk \in [wallet : Wallet, rs : Manager] /\ image \in Wallet /\ memory.rs \in Manager
    BY TypeFacts DEF TypeOK
  <1>2. SaveWallet => disk' = [disk EXCEPT !.wallet = image]
    BY DEF SaveWallet, Saved
  <1>3. SaveRelationships => disk' = [disk EXCEPT !.rs = memory.rs]
    BY DEF SaveRelationships, Saved
  <1> QED
    BY <1>1, <1>2, <1>3

LEMMA CommandTypeOK ==
    ASSUME TypeOK, NEW c \in Conn, CommandStep(c)
    PROVE  TypeOK'
  <1> USE DEF process, server
  <1>1. CASE ReadCommand(c)
    BY <1>1 DEF ReadCommand, To, TypeOK, data, history
  <1>2. CASE CommandFails(c)
    BY <1>2 DEF CommandFails, To, TypeOK, data, history
  <1>3. CASE Sign(c)
    BY <1>3, NumberFacts DEF Sign, To, TypeOK, data
  <1>4. CASE Increment(c)
    <2>1. memory' \in [wallet : Wallet, rs : Manager]
      BY <1>4, IncrementData
    <2>2. torn' \subseteq Conn
      BY <1>4 DEF Increment, TypeOK
    <2> QED
      BY <1>4, <2>1, <2>2 DEF Increment, To, TypeOK, history
  <1>5. CASE Register(c)
    <2>1. memory' \in [wallet : Wallet, rs : Manager] /\ image' \in Wallet
      BY <1>5, RegisterData
    <2> QED
      BY <1>5, <2>1 DEF Register, To, TypeOK, history
  <1>6. CASE Answer(c)
    BY <1>6, NumberFacts DEF Answer, To, TypeOK, data
  <1> QED
    BY <1>1, <1>2, <1>3, <1>4, <1>5, <1>6 DEF CommandStep

LEMMA StepTypeOK ==
    ASSUME TypeOK, [Next]_vars
    PROVE  TypeOK'
  <1> USE DEF process, server, history
  <1>1. CASE Callback
    <2>1. memory' \in [wallet : Wallet, rs : Manager] /\ image' \in Wallet
      BY <1>1, CallbackData
    <2> QED
      BY <1>1, <2>1 DEF Callback, connections, TypeOK
  <1>2. ASSUME NEW c \in Conn, Accept(c)
        PROVE  TypeOK'
    BY <1>2 DEF Accept, data, TypeOK
  <1>3. ASSUME NEW c \in Conn, AppendConn(c)
        PROVE  TypeOK'
    BY <1>3 DEF AppendConn, data, TypeOK
  <1>4. CASE SerializeWallet
    BY <1>4, TypeFacts DEF SerializeWallet, connections, TypeOK
  <1>5. CASE SaveWallet
    <2>1. /\ disk' \in [wallet : Wallet, rs : Manager] /\ node' = "saveRs"
          /\ UNCHANGED <<listener, socket, failed, memory, image, torn, main, todo, errors, stop>>
          /\ UNCHANGED <<spy, conn, open, tracked, signed, answered, lost, lives>>
      BY <1>5, SaveData DEF SaveWallet, connections
    <2> QED
      BY <2>1 DEF TypeOK
  <1>6. CASE SaveRelationships
    <2>1. /\ disk' \in [wallet : Wallet, rs : Manager] /\ node' = "returned"
          /\ UNCHANGED <<listener, socket, failed, memory, image, torn, main, todo, errors, stop>>
          /\ UNCHANGED <<spy, conn, open, tracked, signed, answered, lost, lives>>
      BY <1>6, SaveData DEF SaveRelationships, connections
    <2> QED
      BY <2>1 DEF TypeOK
  <1>7. CASE Start
    <2>1. [c \in Conn |-> IF c \in Unsaved THEN 0 ELSE answered[c]] \in [Conn -> Nat]
      BY DEF TypeOK
    <2>2. Unsaved \subseteq Conn
      BY DEF Unsaved
    <2>3. disk.wallet \in Wallet
      BY TypeFacts
    <2>4. answered' \in [Conn -> Nat] /\ signed' \in [Conn -> Nat]
      BY <1>7, <2>1 DEF Start, TypeOK
    <2>5. torn' \subseteq Conn /\ lost' \subseteq Conn /\ lives' \in Nat
      BY <1>7, <2>2 DEF Start, TypeOK
    <2>6. /\ memory' \in [wallet : Wallet, rs : Manager] /\ disk' = disk
          /\ image' \in Wallet
      BY <1>7, <2>3 DEF Start, Load, TypeOK
    <2>7. /\ conn' \in [Conn -> {"none", "accepted", "reading", "working", "refused", "signed",
                                "moved", "done", "ended"}]
          /\ open' \subseteq Conn /\ tracked' \subseteq Conn
      BY <1>7 DEF Start
    <2>8. /\ main' = "select" /\ todo' = <<>> /\ errors' = {} /\ stop' = FALSE
          /\ node' = "start" /\ spy' = "running" /\ failed' = FALSE /\ listener' = "nil"
          /\ socket' \in BOOLEAN
      BY <1>7 DEF Start, TypeOK
    <2> QED
      BY <2>4, <2>5, <2>6, <2>7, <2>8 DEF TypeOK
  <1>8. ASSUME NEW c \in Conn, CommandStep(c)
        PROVE  TypeOK'
    BY <1>8, CommandTypeOK
  <1>9. CASE UNCHANGED vars
    BY <1>9 DEF vars, TypeOK
  <1> QED
    BY <1>1, <1>2, <1>3, <1>4, <1>5, <1>6, <1>7, <1>8, <1>9, ProcessTypeOK DEF Next, NodeStep

-----------------------------------------------------------------------------
(* Stopping.                                                               *)

LEMMA StepMainOK ==
    ASSUME TypeOK, MainOK, [Next]_vars
    PROVE  MainOK'
  <1>1. CASE NodeError \/ SpyError \/ Signal
    BY <1>1, TodoFacts DEF NodeError, SpyError, Signal, Stopping, server, MainOK
  <1>2. CASE StopSpy
    <2>1. \/ todo = <<"spy">> /\ todo' = <<>>
          \/ todo = <<"spy", "node">> /\ todo' = <<"node">>
      BY <1>2, TodoFacts DEF StopSpy, TypeOK
    <2> QED
      BY <1>2, <2>1, TodoFacts DEF StopSpy, server, MainOK, TypeOK
  <1>3. CASE StoreStop
    <2>1. todo = <<"node">>
      BY <1>3, TodoFacts DEF StoreStop, TypeOK
    <2> QED
      BY <1>3, <2>1 DEF StoreStop, server, MainOK
  <1>4. CASE Close
    <2>1. todo = <<"node">> /\ todo' = <<>>
      BY <1>4, TodoFacts DEF Close, TypeOK
    <2> QED
      BY <1>4, <2>1, TodoFacts DEF Close, CloseAll, MainOK, TypeOK
  <1>5. CASE CloseNil \/ Exit \/ Crash
    BY <1>5 DEF CloseNil, Exit, Crash, Alive, server, MainOK
  <1>6. CASE Callback
    BY <1>6 DEF Callback, process, server, MainOK
  <1>7. CASE SpyFails \/ SpyReports
    BY <1>7 DEF SpyFails, SpyReports, Report, server, MainOK
  <1>8. CASE Listen
    BY <1>8 DEF Listen, Alive, process, MainOK
  <1>9. CASE ListenFails \/ Deadline \/ AcceptFails
    <2>1. /\ node' = "save" /\ failed' = (failed \/ ~stop)
          /\ UNCHANGED <<main, todo, spy, errors, stop, listener, socket>>
      BY <1>9 DEF ListenFails, Deadline, AcceptFails, ServerError, ServerEnds, process
    <2>2. main # "exited"
      BY <1>9 DEF ListenFails, Deadline, AcceptFails, Alive
    <2> QED
      BY <2>1, <2>2 DEF MainOK
  <1>10. CASE CheckStop
    BY <1>10 DEF CheckStop, ServerEnds, Alive, process, MainOK
  <1>11. ASSUME NEW c \in Conn, Accept(c) \/ AppendConn(c)
         PROVE  MainOK'
    BY <1>11 DEF Accept, AppendConn, Alive, process, MainOK
  <1>12. CASE SerializeWallet \/ SerializeHangs \/ SaveWallet \/ SaveRelationships \/ SaveFails
    <2>1. /\ node \in {"save", "put", "saveRs"}
          /\ node' \in {"put", "saveRs", "returned", "hung"}
          /\ failed' = failed \/ failed'
          /\ UNCHANGED <<main, todo, spy, errors, stop, listener, socket>>
      BY <1>12 DEF SerializeWallet, SerializeHangs, SaveWallet, SaveRelationships, SaveFails,
                   process
    <2>2. main # "exited"
      BY <1>12 DEF SerializeWallet, SerializeHangs, SaveWallet, SaveRelationships, SaveFails,
                   Alive
    <2> QED
      BY <2>1, <2>2 DEF MainOK
  <1>13. CASE NodeReports
    BY <1>13 DEF NodeReports, Report, Alive, MainOK
  <1>14. ASSUME NEW c \in Conn, CommandStep(c)
         PROVE  MainOK'
    BY <1>14 DEF CommandStep, ReadCommand, CommandFails, Sign, Increment, Register, Answer,
                 process, server, MainOK
  <1>15. CASE Start
    BY <1>15, TodoFacts DEF Start, MainOK
  <1>16. CASE UNCHANGED vars
    BY <1>16 DEF vars, MainOK
  <1> QED
    BY <1>1, <1>2, <1>3, <1>4, <1>5, <1>6, <1>7, <1>8, <1>9, <1>10, <1>11, <1>12, <1>13,
       <1>14, <1>15, <1>16 DEF Next, MainStep, NodeStep

-----------------------------------------------------------------------------
(* Saving.                                                                 *)

\* A step that changes no data, leads no command into or out of what changes
\* data, and the node neither into saving nor, without a failure, to its end.
Aside ==
    /\ UNCHANGED <<data, history>>
    /\ \A c \in Conn : \/ conn'[c] = conn[c]
                       \/ {conn[c], conn'[c]} \cap {"signed", "moved", "done"} = {}
    /\ failed => failed'
    /\ node' \in {"put", "saveRs"} => node' = node
    /\ ~failed' /\ node' \in {"returned", "done"} => node \in {"returned", "done"}

LEMMA AsideKeepsDataOK ==
    ASSUME DataOK, Aside
    PROVE  DataOK'
  <1>1. HeardOK'
    BY DEF DataOK, HeardOK, Aside, data
  <1>2. ASSUME NEW c \in Conn
        PROVE  (CommandOK(c) /\ SavedOK(c) /\ AnsweredOK(c))'
    <2>1. CommandOK(c)'
      BY DEF DataOK, CommandOK, Aside, data, history
    <2>2. SavedOK(c)'
      BY DEF DataOK, SavedOK, Aside, data
    <2>3. AnsweredOK(c)'
      BY DEF DataOK, AnsweredOK, Aside, data, history
    <2> QED
      BY <2>1, <2>2, <2>3
  <1> QED
    BY <1>1, <1>2 DEF DataOK

LEMMA AsideSteps ==
    ASSUME TypeOK,
           \/ MainStep \/ Signal \/ Crash \/ SpyFails \/ SpyReports
           \/ Listen \/ ListenFails \/ CheckStop \/ Deadline
           \/ SerializeHangs \/ NodeReports \/ AcceptFails \/ SaveFails
           \/ \E c \in Conn : \/ Accept(c) \/ AppendConn(c)
                              \/ ReadCommand(c) \/ CommandFails(c)
    PROVE  Aside
  <1>1. CASE MainStep \/ Signal \/ Crash \/ SpyFails \/ SpyReports
    BY <1>1 DEF MainStep, NodeError, SpyError, StopSpy, StoreStop, Close, CloseNil, Exit,
                Signal, Stopping, Crash, SpyFails, SpyReports, server, connections, Aside
  <1>2. CASE Listen
    BY <1>2 DEF Listen, connections, Aside
  <1>3. CASE ListenFails \/ Deadline \/ AcceptFails
    BY <1>3 DEF ListenFails, Deadline, AcceptFails, ServerError, ServerEnds, connections, Aside
  <1>4. CASE CheckStop
    BY <1>4 DEF CheckStop, ServerEnds, connections, Aside
  <1>5. CASE SerializeHangs
    BY <1>5 DEF SerializeHangs, connections, Aside
  <1>6. CASE NodeReports
    BY <1>6 DEF NodeReports, connections, Aside
  <1>7. CASE SaveFails
    BY <1>7 DEF SaveFails, connections, Aside
  <1>8. ASSUME NEW c \in Conn, Accept(c) \/ AppendConn(c)
        PROVE  Aside
    <2>1. /\ conn' = [conn EXCEPT ![c] = conn'[c]]
          /\ {conn[c], conn'[c]} \cap {"signed", "moved", "done"} = {}
      BY <1>8 DEF Accept, AppendConn, TypeOK
    <2>2. \A d \in Conn : d = c \/ conn'[d] = conn[d]
      BY <2>1 DEF TypeOK
    <2> QED
      BY <1>8, <2>1, <2>2 DEF Accept, AppendConn, Aside
  <1>9. ASSUME NEW c \in Conn, ReadCommand(c) \/ CommandFails(c)
        PROVE  Aside
    <2>1. /\ conn' = [conn EXCEPT ![c] = conn'[c]]
          /\ {conn[c], conn'[c]} \cap {"signed", "moved", "done"} = {}
      BY <1>9 DEF ReadCommand, CommandFails, To, TypeOK
    <2>2. \A d \in Conn : d = c \/ conn'[d] = conn[d]
      BY <2>1 DEF TypeOK
    <2> QED
      BY <1>9, <2>1, <2>2 DEF ReadCommand, CommandFails, server, Aside
  <1> QED
    BY <1>1, <1>2, <1>3, <1>4, <1>5, <1>6, <1>7, <1>8, <1>9

\* Signing takes the next index of one relationship.
LEMMA SignKeepsDataOK ==
    ASSUME TypeOK, DataOK, NEW c \in Conn, Sign(c)
    PROVE  DataOK'
  <1>1. /\ conn' = [conn EXCEPT ![c] = "signed"]
        /\ signed' = [signed EXCEPT ![c] = memory.rs.index[c]]
        /\ conn[c] = "working"
        /\ UNCHANGED <<answered, lost, node, failed, memory, image, disk, torn>>
    BY DEF Sign, To, server, data
  <1>2. /\ conn'[c] = "signed" /\ signed'[c] = memory.rs.index[c]
        /\ \A d \in Conn : d # c => conn'[d] = conn[d] /\ signed'[d] = signed[d]
    BY <1>1 DEF TypeOK
  <1>3. HeardOK'
    BY <1>1 DEF DataOK, HeardOK
  <1>4. ASSUME NEW d \in Conn
        PROVE  (CommandOK(d) /\ SavedOK(d) /\ AnsweredOK(d))'
    <2>1. CommandOK(d)'
      BY <1>1, <1>2 DEF DataOK, CommandOK
    <2>2. SavedOK(d)'
      BY <1>1, <1>2 DEF DataOK, SavedOK
    <2>3. AnsweredOK(d)'
      BY <1>1 DEF DataOK, AnsweredOK
    <2> QED
      BY <2>1, <2>2, <2>3
  <1> QED
    BY <1>3, <1>4 DEF DataOK

\* A relationship that moves on while it is saved is torn.
LEMMA IncrementKeepsDataOK ==
    ASSUME TypeOK, DataOK, NEW c \in Conn, Increment(c)
    PROVE  DataOK'
  <1>1. /\ conn' = [conn EXCEPT ![c] = "moved"]
        /\ conn[c] = "signed"
        /\ torn' = IF node \in {"put", "saveRs"} THEN torn \cup {c} ELSE torn
        /\ UNCHANGED <<signed, answered, lost, node, failed, image, disk>>
    BY DEF Increment, To, server, history
  <1>2. /\ memory'.wallet = memory.wallet
        /\ memory'.rs.heard = memory.rs.heard
        /\ memory'.rs.index = [memory.rs.index EXCEPT ![c] = @ + 1]
    BY IncrementData
  <1>3. memory.rs.index \in [Conn -> Nat \ {0}]
    BY TypeFacts, ManagerFacts
  <1>4. /\ conn'[c] = "moved" /\ memory'.rs.index[c] = memory.rs.index[c] + 1
        /\ \A d \in Conn : d # c => /\ conn'[d] = conn[d]
                                    /\ memory'.rs.index[d] = memory.rs.index[d]
    BY <1>1, <1>2, <1>3 DEF TypeOK
  <1>5. HeardOK'
    BY <1>1, <1>2 DEF DataOK, HeardOK
  <1>6. ASSUME NEW d \in Conn
        PROVE  (CommandOK(d) /\ SavedOK(d) /\ AnsweredOK(d))'
    <2>1. CommandOK(d)'
      BY <1>1, <1>2, <1>4, NumberFacts DEF DataOK, CommandOK
    <2>2. SavedOK(d)'
      BY <1>1, <1>2, <1>4, NumberFacts DEF DataOK, SavedOK
    <2>3. AnsweredOK(d)'
      BY <1>1 DEF DataOK, AnsweredOK
    <2> QED
      BY <2>1, <2>2, <2>3
  <1> QED
    BY <1>5, <1>6 DEF DataOK

\* Registering raises what is watched to the next index, in memory and perhaps
\* in the image.
LEMMA RegisterKeepsDataOK ==
    ASSUME TypeOK, DataOK, NEW c \in Conn, Register(c)
    PROVE  DataOK'
  <1>1. /\ conn' = [conn EXCEPT ![c] = "done"]
        /\ conn[c] = "moved"
        /\ UNCHANGED <<signed, answered, lost, node, failed, torn, disk>>
    BY DEF Register, To, server, history
  <1>2. /\ memory'.rs = memory.rs
        /\ memory'.wallet.heard = memory.wallet.heard
        /\ memory'.wallet.watched = [memory.wallet.watched EXCEPT ![c] = memory.rs.index[c]]
        /\ image'.heard = image.heard
        /\ \/ image'.watched = image.watched
           \/ image'.watched = [image.watched EXCEPT ![c] = memory.rs.index[c]]
    BY RegisterData
  <1>3. /\ memory.wallet.watched \in [Conn -> Nat \ {0}]
        /\ image.watched \in [Conn -> Nat \ {0}]
    BY TypeFacts, WalletFacts
  <1>4. /\ conn'[c] = "done" /\ memory'.wallet.watched[c] = memory.rs.index[c]
        /\ image'.watched[c] \in {image.watched[c], memory.rs.index[c]}
        /\ \A d \in Conn : d # c => /\ conn'[d] = conn[d]
                                    /\ memory'.wallet.watched[d] = memory.wallet.watched[d]
                                    /\ image'.watched[d] = image.watched[d]
    BY <1>1, <1>2, <1>3 DEF TypeOK
  <1>5. HeardOK'
    BY <1>1, <1>2 DEF DataOK, HeardOK
  <1>6. ASSUME NEW d \in Conn
        PROVE  (CommandOK(d) /\ SavedOK(d) /\ AnsweredOK(d))'
    <2>1. CommandOK(d)'
      BY <1>1, <1>2, <1>4, NumberFacts DEF DataOK, CommandOK
    <2>2. SavedOK(d)'
      BY <1>1, <1>2, <1>4, NumberFacts DEF DataOK, SavedOK
    <2>3. AnsweredOK(d)'
      BY <1>1, <1>4 DEF DataOK, AnsweredOK, CommandOK
    <2> QED
      BY <2>1, <2>2, <2>3
  <1> QED
    BY <1>5, <1>6 DEF DataOK

\* Nothing is answered any more when a node that has not failed is saved.
LEMMA AnswerKeepsDataOK ==
    ASSUME TypeOK, MainOK, DataOK, NEW c \in Conn, Answer(c)
    PROVE  DataOK'
  <1>1. /\ \/ conn' = [conn EXCEPT ![c] = "ended"]
           \/ conn' = [conn EXCEPT ![c] = "reading"]
        /\ conn[c] \in {"done", "refused"}
        /\ \/ answered' = answered
           \/ conn[c] = "done" /\ ~stop /\ answered' = [answered EXCEPT ![c] = signed[c]]
        /\ UNCHANGED <<signed, lost, node, failed, memory, image, disk, torn>>
    BY DEF Answer, To, server, data
  <1>2. /\ conn'[c] \in {"ended", "reading"}
        /\ (answered'[c] = answered[c] \/ (conn[c] = "done" /\ answered'[c] = signed[c]))
        /\ \A d \in Conn : d # c => conn'[d] = conn[d] /\ answered'[d] = answered[d]
    BY <1>1 DEF TypeOK
  <1>3. HeardOK'
    BY <1>1 DEF DataOK, HeardOK
  <1>4. ASSUME NEW d \in Conn
        PROVE  (CommandOK(d) /\ SavedOK(d) /\ AnsweredOK(d))'
    <2>1. CommandOK(d)'
      BY <1>1, <1>2 DEF DataOK, CommandOK
    <2>2. SavedOK(d)'
      BY <1>1, <1>2 DEF DataOK, SavedOK
    <2>3. ~failed /\ node \in {"put", "saveRs", "returned", "done"} => answered' = answered
      BY <1>1 DEF MainOK
    <2>4. AnsweredOK(d)'
      BY <1>1, <2>3 DEF DataOK, AnsweredOK
    <2> QED
      BY <2>1, <2>2, <2>4
  <1> QED
    BY <1>3, <1>4 DEF DataOK

\* Nor does spynode tell anything then.
LEMMA CallbackKeepsDataOK ==
    ASSUME TypeOK, MainOK, DataOK, Callback
    PROVE  DataOK'
  <1>1. /\ spy = "running"
        /\ UNCHANGED <<conn, signed, answered, lost, node, failed, disk, torn>>
    BY DEF Callback, server, connections, history
  <1>2. /\ memory'.rs.index = memory.rs.index
        /\ memory'.wallet.watched = memory.wallet.watched
        /\ image'.watched = image.watched
    BY CallbackData
  <1>3. failed \/ node \in {"start", "accept", "append", "check"}
    BY <1>1 DEF MainOK
  <1>4. HeardOK'
    BY <1>1, <1>3 DEF HeardOK
  <1>5. ASSUME NEW c \in Conn
        PROVE  (CommandOK(c) /\ SavedOK(c) /\ AnsweredOK(c))'
    <2>1. CommandOK(c)'
      BY <1>1, <1>2 DEF DataOK, CommandOK
    <2>2. SavedOK(c)'
      BY <1>1, <1>2 DEF DataOK, SavedOK
    <2>3. AnsweredOK(c)'
      BY <1>1, <1>2 DEF DataOK, AnsweredOK
    <2> QED
      BY <2>1, <2>2, <2>3
  <1> QED
    BY <1>4, <1>5 DEF DataOK

\* The three steps of Node.Save.
LEMMA SaveKeepsDataOK ==
    ASSUME TypeOK, DataOK, SerializeWallet \/ SaveWallet \/ SaveRelationships
    PROVE  DataOK'
  <1>1. UNCHANGED <<conn, signed, answered, lost, failed, memory>>
    BY DEF SerializeWallet, SaveWallet, SaveRelationships, connections, history
  <1>2. CASE SerializeWallet
    <2>1. /\ node' = "put" /\ image' = memory.wallet /\ disk' = disk
          /\ torn' = torn \cup {c \in Conn : conn[c] = "moved"}
      BY <1>2 DEF SerializeWallet
    <2>2. HeardOK'
      BY <1>1, <2>1 DEF HeardOK
    <2>3. ASSUME NEW c \in Conn
          PROVE  (CommandOK(c) /\ SavedOK(c) /\ AnsweredOK(c))'
      <3>1. CommandOK(c)'
        BY <1>1, <2>1 DEF DataOK, CommandOK
      <3>2. SavedOK(c)'
        BY <1>1, <2>1 DEF DataOK, SavedOK
      <3>3. AnsweredOK(c)'
        BY <1>1, <2>1 DEF DataOK, AnsweredOK, CommandOK
      <3> QED
        BY <3>1, <3>2, <3>3
    <2> QED
      BY <2>2, <2>3 DEF DataOK
  <1>3. CASE SaveWallet
    <2>1. /\ node = "put" /\ node' = "saveRs" /\ UNCHANGED <<image, torn>>
          /\ disk'.wallet = image /\ disk'.rs = disk.rs
      BY <1>3, SaveData DEF SaveWallet
    <2>2. HeardOK'
      BY <1>1, <2>1 DEF DataOK, HeardOK
    <2>3. ASSUME NEW c \in Conn
          PROVE  (CommandOK(c) /\ SavedOK(c) /\ AnsweredOK(c))'
      <3>1. CommandOK(c)'
        BY <1>1 DEF DataOK, CommandOK
      <3>2. SavedOK(c)'
        BY <1>1, <2>1, NumberFacts DEF DataOK, SavedOK
      <3>3. AnsweredOK(c)'
        BY <1>1, <2>1 DEF DataOK, AnsweredOK
      <3> QED
        BY <3>1, <3>2, <3>3
    <2> QED
      BY <2>2, <2>3 DEF DataOK
  <1>4. CASE SaveRelationships
    <2>1. /\ node = "saveRs" /\ node' = "returned" /\ UNCHANGED <<image, torn>>
          /\ disk'.wallet = disk.wallet /\ disk'.rs = memory.rs
      BY <1>4, SaveData DEF SaveRelationships
    <2>2. HeardOK'
      BY <1>1, <2>1 DEF DataOK, HeardOK
    <2>3. ASSUME NEW c \in Conn
          PROVE  (CommandOK(c) /\ SavedOK(c) /\ AnsweredOK(c))'
      <3>1. CommandOK(c)'
        BY <1>1 DEF DataOK, CommandOK
      <3>2. SavedOK(c)'
        BY <1>1, <2>1, NumberFacts DEF DataOK, SavedOK
      <3>3. AnsweredOK(c)'
        BY <1>1, <2>1 DEF DataOK, AnsweredOK, CommandOK
      <3> QED
        BY <3>1, <3>2, <3>3
    <2> QED
      BY <2>2, <2>3 DEF DataOK
  <1> QED
    BY <1>2, <1>3, <1>4

\* The next life has the database for memory.  A relationship that is not lost
\* has signed nothing that was not answered, and that is saved.
LEMMA StartKeepsDataOK ==
    ASSUME TypeOK, MainOK, DataOK, Start
    PROVE  DataOK'
  <1>1. /\ node' = "start" /\ memory' = disk /\ disk' = disk
        /\ lost' = lost \cup Unsaved
        /\ answered' = [c \in Conn |-> IF c \in Unsaved THEN 0 ELSE answered[c]]
        /\ conn' = [c \in Conn |-> "none"]
        /\ UNCHANGED <<torn, signed>>
    BY DEF Start, Load
  <1>2. HeardOK'
    BY <1>1 DEF HeardOK
  <1>3. ASSUME NEW c \in Conn
        PROVE  (CommandOK(c) /\ SavedOK(c) /\ AnsweredOK(c))'
    <2>1. /\ conn'[c] = "none"
          /\ answered'[c] = IF c \in Unsaved THEN 0 ELSE answered[c]
      BY <1>1
    <2>2. /\ signed[c] \in Nat /\ answered[c] \in Nat
          /\ disk.rs.index[c] \in Nat \ {0} /\ disk.wallet.watched[c] \in Nat \ {0}
      BY NumberFacts
    <2>3. ASSUME c \notin Unsaved
          PROVE  /\ signed[c] <= answered[c]
                 /\ answered[c] < disk.rs.index[c]
                 /\ answered[c] < disk.wallet.watched[c]
      <3>1. main = "exited" /\ ~failed /\ ~(answered[c] < signed[c])
        BY <2>3 DEF Unsaved
      <3>2. node = "done"
        BY <3>1 DEF MainOK
      <3> QED
        BY <3>1, <3>2, <2>2 DEF DataOK, AnsweredOK
    <2>4. CommandOK(c)'
      BY <1>1, <2>1, <2>2, <2>3 DEF CommandOK
    <2>5. SavedOK(c)'
      BY <1>1, <2>1, <2>2 DEF DataOK, SavedOK
    <2>6. AnsweredOK(c)'
      BY <1>1 DEF AnsweredOK
    <2> QED
      BY <2>4, <2>5, <2>6
  <1> QED
    BY <1>2, <1>3 DEF DataOK

LEMMA StepDataOK ==
    ASSUME TypeOK, MainOK, DataOK, [Next]_vars
    PROVE  DataOK'
  <1>1. ASSUME Aside
        PROVE  DataOK'
    BY <1>1, AsideKeepsDataOK
  <1>2. ASSUME NEW c \in Conn, CommandStep(c)
        PROVE  DataOK'
    BY <1>1, <1>2, AsideSteps, SignKeepsDataOK, IncrementKeepsDataOK, RegisterKeepsDataOK,
       AnswerKeepsDataOK DEF CommandStep
  <1>3. ASSUME NEW c \in Conn, Accept(c) \/ AppendConn(c)
        PROVE  DataOK'
    BY <1>1, <1>3, AsideSteps
  <1>4. CASE UNCHANGED vars
    <2>1. Aside
      BY <1>4 DEF vars, data, history, Aside
    <2> QED
      BY <1>1, <2>1
  <1> QED
    BY <1>1, <1>2, <1>3, <1>4, AsideSteps, CallbackKeepsDataOK, SaveKeepsDataOK,
       StartKeepsDataOK DEF Next, NodeStep

-----------------------------------------------------------------------------
(* Theorems.                                                               *)

THEOREM DaemonInvHolds == Spec => []DaemonInv
  <1>1. DaemonInv /\ [Next]_vars => DaemonInv'
    BY StepTypeOK, StepMainOK, StepDataOK DEF DaemonInv
  <1> QED
    BY <1>1, InitDaemonInv, PTL DEF Spec

\* The type invariant holds.
THEOREM DaemonTypeOK == Spec => []TypeOK
  <1>1. DaemonInv => TypeOK
    BY DEF DaemonInv
  <1> QED
    BY <1>1, DaemonInvHolds, PTL

\* What was answered before a regular stop is in both parts of the database
\* (Node.Run saves after the command server has ended, with an error or not).
THEOREM AnsweredSavedHolds == Spec => []AnsweredSaved
  <1>1. DaemonInv => AnsweredSaved
    BY DEF DaemonInv, MainOK, DataOK, AnsweredOK, AnsweredSaved, Stopped
  <1> QED
    BY <1>1, DaemonInvHolds, PTL

\* So is all spynode has told: main stops it before the node (main.go).
THEOREM CallbacksSavedHolds == Spec => []CallbacksSaved
  <1>1. DaemonInv => CallbacksSaved
    BY DEF DaemonInv, MainOK, DataOK, HeardOK, CallbacksSaved, Stopped
  <1> QED
    BY <1>1, DaemonInvHolds, PTL

\* The saved wallet watches the next key of every saved relationship, after a
\* crash too, unless the relationship moved on while it was saved (Node.Save).
THEOREM SavedKeysWatchedHolds == Spec => []SavedKeysWatched
  <1>1. DaemonInv => SavedKeysWatched
    BY DEF DaemonInv, DataOK, SavedOK, SavedKeysWatched
  <1> QED
    BY <1>1, DaemonInvHolds, PTL

\* No life of a daemon signs with a key that an earlier one has used, unless
\* that life ended with something unsaved (IncrementHash, Node.Save, Node.Load).
THEOREM KeysFreshHolds == Spec => []KeysFresh
  <1>1. DaemonInv => KeysFresh
    BY DEF DaemonInv, DataOK, CommandOK, KeysFresh
  <1> QED
    BY <1>1, DaemonInvHolds, PTL

\* A regular stop leaves the command path free for the next start
\* (Node.Stop closes the listener, RunCommandServer opens it only once).
THEOREM SocketFreedHolds == Spec => []SocketFreed
  <1>1. DaemonInv => SocketFreed
    BY TodoFacts DEF DaemonInv, MainOK, SocketFreed, Stopped
  <1> QED
    BY <1>1, DaemonInvHolds, PTL
=============================================================================
