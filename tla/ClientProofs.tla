---------------------------- MODULE ClientProofs ----------------------------
(***************************************************************************)
(* Theorems about ClientExchange for any set of clients, any servers and   *)
(* any number of commands: whatever way the calls end, no connection, no   *)
(* entry of _map and no callback outlives its client (with the exception   *)
(* that ConnectionsAccounted names), a timeout is reported only after      *)
(* every version has been tried, a call takes the answer to its own        *)
(* request (with the exceptions that AnswerIsOwn names), the search for a   *)
(* version settles, whatever servers of protocols 2 and later there are,   *)
(* and the numbers of connections and requests stay within their bounds.   *)
(***************************************************************************)
EXTENDS ClientExchange, Integers, SequenceTheorems, TLAPS

-----------------------------------------------------------------------------
(* The client objects.                                                     *)

\* The client has a connection and is in a call, or between two.
Active == {"send", "reset", "check", "enter", "wait", "final", "copy", "decide", "idle"}
Places == Active \cup {"new", "connect", "disconnect", "erase", "deleted"}
Message == [to : Nat, ver : Nat, kind : {"none", "notice", "good", "bad"}]
Buffer == Message \cup {Garbage}
Request == [n : Nat, call : Calls \cup {"none"}, ver : Nat]
Objects ==
    [pc : Places, call : Calls \cup {"none"}, ver : Nat, tries : 0 .. 3, second : BOOLEAN,
     id : 0 .. 4, made : 0 .. 4, then : {"connect", "deleted"}, err : Errors, flag : BOOLEAN,
     msg : Buffer, buf : Buffer, n : Nat, left : Nat]

\* Will this object make another connection?
Returning(r) == r.pc = "connect" \/ (r.pc \in {"disconnect", "erase"} /\ r.then = "connect")
Ending(r) == r.pc = "deleted" \/ (r.pc \in {"disconnect", "erase"} /\ r.then = "deleted")

\* The attempts given up, the second and final chance among them.
Spent(r) == 3 - r.tries + IF r.second THEN 1 ELSE 0

\* Every attempt makes one connection, so an object makes four at most.
Budget(r) ==
    /\ r.pc = "new" => r.made = 0 /\ ~r.second
    /\ r.pc \in Active => r.tries > 0 /\ r.made = Spent(r) + 1
    /\ Returning(r) => r.tries > 0 /\ r.made = Spent(r)

\* The connection of an object is its last one, or none.
Phase(r) == IF r.pc \in Active \cup {"disconnect"} THEN "on"
            ELSE IF r.pc = "erase" THEN "leaving" ELSE "off"
Identified(r) == r.id = IF Phase(r) = "off" THEN 0 ELSE r.made

\* The versions given up are those that the versions still to come leave.
Coming(v, n) == IF n = 3 THEN Versions ELSE IF n = 2 THEN {v, Decrement(v)}
                ELSE IF n = 1 THEN {v} ELSE {}
Searching(r) == r.call \in {"open", "enumerate"} /\ ~r.second
TriedFits(r, t) ==
    /\ r.pc = "new" => t = {}
    /\ Searching(r) /\ (r.pc \in Active \/ Returning(r)) =>
        r.ver \in Versions /\ t = Versions \ Coming(r.ver, r.tries)
    /\ Searching(r) /\ Ending(r) /\ r.err = "RECV_TIMEOUT" => t = Versions

Sound(r, t) == r \in Objects /\ t \in SUBSET Versions /\ Budget(r) /\ Identified(r) /\ TriedFits(r, t)
-----------------------------------------------------------------------------
(* The invariant.                                                          *)

Shape ==
    /\ cl = [c \in Clients |-> cl[c]] /\ tried = [c \in Clients |-> tried[c]]
    /\ map \subseteq Conns
    /\ bindy \in [Conns -> {"none", "up", "down", "closed"}]
    /\ inbox \in [Conns -> Seq(Request)]
    /\ server \in [Clients -> Servers]
    /\ cb \in {NoCallback} \cup [stage : {"assign"}, conn : Conns, ans : Message]

AllSound == \A c \in Clients : Sound(cl[c], tried[c])

\* A connection in use is on the map, and bindy has it or has noticed its end.
Linked ==
    \A c \in Clients :
        /\ Phase(cl[c]) = "on" => Conn(c) \in map /\ bindy[Conn(c)] \in {"up", "down"}
        /\ Phase(cl[c]) = "leaving" => Conn(c) \in map /\ bindy[Conn(c)] = "closed"

\* Everything else on the map ended by itself, and everything bindy has is in use.
Others ==
    /\ \A k \in map : k = Conn(k[1]) \/ bindy[k] = "down"
    /\ \A k \in Conns : bindy[k] = "up" => k = Conn(k[1]) /\ Phase(cl[k[1]]) = "on"

\* The connection of a callback cannot leave the map, or end, under it.
CallbackFits == cb.stage = "assign" => cb.conn \in map /\ bindy[cb.conn] # "down"

IInv == Shape /\ AllSound /\ Linked /\ Others /\ CallbackFits
-----------------------------------------------------------------------------
\* What holds in the first state.
LEMMA InitIInv == Init => IInv
<1> SUFFICES ASSUME Init PROVE IInv
  OBVIOUS
<1>1. Fresh \in Objects /\ Fresh.pc = "new" /\ Fresh.made = 0 /\ Fresh.id = 0 /\ ~Fresh.second
  BY ConstantsAssumption DEF Fresh, Objects, Places, Active, Buffer, Message, NoAnswer, Calls, Errors
<1>2. Sound(Fresh, {})
  <2> HIDE DEF Fresh
  <2> QED BY <1>1 DEF Sound, Budget, Identified, Phase, Active, TriedFits, Returning, Ending, Fresh, Searching
<1>3. \A c \in Clients : cl[c] = Fresh /\ tried[c] = {}
  BY DEF Init
<1>4. AllSound
  BY <1>2, <1>3, Zenon DEF AllSound
<1>5. \A c \in Clients : Phase(cl[c]) = "off"
  BY <1>1, <1>3 DEF Phase, Active
<1>6. Linked /\ Others /\ CallbackFits
  BY <1>5 DEF Init, Linked, Others, CallbackFits, NoCallback
<1>7. Shape
  BY DEF Init, Shape, NoCallback
<1> QED BY <1>4, <1>6, <1>7 DEF IInv

\* Conns, by its pairs.
LEMMA Pairs ==
    /\ \A k \in Conns : k[1] \in Clients /\ k[2] \in 1 .. 4 /\ k = <<k[1], k[2]>>
    /\ \A c \in Clients, i \in 1 .. 4 : <<c, i>> \in Conns /\ <<c, i>>[1] = c /\ <<c, i>>[2] = i
BY DEF Conns, LastVersion

-----------------------------------------------------------------------------
\* One object changes and keeps its connection.
Turns(c, r, t) ==
    /\ cl' = [cl EXCEPT ![c] = r] /\ tried' = [tried EXCEPT ![c] = t]
    /\ Sound(r, t) /\ r.id = cl[c].id /\ Phase(r) = Phase(cl[c])

LEMMA TurnKeeps ==
    ASSUME IInv, NEW c \in Clients, NEW r, NEW t, Turns(c, r, t),
           UNCHANGED <<map, bindy, server>>, inbox' \in [Conns -> Seq(Request)],
           cb' \in {NoCallback} \cup [stage : {"assign"}, conn : Conns, ans : Message],
           cb'.stage = "assign" => cb'.conn \in map /\ bindy[cb'.conn] # "down"
    PROVE  IInv'
<1>1. /\ cl'[c] = r /\ tried'[c] = t
      /\ \A d \in Clients : d # c => cl'[d] = cl[d] /\ tried'[d] = tried[d]
  BY DEF Turns, IInv, Shape
<1>2. Shape'
  BY DEF Turns, IInv, Shape
<1>3. AllSound'
  BY <1>1 DEF Turns, IInv, AllSound
<1>4. \A d \in Clients : Conn(d)' = Conn(d) /\ Phase(cl[d])' = Phase(cl[d])
  <2>1. \A d \in Clients : cl'[d].id = cl[d].id /\ Phase(cl'[d]) = Phase(cl[d])
    BY <1>1 DEF Turns
  <2> QED BY <2>1 DEF Conn
<1>5. Linked'
  BY <1>4 DEF IInv, Linked
<1>6. \A k \in Conns : k[1] \in Clients
  BY Pairs
<1>7. Others'
  BY <1>4, <1>6 DEF IInv, Others, Shape
<1>8. CallbackFits'
  BY DEF CallbackFits
<1> QED BY <1>2, <1>3, <1>5, <1>7, <1>8 DEF IInv
-----------------------------------------------------------------------------
(* What a call does with the outcome of its exchange.                      *)

\* The fields that the invariant looks at are the same.
Like(r, o) ==
    /\ r.call = o.call /\ r.id = o.id /\ r.made = o.made

LEMMA FinishTurns ==
    ASSUME IInv, NEW c \in Clients, NEW e \in Errors, NEW v \in Nat, pc(c) \in Active,
           Finish(c, e, v)
    PROVE  \E r, t : Turns(c, r, t)
<1>1. PICK o \in Objects, s \in SUBSET Versions :
        /\ o = cl[c] /\ s = tried[c] /\ Budget(o) /\ Identified(o) /\ TriedFits(o, s)
        /\ o.pc \in Active /\ cl = [d \in Clients |-> cl[d]] /\ tried = [d \in Clients |-> tried[d]]
  BY DEF IInv, AllSound, Sound, Shape, pc
<1>2. Phase(o) = "on" /\ o.id = o.made /\ o.tries \in 1 .. 3 /\ o.made = Spent(o) + 1
  BY <1>1 DEF Phase, Identified, Budget, Objects
<1>3. CASE Redirect(c, e, v)
  <2> DEFINE r == [o EXCEPT !.pc = "disconnect", !.then = "connect", !.second = TRUE,
                            !.ver = v, !.err = "ok"]
  <2>1. r \in Objects
    BY DEF Objects, Places, Errors
  <2>2. r.pc = "disconnect" /\ r.then = "connect" /\ r.second = TRUE /\ Like(r, o)
        /\ r.tries = o.tries
    BY DEF Objects, Like
  <2>3. cl' = [cl EXCEPT ![c] = r] /\ tried' = [tried EXCEPT ![c] = s]
    BY <1>1, <1>3 DEF Redirect
  <2>4. o.second = FALSE
    BY <1>1, <1>3 DEF Redirect, Searches, Objects
  <2> HIDE DEF r
  <2>5. Budget(r)
    BY <1>2, <2>2, <2>4 DEF Budget, Returning, Spent, Active, Like
  <2>6. Phase(r) = "on" /\ Identified(r)
    BY <1>2, <2>2 DEF Phase, Identified, Active, Like
  <2>7. TriedFits(r, s)
    BY <2>2 DEF TriedFits, Searching
  <2> QED BY <1>1, <1>2, <2>1, <2>2, <2>3, <2>5, <2>6, <2>7 DEF Turns, Sound, Like
<1>4. CASE TryNext(c, e)
  <2> DEFINE r == [o EXCEPT !.pc = "disconnect", !.err = e,
                            !.then = IF o.tries > 1 THEN "connect" ELSE "deleted",
                            !.tries = o.tries - 1, !.ver = Decrement(o.ver)]
             t == s \cup {o.ver}
  <2>1. Searching(o)
    BY <1>1, <1>4 DEF TryNext, Searches, Searching
  <2>2. o.ver \in Versions /\ s = Versions \ Coming(o.ver, o.tries)
    BY <1>1, <2>1 DEF TriedFits
  <2>3. Decrement(o.ver) \in Versions /\ Decrement(o.ver) \in Nat
    BY <2>2 DEF Decrement, Versions, LastVersion
  <2>4. o.tries - 1 \in 0 .. 3
    BY <1>2
  <2>5. r \in Objects
    BY <2>3, <2>4 DEF Objects, Places
  <2>6. /\ r.pc = "disconnect" /\ r.then = IF o.tries > 1 THEN "connect" ELSE "deleted"
        /\ r.tries = o.tries - 1 /\ r.second = o.second /\ r.ver = Decrement(o.ver) /\ Like(r, o)
    BY DEF Objects, Like
  <2>7. cl' = [cl EXCEPT ![c] = r] /\ tried' = [tried EXCEPT ![c] = t]
    BY <1>1, <1>4 DEF TryNext
  <2> HIDE DEF r
  <2>8. Budget(r)
    BY <1>2, <2>6 DEF Budget, Returning, Spent, Active, Like
  <2>9. Phase(r) = "on" /\ Identified(r)
    BY <1>2, <2>6 DEF Phase, Identified, Active, Like
  <2>10. TriedFits(r, t)
    <3>1. o.tries > 1 => t = Versions \ Coming(Decrement(o.ver), o.tries - 1)
      BY <1>2, <2>2 DEF Coming, Decrement, Versions, LastVersion
    <3>2. ~(o.tries > 1) => t = Versions
      BY <1>2, <2>2 DEF Coming, Versions, LastVersion
    <3> HIDE DEF t
    <3> QED BY <2>3, <2>6, <3>1, <3>2 DEF TriedFits, Returning, Ending, Active
  <2>11. t \in SUBSET Versions
    BY <2>2
  <2> QED BY <1>1, <1>2, <2>5, <2>6, <2>7, <2>8, <2>9, <2>10, <2>11 DEF Turns, Sound, Like
<1>5. CASE Keep(c, e)
  <2> DEFINE r == [o EXCEPT !.pc = "idle", !.err = e]
  <2>1. r \in Objects
    BY DEF Objects, Places, Active
  <2>2. /\ r.pc = "idle" /\ r.second = o.second /\ r.tries = o.tries /\ r.ver = o.ver
        /\ Like(r, o)
    BY DEF Objects, Like
  <2>3. cl' = [cl EXCEPT ![c] = r] /\ tried' = [tried EXCEPT ![c] = s]
    BY <1>1, <1>5 DEF Keep
  <2> HIDE DEF r
  <2>4. Budget(r)
    BY <1>2, <2>2 DEF Budget, Returning, Spent, Active, Like
  <2>5. Phase(r) = "on" /\ Identified(r)
    BY <1>2, <2>2 DEF Phase, Identified, Active, Like
  <2>6. TriedFits(r, s)
    BY <1>1, <2>2 DEF TriedFits, Searching, Ending, Returning, Active, Like
  <2> QED BY <1>1, <1>2, <2>1, <2>2, <2>3, <2>4, <2>5, <2>6 DEF Turns, Sound, Like
<1>6. CASE GiveUp(c, e, v)
  <2> DEFINE r == [o EXCEPT !.pc = "disconnect", !.then = "deleted", !.ver = v, !.err = e]
  <2>1. r \in Objects
    BY DEF Objects, Places, Active
  <2>2. /\ r.pc = "disconnect" /\ r.then = "deleted" /\ r.second = o.second /\ r.err = e
        /\ Like(r, o)
    BY DEF Objects, Like
  <2>3. cl' = [cl EXCEPT ![c] = r] /\ tried' = [tried EXCEPT ![c] = s]
    BY <1>1, <1>6 DEF GiveUp
  <2>4. Searching(o) => e # "RECV_TIMEOUT"
    BY <1>1, <1>6 DEF GiveUp, Searches, Searching, TriesNext
  <2> HIDE DEF r
  <2>5. Budget(r)
    BY <1>2, <2>2 DEF Budget, Returning, Active
  <2>6. Phase(r) = "on" /\ Identified(r)
    BY <1>2, <2>2 DEF Phase, Identified, Active, Like
  <2>7. TriedFits(r, s)
    BY <2>2, <2>4 DEF TriedFits, Searching, Ending, Returning, Active, Like
  <2> QED BY <1>1, <1>2, <2>1, <2>2, <2>3, <2>5, <2>6, <2>7 DEF Turns, Sound, Like
<1> QED BY <1>3, <1>4, <1>5, <1>6 DEF Finish
-----------------------------------------------------------------------------
(* The other steps of one object.                                          *)

\* From one place in a call to another.
Inside(c, r) ==
    /\ r \in Objects /\ pc(c) \in Active /\ r.pc \in Active
    /\ r.tries = cl[c].tries /\ r.second = cl[c].second /\ r.id = cl[c].id /\ r.made = cl[c].made
    /\ (r.call = cl[c].call /\ r.ver = cl[c].ver) \/ r.call \notin {"open", "enumerate"}
    /\ cl' = [cl EXCEPT ![c] = r] /\ tried' = tried

LEMMA InsideTurns ==
    ASSUME IInv, NEW c \in Clients, NEW r, Inside(c, r)
    PROVE  Turns(c, r, tried[c])
<1>1. PICK o, s : o = cl[c] /\ s = tried[c] /\ Sound(o, s)
  BY DEF IInv, AllSound
<1>2. tried' = [tried EXCEPT ![c] = s]
  BY <1>1 DEF Inside, IInv, Shape
<1>3. Budget(r) /\ Identified(r) /\ Phase(r) = "on" /\ Phase(o) = "on"
  BY <1>1 DEF Inside, pc, Sound, Budget, Identified, Phase, Returning, Spent, Active
<1>4. TriedFits(r, s)
  BY <1>1 DEF Inside, pc, Sound, TriedFits, Searching, Returning, Ending, Active
<1> QED BY <1>1, <1>2, <1>3, <1>4 DEF Inside, Turns, Sound

\* Something else in the object changes.
Beside(c, r) ==
    /\ r \in Objects /\ r.pc = pc(c) /\ r.then = cl[c].then /\ r.err = cl[c].err
    /\ r.tries = cl[c].tries /\ r.second = cl[c].second /\ r.id = cl[c].id /\ r.made = cl[c].made
    /\ r.call = cl[c].call /\ r.ver = cl[c].ver
    /\ cl' = [cl EXCEPT ![c] = r] /\ tried' = tried

LEMMA BesideTurns ==
    ASSUME IInv, NEW c \in Clients, NEW r, Beside(c, r)
    PROVE  Turns(c, r, tried[c])
<1>1. PICK o, s : o = cl[c] /\ s = tried[c] /\ Sound(o, s)
  BY DEF IInv, AllSound
<1>2. tried' = [tried EXCEPT ![c] = s]
  BY <1>1 DEF Beside, IInv, Shape
<1>3. Budget(r) /\ Identified(r) /\ Phase(r) = Phase(o)
  BY <1>1 DEF Beside, pc, Sound, Budget, Identified, Phase, Returning, Spent
<1>4. TriedFits(r, s)
  BY <1>1 DEF Beside, pc, Sound, TriedFits, Searching, Returning, Ending
<1> QED BY <1>1, <1>2, <1>3, <1>4 DEF Beside, Turns, Sound

\* The answers that a server may give, and what a callback is given.
LEMMA AnswersAreMessages ==
    ASSUME IInv, NEW k \in Conns, inbox[k] # <<>>, NEW a \in AnswersTo(k, Head(inbox[k]))
    PROVE  a \in Message
<1>1. PICK q \in Request : q = Head(inbox[k])
  BY DEF IInv, Shape
<1>2. Serves(k) \in Servers
  BY Pairs DEF IInv, Shape, Serves
<1>3. Serves(k).names \subseteq Nat
  BY <1>2, ConstantsAssumption
<1>4. q.n \in Nat /\ q.ver \in Nat
  BY DEF Request
<1> QED BY <1>1, <1>3, <1>4 DEF AnswersTo, Message

LEMMA CallbackKeeps ==
    ASSUME IInv, NEW k \in Conns, NEW a \in Message, StartCallback(k, a), bindy[k] # "down",
           UNCHANGED <<map, bindy, server, history>>, inbox' \in [Conns -> Seq(Request)]
    PROVE  IInv'
<1>1. k[1] \in Clients
  BY Pairs
<1>2. cl[k[1]] \in Objects
  BY <1>1 DEF IInv, AllSound, Sound
<1>3. CASE k \in map
  <2> DEFINE o == cl[k[1]] r == [o EXCEPT !.msg = Garbage]
  <2>1. r \in Objects
    BY <1>2 DEF Objects, Buffer
  <2>2. /\ r.pc = o.pc /\ r.then = o.then /\ r.err = o.err /\ r.tries = o.tries
        /\ r.second = o.second /\ r.id = o.id /\ r.made = o.made /\ r.call = o.call
        /\ r.ver = o.ver
    BY <1>2 DEF Objects
  <2>3. cl' = [cl EXCEPT ![k[1]] = r]
    BY <1>1, <1>3 DEF StartCallback
  <2>4. Beside(k[1], r)
    BY <2>1, <2>2, <2>3 DEF Beside, pc, history
  <2>5. Turns(k[1], r, tried[k[1]])
    BY <1>1, <2>4, BesideTurns, Zenon
  <2>6. cb' = [stage |-> "assign", conn |-> k, ans |-> a]
    BY <1>3 DEF StartCallback
  <2> QED BY <1>1, <1>3, <2>5, <2>6, TurnKeeps
<1>4. CASE k \notin map
  <2>1. cl' = cl /\ cb' = cb
    BY <1>4 DEF StartCallback
  <2> QED
    BY <2>1 DEF history, IInv, Shape, AllSound, Linked, Others, CallbackFits, Conn
<1> QED BY <1>3, <1>4

-----------------------------------------------------------------------------
\* An object stays an object when a call starts, connects, or is given an answer.
LEMMA StartedObject ==
    ASSUME NEW o \in Objects, NEW p \in Places, NEW call \in Calls \cup {"none"},
           NEW i \in 0 .. 3, NEW v \in Nat
    PROVE  [o EXCEPT !.pc = p, !.call = call, !.tries = i, !.ver = v] \in Objects
BY DEF Objects

LEMMA ConnectedObject ==
    ASSUME NEW o \in Objects, NEW p \in Places, NEW i \in 0 .. 4, NEW e \in Errors
    PROVE  [o EXCEPT !.pc = p, !.id = i, !.made = i, !.err = e] \in Objects
BY DEF Objects

LEMMA AnsweredObject ==
    ASSUME NEW o \in Objects, NEW p \in Places, NEW m \in Buffer
    PROVE  [o EXCEPT !.msg = m, !.flag = TRUE, !.pc = p] \in Objects
BY DEF Objects

-----------------------------------------------------------------------------
\* Every step keeps the invariant.
LEMMA NextIInv == IInv /\ [Next]_vars => IInv'
<1> SUFFICES ASSUME IInv, [Next]_vars PROVE IInv'
  OBVIOUS
<1>shape. Shape /\ AllSound /\ Linked /\ Others /\ CallbackFits
  BY DEF IInv
<1>object. \A c \in Clients : cl[c] \in Objects /\ Sound(cl[c], tried[c])
  BY <1>shape DEF AllSound, Sound
<1>words. /\ "send" \in Places /\ "reset" \in Places /\ "check" \in Places /\ "decide" \in Places
         /\ "connect" \in Places /\ "erase" \in Places /\ "deleted" \in Places
         /\ "command" \in Calls \cup {"none"} /\ "close" \in Calls \cup {"none"}
         /\ "ok" \in Errors /\ "NO_CONNECTION" \in Errors
  BY DEF Places, Active, Calls, Errors
<1>quiet. ASSUME NEW c \in Clients, NEW r, NEW t, Turns(c, r, t),
                 UNCHANGED <<map, bindy, server, cb>>, inbox' \in [Conns -> Seq(Request)]
          PROVE  IInv'
  BY <1>shape, <1>quiet, TurnKeeps DEF Shape, CallbackFits
<1>still. ASSUME UNCHANGED <<map, network, cb>>
          PROVE  UNCHANGED <<map, bindy, server, cb>> /\ inbox' \in [Conns -> Seq(Request)]
  BY <1>shape, <1>still DEF network, Shape
<1>1. ASSUME NEW c \in Clients, NEW call \in {"open", "enumerate", "version"},
             NEW v \in Versions, Start(c, call, v)
      PROVE  IInv'
  <2> DEFINE o == cl[c]
             r == [o EXCEPT !.pc = "connect", !.call = call, !.tries = LastVersion, !.ver = v]
  <2>0. "connect" \in Places /\ call \in Calls \cup {"none"} /\ LastVersion \in 0 .. 3 /\ v \in Nat
    BY DEF Places, Calls, LastVersion, Versions
  <2>1. r \in Objects
    BY <1>object, <2>0, StartedObject
  <2>2. /\ r.pc = "connect" /\ r.call = call /\ r.tries = 3 /\ r.ver = v
        /\ r.second = o.second /\ r.id = o.id /\ r.made = o.made
    BY <1>object DEF Objects, LastVersion
  <2>3. cl' = [cl EXCEPT ![c] = r] /\ tried' = [tried EXCEPT ![c] = tried[c]] /\ o.pc = "new"
    BY <1>1, <1>shape DEF Start, pc, history, Shape
  <2> HIDE DEF r
  <2>4. o.made = 0 /\ o.second = FALSE /\ o.id = 0 /\ tried[c] = {}
    BY <1>object, <2>3 DEF Sound, Budget, Identified, Phase, Active, TriedFits, Objects
  <2>5. Budget(r) /\ Identified(r) /\ Phase(r) = "off" /\ Phase(o) = "off"
    BY <2>2, <2>3, <2>4 DEF Budget, Identified, Phase, Returning, Spent, Active
  <2>6. TriedFits(r, {})
    BY <2>2 DEF TriedFits, Searching, Ending, Returning, Coming, Active
  <2>7. Turns(c, r, tried[c])
    BY <2>1, <2>2, <2>3, <2>4, <2>5, <2>6 DEF Turns, Sound
  <2>8. UNCHANGED <<map, network, cb>>
    BY <1>1 DEF Start
  <2> QED BY <1>quiet, <1>still, <2>7, <2>8, Zenon
<1>2. ASSUME NEW c \in Clients, Command(c) PROVE IInv'
  <2> DEFINE o == cl[c]
             r == [o EXCEPT !.pc = "send", !.call = "command", !.err = "ok", !.left = o.left - 1]
  <2>1. o.left - 1 \in Nat
    BY <1>2, <1>object DEF Command, Objects
  <2>2. r \in Objects
    BY <1>object, <2>1, <1>words DEF Objects
  <2>3. /\ r.pc = "send" /\ r.call = "command" /\ r.tries = o.tries /\ r.second = o.second
        /\ r.id = o.id /\ r.made = o.made
    BY <1>object DEF Objects
  <2>4. Inside(c, r)
    BY <1>2, <2>2, <2>3 DEF Command, Inside, Active, history
  <2>5. UNCHANGED <<map, network, cb>>
    BY <1>2 DEF Command
  <2> QED BY <1>quiet, <1>still, <2>4, <2>5, InsideTurns, Zenon
<1>3. ASSUME NEW c \in Clients, Close(c) PROVE IInv'
  <2> DEFINE o == cl[c] r == [o EXCEPT !.pc = "send", !.call = "close", !.err = "ok"]
  <2>2. r \in Objects
    BY <1>object, <1>words DEF Objects
  <2>3. /\ r.pc = "send" /\ r.call = "close" /\ r.tries = o.tries /\ r.second = o.second
        /\ r.id = o.id /\ r.made = o.made
    BY <1>object DEF Objects
  <2>4. Inside(c, r)
    BY <1>3, <2>2, <2>3 DEF Close, Inside, Active, history
  <2>5. UNCHANGED <<map, network, cb>>
    BY <1>3 DEF Close
  <2> QED BY <1>quiet, <1>still, <2>4, <2>5, InsideTurns, Zenon
<1>4. ASSUME NEW c \in Clients, Connect(c) PROVE IInv'
  <2> DEFINE o == cl[c] i == o.made + 1
             r == [o EXCEPT !.pc = "send", !.id = i, !.made = i, !.err = "ok"]
  <2>1. o.pc = "connect" /\ cb.stage = "none" /\ o.id = 0
    BY <1>4, <1>object DEF Connect, pc, MapFree, Sound, Identified, Phase, Active
  <2>2. o.tries \in 1 .. 3 /\ o.made = Spent(o) /\ i \in 1 .. 4
    BY <1>object, <2>1 DEF Sound, Budget, Returning, Spent, Objects
  <2>3. r \in Objects
    <3>1. "send" \in Places /\ "ok" \in Errors /\ i \in 0 .. 4
      BY <2>2 DEF Places, Active, Errors
    <3> QED BY <1>object, <3>1, ConnectedObject
  <2>4. /\ r.pc = "send" /\ r.call = o.call /\ r.tries = o.tries /\ r.second = o.second
        /\ r.id = i /\ r.made = i /\ r.ver = o.ver
    BY <1>object DEF Objects
  <2>5. /\ cl' = [cl EXCEPT ![c] = r] /\ map' = map \cup {<<c, i>>}
        /\ bindy' = [bindy EXCEPT ![<<c, i>>] = "up"]
        /\ UNCHANGED <<inbox, server, cb, tried>>
    BY <1>4 DEF Connect, history
  <2>6. <<c, i>> \in Conns /\ <<c, i>>[1] = c
    BY <2>2, Pairs
  <2> HIDE DEF r, i
  <2>7. Budget(r) /\ Identified(r) /\ Phase(r) = "on"
    BY <2>2, <2>4 DEF Budget, Identified, Phase, Returning, Spent, Active, i
  <2>8. TriedFits(r, tried[c])
    BY <1>object, <2>1, <2>4 DEF Sound, TriedFits, Searching, Returning, Ending, Active
  <2>9. /\ cl'[c] = r /\ \A d \in Clients : d # c => cl'[d] = cl[d]
        /\ Conn(c)' = <<c, i>> /\ \A d \in Clients : d # c => Conn(d)' = Conn(d)
    BY <1>shape, <2>4, <2>5 DEF Shape, Conn
  <2>10. Shape'
    BY <1>shape, <2>5, <2>6 DEF Shape
  <2>11. AllSound'
    BY <1>object, <2>3, <2>5, <2>7, <2>8, <2>9 DEF AllSound, Sound
  <2>12. \A d \in Clients : d # c => Conn(d) # <<c, i>>
    BY DEF Conn
  <2>bindy. bindy'[<<c, i>>] = "up" /\ \A k \in Conns : k # <<c, i>> => bindy'[k] = bindy[k]
    BY <1>shape, <2>5, <2>6 DEF Shape
  <2>13. Linked'
    <3>1. Conn(c)' \in map' /\ bindy'[Conn(c)'] = "up"
      BY <2>5, <2>9, <2>bindy
    <3>2. ASSUME NEW d \in Clients, d # c
          PROVE  /\ Conn(d)' = Conn(d) /\ Phase(cl'[d]) = Phase(cl[d])
                 /\ Conn(d) \in map => Conn(d) \in map' /\ bindy'[Conn(d)] = bindy[Conn(d)]
      BY <1>shape, <2>5, <2>9, <2>12, <2>bindy, <3>2 DEF Shape
    <3> QED BY <1>shape, <2>7, <2>9, <3>1, <3>2 DEF Linked
  <2>14. \A k \in map : k[1] = c => bindy[k] = "down"
    <3>1. ASSUME NEW k \in Conns, k = <<c, 0>> PROVE FALSE
      <4>1. k[2] = 0 /\ k[2] \in 1 .. 4
        BY <3>1, Pairs
      <4> QED BY <4>1
    <3>2. Conn(c) = <<c, 0>>
      BY <2>1 DEF Conn
    <3> QED BY <1>shape, <3>1, <3>2 DEF Others, Shape
  <2>15. Others'
    <3>2. \A k \in Conns : k[1] \in Clients /\ (k[1] = c => Conn(c) # k)
      BY <2>1, Pairs DEF Conn
    <3>3. \A k \in map' : k = Conn(k[1])' \/ bindy'[k] = "down"
      <4>1. ASSUME NEW k \in map, k # <<c, i>> PROVE k = Conn(k[1])' \/ bindy'[k] = "down"
        <5>1. k \in Conns /\ k[1] \in Clients /\ bindy'[k] = bindy[k]
          BY <1>shape, <2>bindy, <3>2, <4>1 DEF Shape
        <5>2. CASE k[1] = c
          BY <2>14, <5>1, <5>2
        <5>3. CASE k[1] # c
          BY <1>shape, <2>9, <5>1, <5>3 DEF Others
        <5> QED BY <5>2, <5>3
      <4> QED BY <2>5, <2>6, <2>9, <4>1
    <3>4. \A k \in Conns : bindy'[k] = "up" => k = Conn(k[1])' /\ Phase(cl'[k[1]]) = "on"
      BY <1>shape, <2>6, <2>7, <2>9, <2>bindy, <3>2 DEF Others
    <3> QED BY <3>3, <3>4 DEF Others
  <2>16. CallbackFits'
    BY <2>1, <2>5 DEF CallbackFits
  <2> QED BY <2>10, <2>11, <2>13, <2>15, <2>16 DEF IInv
<1>5. ASSUME NEW c \in Clients, ConnectFails(c) PROVE IInv'
  <2> DEFINE o == cl[c] r == [o EXCEPT !.pc = "deleted", !.err = "NO_CONNECTION"]
  <2>1. r \in Objects
    BY <1>object, <1>words DEF Objects
  <2>2. r.pc = "deleted" /\ r.err = "NO_CONNECTION" /\ r.id = o.id /\ o.pc = "connect"
    BY <1>5, <1>object DEF Objects, ConnectFails, pc
  <2>3. cl' = [cl EXCEPT ![c] = r] /\ tried' = [tried EXCEPT ![c] = tried[c]]
    BY <1>5, <1>shape DEF ConnectFails, history, Shape
  <2> HIDE DEF r
  <2>4. Budget(r) /\ Identified(r) /\ Phase(r) = "off" /\ Phase(o) = "off" /\ TriedFits(r, tried[c])
    BY <1>object, <2>2 DEF Sound, Budget, Identified, Phase, Returning, Ending, Active, TriedFits
  <2>5. Turns(c, r, tried[c])
    BY <1>object, <2>1, <2>2, <2>3, <2>4 DEF Turns, Sound
  <2>6. UNCHANGED <<map, network, cb>>
    BY <1>5 DEF ConnectFails
  <2> QED BY <1>quiet, <1>still, <2>5, <2>6, Zenon
<1>6. ASSUME NEW c \in Clients, Disconnect(c), bindy[Conn(c)] = "up" PROVE IInv'
  <2> DEFINE o == cl[c] r == [o EXCEPT !.pc = "erase"]
  <2>1. r \in Objects
    BY <1>object, <1>words DEF Objects
  <2>2. /\ r.pc = "erase" /\ r.call = o.call /\ r.tries = o.tries /\ r.second = o.second
        /\ r.id = o.id /\ r.made = o.made /\ r.ver = o.ver /\ r.then = o.then /\ r.err = o.err
        /\ o.pc = "disconnect"
    BY <1>6, <1>object DEF Objects, Disconnect, pc
  <2>3. /\ cl' = [cl EXCEPT ![c] = r] /\ bindy' = [bindy EXCEPT ![Conn(c)] = "closed"]
        /\ UNCHANGED <<map, inbox, server, cb, tried>>
    BY <1>6 DEF Disconnect, history
  <2> HIDE DEF r
  <2>4. Budget(r) /\ Identified(r) /\ Phase(r) = "leaving" /\ TriedFits(r, tried[c])
    BY <1>object, <2>2 DEF Sound, Budget, Identified, Phase, Returning, Ending, Spent, Active,
                           TriedFits, Searching
  <2>5. /\ cl'[c] = r /\ \A d \in Clients : d # c => cl'[d] = cl[d]
        /\ \A d \in Clients : Conn(d)' = Conn(d)
    BY <1>shape, <2>2, <2>3 DEF Shape, Conn
  <2>6. Conn(c) \in map /\ Conn(c) \in Conns /\ Conn(c)[1] = c
    BY <1>shape, <2>2, Pairs DEF Linked, Phase, Active, Shape, Conn
  <2>7. bindy'[Conn(c)] = "closed" /\ \A k \in Conns : k # Conn(c) => bindy'[k] = bindy[k]
    BY <1>shape, <2>3, <2>6 DEF Shape
  <2>8. Shape'
    BY <1>shape, <2>3, <2>6 DEF Shape
  <2>9. AllSound'
    BY <1>object, <2>1, <2>3, <2>4, <2>5 DEF AllSound, Sound
  <2>10. \A d \in Clients : d # c => Conn(d) # Conn(c)
    BY DEF Conn
  <2>11. Linked'
    BY <1>shape, <2>3, <2>4, <2>5, <2>6, <2>7, <2>10 DEF Linked, Shape
  <2>12. \A k \in Conns : k[1] \in Clients
    BY Pairs
  <2>13. Others'
    BY <1>shape, <2>3, <2>5, <2>6, <2>7, <2>12 DEF Others, Shape
  <2>14. CallbackFits'
    BY <1>shape, <2>3, <2>7 DEF CallbackFits, Shape
  <2> QED BY <2>8, <2>9, <2>11, <2>13, <2>14 DEF IInv
\* The connection goes off: bindy threw, or its entry has been erased.
<1>7. ASSUME NEW c \in Clients, (Disconnect(c) /\ bindy[Conn(c)] # "up") \/ Erase(c) PROVE IInv'
  <2> DEFINE o == cl[c] r == [o EXCEPT !.pc = o.then, !.id = 0]
  <2>1. o.pc \in {"disconnect", "erase"} /\ o.then \in {"connect", "deleted"}
    BY <1>7, <1>object DEF Disconnect, Erase, pc, Objects
  <2>2. 0 \in 0 .. 4 /\ o.then \in Places
    BY <2>1 DEF Places
  <2>3. r \in Objects
    BY <1>object, <2>2 DEF Objects
  <2>4. /\ r.pc = o.then /\ r.call = o.call /\ r.tries = o.tries /\ r.second = o.second
        /\ r.id = 0 /\ r.made = o.made /\ r.ver = o.ver /\ r.err = o.err
    BY <1>object DEF Objects
  <2>5. /\ cl' = [cl EXCEPT ![c] = r] /\ UNCHANGED <<bindy, inbox, server, cb, tried>>
        /\ map' \in {map, map \ {Conn(c)}}
    BY <1>7 DEF Disconnect, Erase, history, network
  <2> HIDE DEF r
  <2>6. Budget(r) /\ Identified(r) /\ Phase(r) = "off" /\ TriedFits(r, tried[c])
    BY <1>object, <2>1, <2>4 DEF Sound, Budget, Identified, Phase, Returning, Ending, Spent,
                                 Active, TriedFits, Searching
  <2>7. /\ cl'[c] = r /\ \A d \in Clients : d # c => cl'[d] = cl[d] /\ Conn(d)' = Conn(d)
        /\ \A d \in Clients : d # c => Conn(d) # Conn(c)
    BY <1>shape, <2>5 DEF Shape, Conn
  <2>8. bindy[Conn(c)] # "up" /\ (map' # map => cb.stage = "none")
    BY <1>7, <1>shape, <2>1 DEF Erase, pc, Linked, Phase, Active, MapFree, Disconnect
  <2>9. map' # map \/ bindy[Conn(c)] = "down"
    BY <1>7, <1>shape, <2>1, <2>8 DEF Erase, Disconnect, pc, Linked, Phase, Active
  <2>10. Shape'
    BY <1>shape, <2>5 DEF Shape
  <2>11. AllSound'
    BY <1>object, <2>3, <2>5, <2>6, <2>7 DEF AllSound, Sound
  <2>12. Linked'
    BY <1>shape, <2>5, <2>6, <2>7 DEF Linked
  <2>13. \A k \in Conns : k[1] \in Clients
    BY Pairs
  <2>14. \A k \in map' : k \in map /\ (k = Conn(c) => bindy[k] = "down")
    BY <2>5, <2>9
  <2>15. \A k \in map' : k = Conn(k[1])' \/ bindy'[k] = "down"
    BY <1>shape, <2>5, <2>7, <2>13, <2>14 DEF Others, Shape
  <2>16. \A k \in Conns : bindy'[k] = "up" => k = Conn(k[1])' /\ Phase(cl'[k[1]]) = "on"
    BY <1>shape, <2>5, <2>7, <2>8, <2>13 DEF Others
  <2>17. Others'
    BY <2>15, <2>16 DEF Others
  <2>18. CallbackFits'
    BY <1>shape, <2>5, <2>8 DEF CallbackFits
  <2> QED BY <2>10, <2>11, <2>12, <2>17, <2>18 DEF IInv
<1>finish. ASSUME NEW c \in Clients, NEW e \in Errors, NEW v \in Nat, pc(c) \in Active,
                  Finish(c, e, v), UNCHANGED <<map, network, cb>>
           PROVE  IInv'
  <2>1. PICK r, t : Turns(c, r, t)
    BY <1>finish, FinishTurns, Zenon
  <2> QED BY <1>finish, <1>quiet, <1>still, <2>1, Zenon
<1>8. ASSUME NEW c \in Clients, CannotAsk(c) \/ SendFails(c) PROVE IInv'
  <2>1. /\ pc(c) \in Active /\ cl[c].ver \in Nat /\ UNCHANGED <<map, network, cb>>
        /\ \E e \in {"NO_PROTOCOL", "SEND_DATA", "NO_CONNECTION"} : Finish(c, e, cl[c].ver)
    BY <1>8, <1>object DEF CannotAsk, SendFails, Active, Objects
  <2> QED BY <1>finish, <2>1 DEF Errors
<1>9. ASSUME NEW c \in Clients, Send(c) PROVE IInv'
  <2> DEFINE o == cl[c] q == [n |-> o.n + 1, call |-> o.call, ver |-> o.ver]
             r == [o EXCEPT !.pc = "reset", !.n = o.n + 1]
  <2>1. o.n + 1 \in Nat /\ o.ver \in Nat /\ o.call \in Calls \cup {"none"} /\ o.pc = "send"
    BY <1>9, <1>object DEF Objects, Send, pc
  <2>2. r \in Objects
    BY <1>object, <2>1, <1>words DEF Objects
  <2>3. /\ r.pc = "reset" /\ r.call = o.call /\ r.tries = o.tries /\ r.second = o.second
        /\ r.id = o.id /\ r.made = o.made /\ r.ver = o.ver
    BY <1>object DEF Objects
  <2>4. Inside(c, r)
    BY <1>9, <2>1, <2>2, <2>3 DEF Send, Inside, Active, history, pc
  <2>6. q \in Request
    BY <2>1 DEF Request
  <2>5. Conn(c) \in Conns
    BY <1>shape, <2>1 DEF Linked, Phase, Active, Shape
  <2>7. inbox' \in [Conns -> Seq(Request)]
    <3>1. inbox' = [inbox EXCEPT ![Conn(c)] = Append(inbox[Conn(c)], q)]
      BY <1>9, <1>shape DEF Send, Shape
    <3>2. Append(inbox[Conn(c)], q) \in Seq(Request)
      BY <1>shape, <2>5, <2>6 DEF Shape
    <3> QED BY <1>shape, <3>1, <3>2 DEF Shape
  <2>8. UNCHANGED <<map, bindy, server, cb>>
    BY <1>9 DEF Send
  <2> QED BY <1>quiet, <2>4, <2>7, <2>8, InsideTurns, Zenon
<1>10. ASSUME NEW c \in Clients, Reset(c) PROVE IInv'
  <2> DEFINE o == cl[c] r == [o EXCEPT !.pc = "check", !.flag = FALSE]
  <2>1. r \in Objects
    BY <1>object, <1>words DEF Objects
  <2>2. /\ r.pc = "check" /\ r.call = o.call /\ r.tries = o.tries /\ r.second = o.second
        /\ r.id = o.id /\ r.made = o.made /\ r.ver = o.ver
    BY <1>object DEF Objects
  <2>3. Inside(c, r) /\ UNCHANGED <<map, network, cb>>
    BY <1>10, <2>1, <2>2 DEF Reset, Inside, Active, history, pc
  <2> QED BY <1>quiet, <1>still, <2>3, InsideTurns, Zenon
<1>goes. ASSUME NEW c \in Clients, NEW p \in Active, NEW q \in Active, Goes(c, p, q),
                UNCHANGED <<map, network, cb, history>>
         PROVE  IInv'
  <2> DEFINE o == cl[c] r == [o EXCEPT !.pc = q]
  <2>0. q \in Places
    BY DEF Places
  <2>1. r \in Objects
    BY <1>object, <2>0 DEF Objects
  <2>2. /\ r.pc = q /\ r.call = o.call /\ r.tries = o.tries /\ r.second = o.second
        /\ r.id = o.id /\ r.made = o.made /\ r.ver = o.ver
    BY <1>object DEF Objects
  <2>3. Inside(c, r) /\ UNCHANGED <<map, network, cb>>
    BY <1>goes, <2>1, <2>2 DEF Goes, Inside, history
  <2> QED BY <1>quiet, <1>still, <2>3, InsideTurns, Zenon
<1>11. ASSUME NEW c \in Clients, Check(c) \/ Enter(c) \/ SpuriousWake(c) \/ Timeout(c) PROVE IInv'
  <2>1. {"check", "enter", "wait", "final", "copy"} \subseteq Active
    BY DEF Active
  <2>2. /\ UNCHANGED <<map, network, cb, history>>
        /\ \E p, q \in {"check", "enter", "wait", "final", "copy"} : Goes(c, p, q)
    BY <1>11 DEF Check, Enter, SpuriousWake, Timeout
  <2> QED BY <1>goes, <2>1, <2>2
<1>12. ASSUME NEW c \in Clients, FinalTest(c) PROVE IInv'
  <2>1. CASE Goes(c, "final", "copy") /\ UNCHANGED history
    <3>1. "final" \in Active /\ "copy" \in Active
      BY DEF Active
    <3>2. UNCHANGED <<map, network, cb, history>>
      BY <1>12, <2>1 DEF FinalTest
    <3> QED BY <1>goes, <2>1, <3>1, <3>2, Zenon
  <2>2. CASE Finish(c, "RECV_TIMEOUT", cl[c].ver)
    <3>1. pc(c) \in Active /\ cl[c].ver \in Nat /\ UNCHANGED <<map, network, cb>>
      BY <1>12, <1>object DEF FinalTest, Active, Objects
    <3>2. "RECV_TIMEOUT" \in Errors
      BY DEF Errors
    <3> QED BY <1>finish, <2>2, <3>1, <3>2, Zenon
  <2> QED BY <1>12, <2>1, <2>2 DEF FinalTest
<1>13. ASSUME NEW c \in Clients, Copy(c) PROVE IInv'
  <2> DEFINE o == cl[c] r == [o EXCEPT !.pc = "decide", !.buf = o.msg]
  <2>1. o.msg \in Buffer
    BY <1>object DEF Objects
  <2>2. r \in Objects
    BY <1>object, <2>1, <1>words DEF Objects
  <2>3. /\ r.pc = "decide" /\ r.call = o.call /\ r.tries = o.tries /\ r.second = o.second
        /\ r.id = o.id /\ r.made = o.made /\ r.ver = o.ver
    BY <1>object DEF Objects
  <2>4. Inside(c, r) /\ UNCHANGED <<map, network, cb>>
    BY <1>13, <2>2, <2>3 DEF Copy, Inside, Active, history, pc
  <2> QED BY <1>quiet, <1>still, <2>4, InsideTurns, Zenon
<1>14. ASSUME NEW c \in Clients, NEW calls, Reads(c, calls)
       PROVE  /\ pc(c) \in Active /\ cl[c].ver \in Nat /\ UNCHANGED <<map, network, cb>>
              /\ VersionIn(cl[c].msg) \subseteq Nat /\ Verdicts(c, cl[c].buf) \subseteq Errors
  <2>1. cl[c].msg \in Buffer /\ cl[c].ver \in Nat
    BY <1>object DEF Objects
  <2>2. VersionIn(cl[c].msg) \subseteq Nat
    BY <2>1 DEF VersionIn, Buffer, Message, Versions, LastVersion
  <2> QED BY <1>14, <2>1, <2>2 DEF Reads, Active, Verdicts, Errors
<1>15. ASSUME NEW c \in Clients, DecideAnother(c) PROVE IInv'
  <2>1. "ANOTHER_PROTOCOL" \in Errors
    BY DEF Errors
  <2>2. /\ Reads(c, {"open", "enumerate"})
        /\ \E v \in VersionIn(cl[c].msg) : Finish(c, "ANOTHER_PROTOCOL", v)
    BY <1>15 DEF DecideAnother
  <2>3. \E v \in Nat : Finish(c, "ANOTHER_PROTOCOL", v)
    BY <1>14, <2>2
  <2> QED BY <1>14, <1>finish, <2>1, <2>2, <2>3, Zenon
<1>16. ASSUME NEW c \in Clients,
              \/ DecideOpen(c) \/ DecideEnumerate(c) \/ DecideVersion(c) \/ DecideCommand(c)
              \/ DecideClose(c)
       PROVE  IInv'
  <2>1. PICK calls : Reads(c, calls)
    BY <1>16 DEF DecideOpen, DecideEnumerate, DecideVersion, DecideCommand, DecideClose
  <2>2. Verdicts(c, cl[c].buf) \subseteq Errors /\ "NO_PROTOCOL" \in Errors /\ "ok" \in Errors
    BY <1>14, <2>1 DEF Errors
  <2>3. \E e \in Errors : Finish(c, e, cl[c].ver)
    BY <1>16, <2>2
       DEF DecideOpen, DecideEnumerate, DecideVersion, DecideCommand, DecideClose
  <2>4. pc(c) \in Active /\ cl[c].ver \in Nat /\ UNCHANGED <<map, network, cb>>
    BY <1>14, <2>1
  <2> QED BY <1>finish, <2>3, <2>4, Zenon
<1>17. ASSUME NEW k \in Conns, Receive(k) PROVE IInv'
  <2>1. PICK a \in AnswersTo(k, Head(inbox[k])) : StartCallback(k, a)
    BY <1>17 DEF Receive
  <2>2. a \in Message
    BY <1>17, AnswersAreMessages DEF Receive
  <2>3. inbox' \in [Conns -> Seq(Request)]
    BY <1>17, <1>shape DEF Receive, Shape
  <2>4. UNCHANGED <<map, bindy, server, history>> /\ bindy[k] # "down"
    BY <1>17 DEF Receive
  <2> QED BY <2>1, <2>2, <2>3, <2>4, CallbackKeeps, Zenon
<1>18. ASSUME NEW k \in Conns, Unanswered(k) PROVE IInv'
  <2>1. inbox' \in [Conns -> Seq(Request)]
    BY <1>18, <1>shape DEF Unanswered, Shape
  <2>2. UNCHANGED <<cl, map, bindy, server, cb, tried>>
    BY <1>18 DEF Unanswered, history
  <2> QED
    BY <1>shape, <2>1, <2>2 DEF IInv, Shape, AllSound, Linked, Others, CallbackFits, Conn
<1>19. ASSUME NEW k \in Conns, DeviceLost(k) PROVE IInv'
  <2>1. Notice \in Message
    BY DEF Notice, Message
  <2>2. StartCallback(k, Notice) /\ inbox' \in [Conns -> Seq(Request)]
    BY <1>19, <1>shape DEF DeviceLost, Shape
  <2>3. UNCHANGED <<map, bindy, server, history>> /\ bindy[k] # "down"
    BY <1>19 DEF DeviceLost
  <2> QED BY <2>1, <2>2, <2>3, CallbackKeeps, Zenon
<1>20. ASSUME Deliver PROVE IInv'
  <2>0. cb \in [stage : {"assign"}, conn : Conns, ans : Message]
    <3>1. cb # NoCallback
      BY <1>20 DEF Deliver, NoCallback
    <3> QED BY <1>shape, <3>1 DEF Shape
  <2>2. cb.ans \in Message /\ cb.conn \in Conns
    BY <2>0
  <2>1. PICK c \in Clients : c = cb.conn[1]
    BY <2>2, Pairs
  <2> DEFINE o == cl[c]
             p == IF o.pc = "wait" THEN "check" ELSE o.pc
             r == [o EXCEPT !.msg = cb.ans, !.flag = TRUE, !.pc = p]
  <2>3. p \in Places /\ (o.pc \in Active => p \in Active) /\ (o.pc \notin Active => p = o.pc)
    BY <1>object DEF Objects, Places, Active
  <2> HIDE DEF p
  <2>4. r \in Objects
    BY <1>object, <2>2, <2>3, AnsweredObject DEF Buffer
  <2>5. /\ r.pc = p /\ r.call = o.call /\ r.tries = o.tries /\ r.second = o.second
        /\ r.id = o.id /\ r.made = o.made /\ r.ver = o.ver /\ r.then = o.then /\ r.err = o.err
    BY <1>object DEF Objects
  <2>6. cl' = [cl EXCEPT ![c] = r] /\ cb' = NoCallback /\ UNCHANGED <<map, network, history>>
    BY <1>20, <1>shape, <2>1 DEF Deliver, p, Shape
  <2>7. Inside(c, r) \/ Beside(c, r)
    BY <2>3, <2>4, <2>5, <2>6 DEF Inside, Beside, pc, history
  <2>8. Turns(c, r, tried[c])
    BY <2>7, InsideTurns, BesideTurns, Zenon
  <2>9. UNCHANGED <<map, bindy, server>> /\ inbox' \in [Conns -> Seq(Request)]
    BY <1>shape, <2>6 DEF network, Shape
  <2> QED BY <2>6, <2>8, <2>9, TurnKeeps DEF NoCallback
<1>21. ASSUME NEW k \in Conns, Drop(k) PROVE IInv'
  <2>1. bindy' = [bindy EXCEPT ![k] = "down"] /\ UNCHANGED <<cl, map, inbox, server, cb, tried>>
    BY <1>21 DEF Drop, history
  <2>2. bindy[k] = "up" /\ ~(cb.stage = "assign" /\ cb.conn = k)
    BY <1>21 DEF Drop
  <2>3. bindy'[k] = "down" /\ \A j \in Conns : j # k => bindy'[j] = bindy[j]
    BY <1>shape, <2>1 DEF Shape
  <2>4. \A c \in Clients : Phase(cl[c]) = "leaving" => Conn(c) # k
    BY <1>shape, <2>2 DEF Linked
  <2> QED
    BY <1>shape, <2>1, <2>2, <2>3, <2>4
       DEF IInv, Shape, AllSound, Linked, Others, CallbackFits, Conn
<1>22. CASE UNCHANGED vars
  <2>1. UNCHANGED <<cl, map, bindy, inbox, server, cb, tried>>
    BY <1>22 DEF vars, network, history
  <2> QED
    BY <1>shape, <2>1 DEF IInv, Shape, AllSound, Linked, Others, CallbackFits, Conn
<1>23. CASE \E c \in Clients :
              \/ StartOpen(c) \/ StartEnumerate(c) \/ StartVersion(c) \/ Command(c) \/ Close(c)
  <2>1. \A c \in Clients : StartOpen(c) \/ StartEnumerate(c) \/ StartVersion(c) =>
            \E call \in {"open", "enumerate", "version"}, v \in Versions : Start(c, call, v)
    BY ConstantsAssumption DEF StartOpen, StartEnumerate, StartVersion, Versions, LastVersion
  <2> QED BY <1>1, <1>2, <1>3, <1>23, <2>1
<1>24. CASE \E c \in Clients : Step(c)
  BY <1>4, <1>5, <1>6, <1>7, <1>8, <1>9, <1>10, <1>11, <1>12, <1>13, <1>15, <1>16, <1>24 DEF Step
<1> QED
  BY <1>11, <1>17, <1>18, <1>19, <1>20, <1>21, <1>22, <1>23, <1>24 DEF Next

-----------------------------------------------------------------------------
\* The invariant of every behaviour.
LEMMA Invariance == Spec => []IInv
BY InitIInv, NextIInv, PTL DEF Spec

\* No connection, no entry of _map and no callback outlives its client, for any number of
\* clients, any servers and any commands: bindy_helper.cpp and the ways out of the loops
\* of xibridge.cpp.
THEOREM NothingIsLeftBehind == Spec => []ConnectionsAccounted
<1>1. IInv => ConnectionsAccounted
  <2> SUFFICES ASSUME IInv PROVE ConnectionsAccounted
    OBVIOUS
  <2>1. \A k \in Conns : k[1] \in Clients /\ k[2] # 0 /\ <<k[1], 0>> # k
    BY Pairs
  <2>2. \A c \in Clients : pc(c) = "deleted" => cl[c].id = 0
    BY DEF IInv, AllSound, Sound, Identified, Phase, Active, pc
  <2>3. \A k \in Conns : k = Conn(k[1]) => Uses(k[1], k)
    BY <2>1, <2>2 DEF Uses, Conn
  <2>4. \A k \in map : Uses(k[1], k) \/ bindy[k] = "down"
    BY <2>3 DEF IInv, Others, Shape
  <2>5. \A k \in Conns : bindy[k] = "up" => Uses(k[1], k) /\ k \in map
    BY <2>1, <2>3 DEF IInv, Others, Linked
  <2>6. cb.stage = "assign" => pc(cb.conn[1]) # "deleted"
    BY <2>4 DEF IInv, CallbackFits, Uses
  <2> QED BY <2>4, <2>5, <2>6 DEF ConnectionsAccounted
<1> QED BY <1>1, Invariance, PTL

\* An open or an enumeration that fails with ERR_RECV_TIMEOUT has tried every version,
\* whichever it started from: the loops of xibridge.cpp with
\* decrement_server_protocol_version.
THEOREM TimeoutTriesEveryVersion == Spec => []TimeoutTriedAll
<1>1. IInv => TimeoutTriedAll
  BY DEF IInv, AllSound, Sound, TriedFits, Searching, Ending, TimeoutTriedAll, pc
<1> QED BY <1>1, Invariance, PTL
-----------------------------------------------------------------------------
(* Whose answer an exchange takes.                                         *)

Waiting == {"check", "enter", "wait", "final"}
Asking == Waiting \cup {"reset", "copy", "decide"}

\* An answer to one of the requests ids, by number; 0 stands for a notice.
Tells(m, ids) == m \in Message /\ m.kind # "none" /\ m.to \in ids

\* The object holds an answer to the request that it has sent.
Heard(r) == r.pc = "copy" \/ (r.pc \in Waiting /\ r.flag)

\* What the callback is assigning to c.
Given(c) == IF Assigning(c) THEN {cb.ans} ELSE {}

\* The first call of a connection, with its device dev, requests q that the server has yet to
\* answer and messages g that are on their way: whatever comes belongs to this call.
First(r, q, g, dev) ==
    r.call \notin {"command", "close"} =>
        /\ r.pc = "send" => q = <<>> /\ g = {} /\ dev = "closed"
        /\ r.pc \in Asking =>
            /\ \A i \in 1 .. Len(q) : q[i].n = r.n
            /\ \A m \in g : Tells(m, {0, r.n})
        /\ Heard(r) /\ g = {} => Tells(r.msg, {0, r.n})
        /\ r.pc = "decide" => Tells(r.buf, {0, r.n})

\* Every exchange before this one has had its answer, so there is one request, or one answer.
Settled(r, q, g) ==
    /\ r.pc \in {"idle", "send"} => q = <<>> /\ g = {}
    /\ r.pc \in Asking =>
        /\ r.n > 0
        /\ q = <<>> \/ (Len(q) = 1 /\ q[1].n = r.n /\ g = {})
        /\ \A m \in g : Tells(m, {r.n})
    /\ Heard(r) => q = <<>> /\ g = {} /\ Tells(r.msg, {r.n})
    /\ r.pc = "decide" => q = <<>> /\ g = {} /\ Tells(r.buf, {r.n})

Own(r, q, g, dev, miss) ==
    r.pc \in Active => First(r, q, g, dev) /\ (dev # "lost" /\ ~miss => Settled(r, q, g))
AllOwn == \A c \in Clients :
    Own(cl[c], inbox[Conn(c)], Given(c), device[Conn(c)], Conn(c) \in missed)

\* Nothing has happened on connections that are still to be made.
Untouched == \A k \in Conns : k[2] > cl[k[1]].made => inbox[k] = <<>> /\ device[k] = "closed"

\* A device is opened by the first request of its connection, so a lost one is not opened again.
OpensFirst ==
    \A k \in Conns : \A i \in 1 .. Len(inbox[k]) :
        inbox[k][i].call = "open" => i = 1 /\ device[k] = "closed"

OwnInv == device = [k \in Conns |-> device[k]] /\ AllOwn /\ Untouched /\ OpensFirst
-----------------------------------------------------------------------------
LEMMA InitOwn == Init => OwnInv
<1> SUFFICES ASSUME Init PROVE OwnInv
  OBVIOUS
<1>1. \A c \in Clients : cl[c] = Fresh
  BY DEF Init
<1>2. Fresh.pc \notin Active
  BY DEF Fresh, Active
<1>3. AllOwn
  BY <1>1, <1>2 DEF AllOwn, Own
<1>4. \A k \in Conns : inbox[k] = <<>> /\ device[k] = "closed"
  BY DEF Init
<1>5. Untouched /\ OpensFirst
  BY <1>4 DEF Untouched, OpensFirst
<1>6. device = [k \in Conns |-> device[k]]
  BY DEF Init
<1> QED BY <1>3, <1>5, <1>6 DEF OwnInv

\* A step that touches one client and its connections leaves the others what they have.
LEMMA OthersOwn ==
    ASSUME IInv, AllOwn, NEW c \in Clients,
           \A d \in Clients : d # c => cl'[d] = cl[d] /\ Given(d)' = Given(d),
           \A k \in Conns : k[1] # c =>
               inbox'[k] = inbox[k] /\ device'[k] = device[k] /\ (k \in missed' <=> k \in missed),
           Own(cl[c], inbox[Conn(c)], Given(c), device[Conn(c)], Conn(c) \in missed)'
    PROVE  AllOwn'
<1> SUFFICES ASSUME NEW d \in Clients, d # c
             PROVE  Own(cl[d], inbox[Conn(d)], Given(d), device[Conn(d)], Conn(d) \in missed)'
  BY DEF AllOwn
<1>1. Own(cl[d], inbox[Conn(d)], Given(d), device[Conn(d)], Conn(d) \in missed)
  BY DEF AllOwn
<1>2. cl'[d] = cl[d] /\ Given(d)' = Given(d) /\ Conn(d)' = Conn(d)
  BY DEF Conn
<1>3. CASE cl[d].pc \notin Active
  BY <1>2, <1>3 DEF Own
<1>4. CASE cl[d].pc \in Active
  <2>1. Conn(d) \in Conns /\ Conn(d)[1] # c
    BY <1>4 DEF IInv, Linked, Phase, Shape, Conn
  <2>2. /\ inbox'[Conn(d)] = inbox[Conn(d)] /\ device'[Conn(d)] = device[Conn(d)]
        /\ Conn(d) \in missed' <=> Conn(d) \in missed
    BY <2>1
  <2> QED BY <1>1, <1>2, <2>2 DEF Own
<1> QED BY <1>3, <1>4

\* One client moves on and what is on the wire stays.
Moves(c, r) ==
    /\ cl' = [cl EXCEPT ![c] = r] /\ r.made = cl[c].made
    /\ UNCHANGED <<inbox, device, cb>> /\ missed' \in {missed, missed \cup {Conn(c)}}
    /\ r.pc \in Active =>
        r.id = cl[c].id /\ Own(r, inbox[Conn(c)], Given(c), device[Conn(c)], Conn(c) \in missed')

LEMMA MoveKeeps ==
    ASSUME IInv, OwnInv, NEW c \in Clients, NEW r, Moves(c, r)
    PROVE  OwnInv'
<1>1. cl'[c] = r /\ \A d \in Clients : d # c => cl'[d] = cl[d]
  BY DEF Moves, IInv, Shape
<1>2. \A d \in Clients : cl'[d].made = cl[d].made /\ Given(d)' = Given(d)
  BY <1>1 DEF Moves, Given, Assigning
<1>3. Untouched' /\ OpensFirst' /\ device' = [k \in Conns |-> device[k]]'
  <2>1. \A k \in Conns : k[1] \in Clients
    BY Pairs
  <2>2. inbox' = inbox /\ device' = device
    BY DEF Moves
  <2> QED BY <1>2, <2>1, <2>2 DEF OwnInv, Untouched, OpensFirst
<1>4. \A k \in Conns : k[1] # c => (k \in missed' <=> k \in missed)
  BY DEF Moves, Conn
<1>5. Own(cl[c], inbox[Conn(c)], Given(c), device[Conn(c)], Conn(c) \in missed)'
  <2>1. CASE r.pc \notin Active
    BY <1>1, <2>1 DEF Own
  <2>2. CASE r.pc \in Active
    <3>1. Conn(c)' = Conn(c)
      BY <1>1, <2>2 DEF Moves, Conn
    <3> QED BY <1>1, <1>2, <2>2, <3>1 DEF Moves, Own
  <2> QED BY <2>1, <2>2
<1>6. AllOwn'
  BY <1>1, <1>2, <1>4, <1>5, OthersOwn DEF OwnInv, Moves
<1> QED BY <1>3, <1>6 DEF OwnInv

\* The end of an exchange: the client has nothing to wait for, or its connection is missed.
LEMMA FinishOwn ==
    ASSUME IInv, OwnInv, NEW c \in Clients, NEW e, NEW v, Finish(c, e, v),
           \/ pc(c) \in {"send", "decide"} /\ missed' \in {missed, missed \cup {Conn(c)}}
           \/ pc(c) = "final" /\ missed' = missed \cup {Conn(c)},
           UNCHANGED <<inbox, device, cb>>
    PROVE  OwnInv'
<1> DEFINE o == cl[c]
<1>1. o \in Objects /\ o.pc \in Active
  BY DEF IInv, AllSound, Sound, pc, Active
<1>2. Own(o, inbox[Conn(c)], Given(c), device[Conn(c)], Conn(c) \in missed)
  BY DEF OwnInv, AllOwn
<1>3. PICK r : /\ cl' = [cl EXCEPT ![c] = r] /\ r.made = o.made /\ r.id = o.id
               /\ r.pc \in {"disconnect", "idle"}
  <2>1. CASE Redirect(c, e, v)
    <3> DEFINE r == [o EXCEPT !.pc = "disconnect", !.then = "connect", !.second = TRUE,
                              !.ver = v, !.err = "ok"]
    <3>1. cl' = [cl EXCEPT ![c] = r]
      BY <2>1 DEF Redirect
    <3>2. r.made = o.made /\ r.id = o.id /\ r.pc = "disconnect"
      BY <1>1 DEF Objects
    <3> QED BY <3>1, <3>2
  <2>2. CASE TryNext(c, e)
    <3> DEFINE r == [o EXCEPT !.pc = "disconnect", !.err = e,
                              !.then = IF o.tries > 1 THEN "connect" ELSE "deleted",
                              !.tries = o.tries - 1, !.ver = Decrement(o.ver)]
    <3>1. cl' = [cl EXCEPT ![c] = r]
      BY <2>2 DEF TryNext
    <3>2. r.made = o.made /\ r.id = o.id /\ r.pc = "disconnect"
      BY <1>1 DEF Objects
    <3> QED BY <3>1, <3>2
  <2>3. CASE Keep(c, e)
    <3> DEFINE r == [o EXCEPT !.pc = "idle", !.err = e]
    <3>1. cl' = [cl EXCEPT ![c] = r]
      BY <2>3 DEF Keep
    <3>2. r.made = o.made /\ r.id = o.id /\ r.pc = "idle"
      BY <1>1 DEF Objects
    <3> QED BY <3>1, <3>2
  <2>4. CASE GiveUp(c, e, v)
    <3> DEFINE r == [o EXCEPT !.pc = "disconnect", !.then = "deleted", !.ver = v, !.err = e]
    <3>1. cl' = [cl EXCEPT ![c] = r]
      BY <2>4 DEF GiveUp
    <3>2. r.made = o.made /\ r.id = o.id /\ r.pc = "disconnect"
      BY <1>1 DEF Objects
    <3> QED BY <3>1, <3>2
  <2> QED BY <2>1, <2>2, <2>3, <2>4 DEF Finish
<1>4. r.pc \in Active => r.pc = "idle"
  BY <1>3 DEF Active
<1>5. r.pc = "idle" => First(r, inbox[Conn(c)], Given(c), device[Conn(c)])
  BY DEF First, Asking, Waiting, Heard
<1>6. r.pc = "idle" /\ device[Conn(c)] # "lost" /\ Conn(c) \notin missed' =>
          Settled(r, inbox[Conn(c)], Given(c))
  BY <1>1, <1>2 DEF Own, Settled, Asking, Waiting, Heard, pc
<1>7. Moves(c, r)
  BY <1>3, <1>4, <1>5, <1>6 DEF Moves, Own
<1> QED BY <1>7, MoveKeeps

-----------------------------------------------------------------------------
\* A message for c arrives at its callback, or nothing does.
LEMMA CallbackGives ==
    ASSUME IInv, NEW k \in Conns, NEW a \in Message, StartCallback(k, a), bindy[k] # "down"
    PROVE  \/ /\ k \in map /\ k = Conn(k[1]) /\ Given(k[1]) = {} /\ Given(k[1])' = {a}
              /\ \A d \in Clients : d # k[1] => cl'[d] = cl[d] /\ Given(d)' = Given(d)
              /\ cl'[k[1]] = [cl[k[1]] EXCEPT !.msg = Garbage]
           \/ /\ k \notin map /\ cl' = cl /\ cb' = cb
              /\ cl[k[1]].pc \in Active => k # Conn(k[1])
<1>1. k[1] \in Clients
  BY Pairs
<1>2. CASE k \in map
  <2>1. k = Conn(k[1])
    BY <1>2 DEF IInv, Others
  <2>2. cl' = [cl EXCEPT ![k[1]].msg = Garbage] /\ cb' = [stage |-> "assign", conn |-> k, ans |-> a]
    BY <1>2 DEF StartCallback
  <2>3. cl'[k[1]] = [cl[k[1]] EXCEPT !.msg = Garbage] /\ \A d \in Clients : d # k[1] => cl'[d] = cl[d]
    BY <1>1, <2>2 DEF IInv, Shape
  <2>4. \A d \in Clients : Given(d) = {} /\ Given(d)' = IF d = k[1] THEN {a} ELSE {}
    BY <2>2 DEF Given, Assigning, StartCallback, MapFree
  <2> QED BY <1>1, <1>2, <2>1, <2>3, <2>4
<1>3. CASE k \notin map
  <2>1. cl' = cl /\ cb' = cb
    BY <1>3 DEF StartCallback
  <2>2. cl[k[1]].pc \in Active => Conn(k[1]) \in map
    BY <1>1 DEF IInv, Linked, Phase
  <2> QED BY <1>3, <2>1, <2>2
<1> QED BY <1>2, <1>3

\* An object that is given a message is otherwise the same.
LEMMA GivenObject ==
    ASSUME NEW o \in Objects
    PROVE  LET r == [o EXCEPT !.msg = Garbage] IN
           /\ r.pc = o.pc /\ r.call = o.call /\ r.n = o.n /\ r.flag = o.flag /\ r.buf = o.buf
           /\ r.made = o.made /\ r.id = o.id
BY DEF Objects

LEMMA TailOfOne ==
    ASSUME NEW S, NEW q \in Seq(S), q # <<>>
    PROVE  /\ Tail(q) \in Seq(S) /\ Len(q) > 0 /\ Len(Tail(q)) = Len(q) - 1 /\ Head(q) = q[1]
           /\ \A i \in 1 .. Len(Tail(q)) : i + 1 \in 1 .. Len(q) /\ Tail(q)[i] = q[i + 1]
           /\ Len(q) = 1 => Tail(q) = <<>>
<1>1. Len(q) > 0 /\ Len(q) \in Nat
  OBVIOUS
<1>2. Tail(q) \in Seq(S) /\ Len(Tail(q)) = Len(q) - 1 /\ Head(q) = q[1]
  BY <1>1
<1>3. \A i \in 1 .. Len(Tail(q)) : i + 1 \in 1 .. Len(q) /\ Tail(q)[i] = q[i + 1]
  BY <1>1, <1>2
<1>4. Len(q) = 1 => Tail(q) = <<>>
  <2>1. \A t \in Seq(S) : Len(t) = 0 => t = <<>>
    BY EmptySeq
  <2>2. Len(q) = 1 => Len(Tail(q)) = 0
    BY <1>2
  <2> QED BY <1>2, <2>1, <2>2, Zenon
<1> QED BY <1>1, <1>2, <1>3, <1>4

\* An answer tells about the request that it answers.
LEMMA AnswerTells ==
    ASSUME IInv, NEW k \in Conns, inbox[k] # <<>>, NEW a \in AnswersTo(k, Head(inbox[k]))
    PROVE  Tells(a, {inbox[k][1].n}) /\ a \in Message
<1>1. a \in Message
  BY AnswersAreMessages
<1>2. a.to = Head(inbox[k]).n /\ a.kind \in {"good", "bad"}
  BY DEF AnswersTo
<1>3. Head(inbox[k]) = inbox[k][1]
  BY TailOfOne DEF IInv, Shape
<1> QED BY <1>1, <1>2, <1>3 DEF Tells

\* The server takes a request from its queue and answers, and its device may be open then.
LEMMA ReceiveOwn ==
    ASSUME IInv, OwnInv, NEW k \in Conns, Receive(k)
    PROVE  OwnInv'
<1> DEFINE c == k[1] q == inbox[k]
<1>1. PICK a \in AnswersTo(k, Head(q)) :
        /\ StartCallback(k, a)
        /\ device' = IF Head(q).call = "open" /\ a.kind = "good"
                       THEN [device EXCEPT ![k] = "open"] ELSE device
  BY DEF Receive
<1>2. /\ bindy[k] # "down" /\ q # <<>> /\ inbox' = [inbox EXCEPT ![k] = Tail(q)]
      /\ missed' = missed
  BY DEF Receive, history
<1>3. Tells(a, {q[1].n}) /\ a \in Message
  BY <1>2, AnswerTells
<1>4. /\ Len(q) > 0 /\ Len(q) \in Nat /\ Len(Tail(q)) = Len(q) - 1 /\ Head(q) = q[1]
      /\ \A i \in 1 .. Len(Tail(q)) : i + 1 \in 1 .. Len(q) /\ Tail(q)[i] = q[i + 1] /\ i \in 1 .. Len(q)
      /\ Len(q) = 1 => Tail(q) = <<>>
  BY <1>2, TailOfOne DEF IInv, Shape
<1>5. /\ inbox'[k] = Tail(q) /\ \A j \in Conns : j # k => inbox'[j] = inbox[j]
      /\ \A j \in Conns : j # k => device'[j] = device[j]
      /\ device' = [j \in Conns |-> device'[j]]
  BY <1>1, <1>2 DEF IInv, Shape, OwnInv
<1>6. device'[k] = device[k] \/ (q[1].call = "open" /\ device'[k] = "open")
  BY <1>1, <1>4 DEF OwnInv
<1>7. q[1].call = "open" => device[k] = "closed"
  BY <1>4 DEF OwnInv, OpensFirst
<1>8. \/ /\ k \in map /\ k = Conn(c) /\ Given(c) = {} /\ Given(c)' = {a}
         /\ \A d \in Clients : d # c => cl'[d] = cl[d] /\ Given(d)' = Given(d)
         /\ cl'[c] = [cl[c] EXCEPT !.msg = Garbage]
      \/ /\ k \notin map /\ cl' = cl /\ cb' = cb
         /\ cl[c].pc \in Active => k # Conn(c)
  BY <1>1, <1>2, <1>3, CallbackGives
<1>9. c \in Clients /\ \A j \in Conns : j[1] \in Clients
  BY Pairs
<1>10. \A d \in Clients : cl'[d].made = cl[d].made
  <2>1. cl[c] \in Objects
    BY <1>9 DEF IInv, AllSound, Sound
  <2>2. [cl[c] EXCEPT !.msg = Garbage].made = cl[c].made
    BY <2>1, GivenObject
  <2> QED BY <1>8, <2>2
<1>11. Untouched'
  <2>1. ~(k[2] > cl[k[1]].made)
    BY <1>2 DEF OwnInv, Untouched
  <2> QED BY <1>5, <1>9, <1>10, <2>1 DEF OwnInv, Untouched
<1>12. OpensFirst'
  <2>1. \A i \in 1 .. Len(Tail(q)) : Tail(q)[i].call # "open"
    <3>1. ASSUME NEW i \in 1 .. Len(Tail(q)), Tail(q)[i].call = "open" PROVE FALSE
      <4>1. i + 1 \in 1 .. Len(q) /\ q[i + 1].call = "open"
        BY <1>4, <3>1
      <4>2. i + 1 = 1
        BY <4>1 DEF OwnInv, OpensFirst
      <4> QED BY <1>4, <4>2
    <3> QED BY <3>1
  <2> QED BY <1>5, <2>1 DEF OwnInv, OpensFirst
<1>13. AllOwn'
  <2>1. CASE k \in map
    <3> DEFINE o == cl[c] r == [o EXCEPT !.msg = Garbage] miss == k \in missed
    <3>1. o \in Objects
      BY <1>9 DEF IInv, AllSound, Sound
    <3>2. /\ r.pc = o.pc /\ r.call = o.call /\ r.n = o.n /\ r.flag = o.flag /\ r.buf = o.buf
          /\ r.id = o.id
      BY <3>1, GivenObject
    <3>3. Own(o, q, {}, device[k], miss)
      BY <1>8, <1>9, <2>1 DEF OwnInv, AllOwn
    <3>4. First(o, q, {}, device[k]) => First(r, Tail(q), {a}, device'[k])
      BY <1>2, <1>3, <1>4, <3>2 DEF First, Heard, Tells
    <3>5. Settled(o, q, {}) => Settled(r, Tail(q), {a})
      BY <1>2, <1>3, <1>4, <3>2 DEF Settled, Heard, Tells
    <3>6. device'[k] # "lost" => device[k] # "lost"
      BY <1>6, <1>7
    <3> HIDE DEF r
    <3>7. Own(r, Tail(q), {a}, device'[k], miss)
      BY <3>2, <3>3, <3>4, <3>5, <3>6 DEF Own
    <3>8. Conn(c)' = k /\ cl'[c] = r
      BY <1>8, <2>1, <3>2 DEF Conn, r
    <3>9. Own(cl[c], inbox[Conn(c)], Given(c), device[Conn(c)], Conn(c) \in missed)'
      BY <1>2, <1>5, <1>8, <2>1, <3>7, <3>8
    <3> QED BY <1>2, <1>5, <1>8, <1>9, <2>1, <3>9, OthersOwn DEF OwnInv
  <2>2. CASE k \notin map
    <3>1. /\ cl' = cl /\ \A d \in Clients : Given(d)' = Given(d) /\ Conn(d)' = Conn(d)
      BY <1>8, <2>2 DEF Given, Assigning, Conn
    <3>2. Own(cl[c], inbox[Conn(c)], Given(c), device[Conn(c)], Conn(c) \in missed)'
      <4>1. cl[c].pc \in Active => Conn(c) \in Conns /\ Conn(c) # k
        BY <1>8, <1>9, <2>2 DEF IInv, Linked, Phase, Shape
      <4>2. Own(cl[c], inbox[Conn(c)], Given(c), device[Conn(c)], Conn(c) \in missed)
        BY <1>9 DEF OwnInv, AllOwn
      <4> QED BY <1>2, <1>5, <1>9, <3>1, <4>1, <4>2 DEF Own
    <3> QED BY <1>2, <1>5, <1>9, <3>1, <3>2, OthersOwn DEF OwnInv
  <2> QED BY <2>1, <2>2
<1> QED BY <1>5, <1>11, <1>12, <1>13 DEF OwnInv

\* A notice is no answer; it settles nothing, because the device is lost.
LEMMA LostOwn ==
    ASSUME IInv, OwnInv, NEW k \in Conns, DeviceLost(k)
    PROVE  OwnInv'
<1> DEFINE c == k[1] q == inbox[k]
<1>1. /\ StartCallback(k, Notice) /\ bindy[k] # "down" /\ device[k] = "open"
      /\ device' = [device EXCEPT ![k] = "lost"] /\ inbox' = inbox /\ missed' = missed
  BY DEF DeviceLost, history
<1>2. Notice \in Message /\ Notice.kind # "none" /\ Notice.to = 0
  BY DEF Notice, Message
<1>3. /\ device'[k] = "lost" /\ \A j \in Conns : j # k => device'[j] = device[j]
      /\ device' = [j \in Conns |-> device'[j]]
  BY <1>1 DEF OwnInv
<1>4. \/ /\ k \in map /\ k = Conn(c) /\ Given(c) = {} /\ Given(c)' = {Notice}
         /\ \A d \in Clients : d # c => cl'[d] = cl[d] /\ Given(d)' = Given(d)
         /\ cl'[c] = [cl[c] EXCEPT !.msg = Garbage]
      \/ /\ k \notin map /\ cl' = cl /\ cb' = cb
         /\ cl[c].pc \in Active => k # Conn(c)
  BY <1>1, <1>2, CallbackGives
<1>5. c \in Clients /\ \A j \in Conns : j[1] \in Clients
  BY Pairs
<1>6. cl[c] \in Objects
  BY <1>5 DEF IInv, AllSound, Sound
<1>7. \A d \in Clients : cl'[d].made = cl[d].made
  <2>1. [cl[c] EXCEPT !.msg = Garbage].made = cl[c].made
    BY <1>6, GivenObject
  <2> QED BY <1>4, <2>1
<1>8. Untouched' /\ OpensFirst'
  <2>1. ~(k[2] > cl[k[1]].made) /\ \A i \in 1 .. Len(q) : q[i].call # "open"
    BY <1>1 DEF OwnInv, Untouched, OpensFirst
  <2> QED BY <1>1, <1>3, <1>5, <1>7, <2>1 DEF OwnInv, Untouched, OpensFirst
<1>9. AllOwn'
  <2>1. CASE k \in map
    <3> DEFINE o == cl[c] r == [o EXCEPT !.msg = Garbage]
    <3>1. /\ r.pc = o.pc /\ r.call = o.call /\ r.n = o.n /\ r.flag = o.flag /\ r.buf = o.buf
          /\ r.id = o.id
      BY <1>6, GivenObject
    <3>2. Own(o, q, {}, device[k], k \in missed)
      BY <1>4, <1>5, <2>1 DEF OwnInv, AllOwn
    <3>3. First(o, q, {}, device[k]) => First(r, q, {Notice}, device'[k])
      BY <1>1, <1>2, <3>1 DEF First, Heard, Tells
    <3> HIDE DEF r
    <3>4. Own(r, q, {Notice}, device'[k], k \in missed)
      BY <1>3, <3>1, <3>2, <3>3 DEF Own
    <3>5. Conn(c)' = k /\ cl'[c] = r
      BY <1>4, <2>1, <3>1 DEF Conn, r
    <3>6. Own(cl[c], inbox[Conn(c)], Given(c), device[Conn(c)], Conn(c) \in missed)'
      BY <1>1, <1>4, <2>1, <3>4, <3>5
    <3> QED BY <1>1, <1>3, <1>4, <1>5, <2>1, <3>6, OthersOwn DEF OwnInv
  <2>2. CASE k \notin map
    <3>1. /\ cl' = cl /\ \A d \in Clients : Given(d)' = Given(d) /\ Conn(d)' = Conn(d)
      BY <1>4, <2>2 DEF Given, Assigning, Conn
    <3>2. Own(cl[c], inbox[Conn(c)], Given(c), device[Conn(c)], Conn(c) \in missed)'
      <4>1. cl[c].pc \in Active => Conn(c) \in Conns /\ Conn(c) # k
        BY <1>4, <1>5, <2>2 DEF IInv, Linked, Phase, Shape
      <4>2. Own(cl[c], inbox[Conn(c)], Given(c), device[Conn(c)], Conn(c) \in missed)
        BY <1>5 DEF OwnInv, AllOwn
      <4> QED BY <1>1, <1>3, <1>5, <3>1, <4>1, <4>2 DEF Own
    <3> QED BY <1>1, <1>3, <1>5, <3>1, <3>2, OthersOwn DEF OwnInv
  <2> QED BY <2>1, <2>2
<1> QED BY <1>3, <1>8, <1>9 DEF OwnInv
\* The second half of the callback.
LEMMA DeliverOwn ==
    ASSUME IInv, OwnInv, Deliver
    PROVE  OwnInv'
<1>1. cb \in [stage : {"assign"}, conn : Conns, ans : Message] /\ cb.stage = "assign"
  <2>1. cb # NoCallback
    BY DEF Deliver, NoCallback
  <2> QED BY <2>1 DEF IInv, Shape, Deliver
<1>2. cb.conn \in Conns /\ cb.ans \in Message
  BY <1>1
<1>3. PICK c \in Clients : c = cb.conn[1]
  BY <1>2, Pairs
<1> DEFINE o == cl[c] p == IF o.pc = "wait" THEN "check" ELSE o.pc
           r == [o EXCEPT !.msg = cb.ans, !.flag = TRUE, !.pc = p]
           q == inbox[Conn(c)] dev == device[Conn(c)] miss == Conn(c) \in missed
<1>4. o \in Objects
  BY DEF IInv, AllSound, Sound
<1>5. /\ r.pc = p /\ r.call = o.call /\ r.n = o.n /\ r.flag = TRUE /\ r.buf = o.buf
      /\ r.msg = cb.ans /\ r.id = o.id /\ r.made = o.made
  <2> HIDE DEF p
  <2> QED BY <1>4 DEF Objects
<1>6. cl' = [cl EXCEPT ![c] = r] /\ cb' = NoCallback /\ UNCHANGED <<inbox, device, missed>>
  BY <1>3 DEF Deliver, network, history
<1> HIDE DEF r
<1>7. cl'[c] = r /\ \A d \in Clients : d # c => cl'[d] = cl[d]
  BY <1>6 DEF IInv, Shape
<1>8. Given(c) = {cb.ans} /\ \A d \in Clients : d # c => Given(d) = {}
  BY <1>1, <1>3 DEF Given, Assigning
<1>9. \A d \in Clients : Given(d)' = {}
  BY <1>6 DEF Given, Assigning, NoCallback
<1>10. \A d \in Clients : cl'[d].made = cl[d].made
  BY <1>5, <1>7
<1>11. Untouched' /\ OpensFirst' /\ device' = [k \in Conns |-> device[k]]'
  <2>1. \A k \in Conns : k[1] \in Clients
    BY Pairs
  <2> QED BY <1>6, <1>10, <2>1 DEF OwnInv, Untouched, OpensFirst
<1>12. Own(o, q, {cb.ans}, dev, miss)
  BY <1>8 DEF OwnInv, AllOwn
<1>13. o.pc \in Active => (First(o, q, {cb.ans}, dev) => First(r, q, {}, dev))
  BY <1>5 DEF First, Heard, Waiting, Asking
<1>14. o.pc \in Active => (Settled(o, q, {cb.ans}) => Settled(r, q, {}))
  BY <1>5 DEF Settled, Heard, Waiting, Asking
<1>15. r.pc \in Active => o.pc \in Active
  BY <1>5 DEF Active
<1>16. Own(r, q, {}, dev, miss)
  BY <1>12, <1>13, <1>14, <1>15 DEF Own
<1>17. Own(cl[c], inbox[Conn(c)], Given(c), device[Conn(c)], Conn(c) \in missed)'
  <2>1. Conn(c)' = Conn(c)
    BY <1>5, <1>7 DEF Conn
  <2> QED BY <1>6, <1>7, <1>9, <1>16, <2>1
<1>18. AllOwn'
  BY <1>6, <1>7, <1>8, <1>9, <1>17, OthersOwn DEF OwnInv
<1> QED BY <1>11, <1>18 DEF OwnInv

\* A connection is new, and with it what the server has of it.
LEMMA ConnectOwn ==
    ASSUME IInv, OwnInv, NEW c \in Clients, Connect(c)
    PROVE  OwnInv'
<1> DEFINE o == cl[c] i == o.made + 1
           r == [o EXCEPT !.pc = "send", !.id = i, !.made = i, !.err = "ok"]
<1>1. o \in Objects /\ o.pc = "connect" /\ Sound(o, tried[c])
  BY DEF IInv, AllSound, Sound, Connect, pc
<1>2. i \in 1 .. 4 /\ o.made \in Nat
  BY <1>1 DEF Sound, Budget, Returning, Spent, Objects
<1>3. r.pc = "send" /\ r.id = i /\ r.made = i
  BY <1>1 DEF Objects
<1>4. /\ cl' = [cl EXCEPT ![c] = r] /\ UNCHANGED <<inbox, device, cb, missed>>
      /\ MapFree
  BY DEF Connect, history
<1> HIDE DEF r
<1>5. cl'[c] = r /\ \A d \in Clients : d # c => cl'[d] = cl[d]
  BY <1>4 DEF IInv, Shape
<1>6. \A d \in Clients : Given(d)' = {} /\ Given(d) = {}
  BY <1>4 DEF Given, Assigning, MapFree
<1>7. <<c, i>> \in Conns /\ <<c, i>>[1] = c /\ <<c, i>>[2] = i
  BY <1>2, Pairs
<1>8. inbox[<<c, i>>] = <<>> /\ device[<<c, i>>] = "closed"
  <2>1. i > o.made
    BY <1>2
  <2> QED BY <1>7, <2>1 DEF OwnInv, Untouched
<1>9. Own(r, <<>>, {}, "closed", <<c, i>> \in missed)
  BY <1>3 DEF Own, First, Settled, Heard, Waiting, Asking
<1>10. Conn(c)' = <<c, i>>
  BY <1>3, <1>5 DEF Conn
<1>11. Own(cl[c], inbox[Conn(c)], Given(c), device[Conn(c)], Conn(c) \in missed)'
  BY <1>4, <1>5, <1>6, <1>8, <1>9, <1>10
<1>12. AllOwn'
  BY <1>4, <1>5, <1>6, <1>11, OthersOwn DEF OwnInv
<1>13. Untouched'
  <2>1. \A k \in Conns : k[1] \in Clients /\ k[2] \in Nat
    BY Pairs
  <2>2. \A k \in Conns : k[2] > cl'[k[1]].made => k[2] > cl[k[1]].made
    BY <1>2, <1>3, <1>5, <2>1
  <2> QED BY <1>4, <2>2 DEF OwnInv, Untouched
<1>14. OpensFirst' /\ device' = [k \in Conns |-> device[k]]'
  BY <1>4 DEF OwnInv, OpensFirst
<1> QED BY <1>12, <1>13, <1>14 DEF OwnInv

\* A request is the only one of its connection, unless an earlier one was given up.
LEMMA SendOwn ==
    ASSUME IInv, OwnInv, NEW c \in Clients, Send(c)
    PROVE  OwnInv'
<1> DEFINE o == cl[c] k == Conn(c) q == inbox[k] dev == device[k] miss == k \in missed
           m == [n |-> o.n + 1, call |-> o.call, ver |-> o.ver]
           r == [o EXCEPT !.pc = "reset", !.n = o.n + 1]
<1>1. o \in Objects /\ o.pc = "send"
  BY DEF IInv, AllSound, Sound, Send, pc
<1>2. o.n + 1 \in Nat /\ o.n + 1 > 0 /\ m.n = o.n + 1 /\ m.call = o.call
  BY <1>1 DEF Objects
<1>3. /\ r.pc = "reset" /\ r.n = o.n + 1 /\ r.call = o.call /\ r.id = o.id /\ r.made = o.made
  BY <1>1 DEF Objects
<1>4. /\ cl' = [cl EXCEPT ![c] = r] /\ UNCHANGED <<device, cb, missed>>
      /\ inbox' = [inbox EXCEPT ![k] = Append(q, m)]
  BY DEF Send, history
<1> HIDE DEF r, m
<1>5. k \in Conns /\ k[1] = c /\ k[2] = o.made
  <2>1. k \in Conns /\ o.id = o.made
    BY <1>1 DEF IInv, Linked, AllSound, Sound, Identified, Phase, Active, Shape
  <2> QED BY <2>1 DEF Conn
<1>6. q \in Seq(Request)
  BY <1>5 DEF IInv, Shape
<1>7. cl'[c] = r /\ \A d \in Clients : d # c => cl'[d] = cl[d]
  BY <1>4 DEF IInv, Shape
<1>8. inbox'[k] = Append(q, m) /\ \A j \in Conns : j # k => inbox'[j] = inbox[j]
  BY <1>4, <1>5 DEF IInv, Shape
<1>9. \A d \in Clients : Given(d)' = Given(d)
  BY <1>4 DEF Given, Assigning
<1>10. /\ Len(Append(q, m)) = Len(q) + 1 /\ Append(q, m)[Len(q) + 1] = m /\ Len(q) \in Nat
       /\ \A i \in 1 .. Len(q) : Append(q, m)[i] = q[i]
  BY <1>6
<1>11. q = <<>> => Len(Append(q, m)) = 1 /\ Append(q, m)[1] = m
  BY <1>10
<1>12. Own(o, q, Given(c), dev, miss)
  BY DEF OwnInv, AllOwn
<1>13. o.pc \in Active /\ First(o, q, Given(c), dev)
  BY <1>1, <1>12 DEF Own, Active
<1>14. First(r, Append(q, m), Given(c), dev)
  BY <1>1, <1>2, <1>3, <1>11, <1>13 DEF First, Heard, Waiting, Asking
<1>15. Settled(o, q, Given(c)) => Settled(r, Append(q, m), Given(c))
  BY <1>1, <1>2, <1>3, <1>11 DEF Settled, Heard, Waiting, Asking
<1>16. Own(r, Append(q, m), Given(c), dev, miss)
  BY <1>12, <1>13, <1>14, <1>15 DEF Own
<1>17. Own(cl[c], inbox[Conn(c)], Given(c), device[Conn(c)], Conn(c) \in missed)'
  <2>1. Conn(c)' = k
    BY <1>3, <1>7 DEF Conn
  <2> QED BY <1>4, <1>7, <1>8, <1>9, <1>16, <2>1
<1>18. AllOwn'
  BY <1>4, <1>5, <1>7, <1>8, <1>9, <1>17, OthersOwn DEF OwnInv
<1>19. Untouched'
  <2>1. \A j \in Conns : j[1] \in Clients
    BY Pairs
  <2>2. \A d \in Clients : cl'[d].made = cl[d].made
    BY <1>3, <1>7
  <2>3. ~(k[2] > cl[k[1]].made)
    <3>1. o.made \in Nat
      BY <1>1 DEF Objects
    <3> QED BY <1>5, <3>1
  <2> QED BY <1>4, <1>8, <2>1, <2>2, <2>3 DEF OwnInv, Untouched
<1>20. OpensFirst'
  <2>1. ASSUME NEW i \in 1 .. Len(Append(q, m)), Append(q, m)[i].call = "open"
        PROVE  i = 1 /\ dev = "closed"
    <3>1. CASE i \in 1 .. Len(q)
      BY <1>5, <1>10, <2>1, <3>1 DEF OwnInv, OpensFirst
    <3>2. CASE i = Len(q) + 1
      <4>1. o.call = "open"
        BY <1>2, <1>10, <2>1, <3>2
      <4>2. q = <<>> /\ dev = "closed"
        BY <1>1, <1>13, <4>1 DEF First
      <4> QED BY <3>2, <4>2
    <3> QED BY <1>10, <3>1, <3>2
  <2> QED BY <1>4, <1>8, <2>1 DEF OwnInv, OpensFirst
<1> QED BY <1>4, <1>18, <1>19, <1>20 DEF OwnInv

\* A server leaves a request unanswered.
LEMMA UnansweredOwn ==
    ASSUME IInv, OwnInv, NEW k \in Conns, Unanswered(k)
    PROVE  OwnInv'
<1> DEFINE q == inbox[k]
<1>1. /\ q # <<>> /\ inbox' = [inbox EXCEPT ![k] = Tail(q)]
      /\ UNCHANGED <<cl, device, cb, missed>>
  BY DEF Unanswered, history
<1>2. /\ Len(q) > 0 /\ Len(q) \in Nat
      /\ \A i \in 1 .. Len(Tail(q)) : i + 1 \in 1 .. Len(q) /\ Tail(q)[i] = q[i + 1] /\ i \in 1 .. Len(q)
      /\ Len(q) = 1 => Tail(q) = <<>>
  BY <1>1, TailOfOne DEF IInv, Shape
<1>3. inbox'[k] = Tail(q) /\ \A j \in Conns : j # k => inbox'[j] = inbox[j]
  BY <1>1 DEF IInv, Shape
<1>4. Untouched'
  <2>1. ~(k[2] > cl[k[1]].made)
    BY <1>1 DEF OwnInv, Untouched
  <2> QED BY <1>1, <1>3, <2>1 DEF OwnInv, Untouched
<1>5. OpensFirst'
  <2>1. ASSUME NEW i \in 1 .. Len(Tail(q)), Tail(q)[i].call = "open" PROVE FALSE
    <3>1. i + 1 \in 1 .. Len(q) /\ q[i + 1].call = "open"
      BY <1>2, <2>1
    <3>2. i + 1 = 1
      BY <3>1 DEF OwnInv, OpensFirst
    <3> QED BY <3>2
  <2> QED BY <1>1, <1>3, <2>1 DEF OwnInv, OpensFirst
<1>6. \A d \in Clients : Given(d)' = Given(d) /\ Conn(d)' = Conn(d)
  BY <1>1 DEF Given, Assigning, Conn
<1>7. k[1] \in Clients
  BY Pairs
<1>8. Own(cl[k[1]], inbox[Conn(k[1])], Given(k[1]), device[Conn(k[1])], Conn(k[1]) \in missed)'
  <2> DEFINE c == k[1] o == cl[c] g == Given(c)
  <2>1. Own(o, inbox[Conn(c)], g, device[Conn(c)], Conn(c) \in missed)
    BY <1>7 DEF OwnInv, AllOwn
  <2>2. o.pc \in Active => Conn(c) \in Conns
    BY <1>7 DEF IInv, Linked, Phase, Shape
  <2>3. First(o, q, g, device[k]) => First(o, Tail(q), g, device[k])
    BY <1>1, <1>2 DEF First
  <2>4. Settled(o, q, g) => Settled(o, Tail(q), g)
    BY <1>1, <1>2 DEF Settled
  <2>5. CASE Conn(c) = k
    BY <1>1, <1>3, <1>6, <1>7, <2>1, <2>3, <2>4, <2>5 DEF Own
  <2>6. CASE Conn(c) # k
    BY <1>1, <1>3, <1>6, <1>7, <2>1, <2>2, <2>6 DEF Own
  <2> QED BY <2>5, <2>6
<1>9. AllOwn'
  BY <1>1, <1>3, <1>6, <1>7, <1>8, OthersOwn DEF OwnInv
<1> QED BY <1>1, <1>4, <1>5, <1>9 DEF OwnInv
\* A connection ends.  No request is taken or answered by it.
LEMMA DropOwn ==
    ASSUME OwnInv, UNCHANGED <<cl, inbox, device, cb, missed>>
    PROVE  OwnInv'
<1>1. \A c \in Clients : Conn(c)' = Conn(c) /\ Given(c)' = Given(c)
  BY DEF Conn, Given, Assigning
<1>2. AllOwn'
  BY <1>1 DEF OwnInv, AllOwn
<1> QED BY <1>2 DEF OwnInv, Untouched, OpensFirst

\* Every step keeps it.
LEMMA NextOwn == IInv /\ OwnInv /\ [Next]_vars => OwnInv'
<1> SUFFICES ASSUME IInv, OwnInv, [Next]_vars PROVE OwnInv'
  OBVIOUS
<1>object. \A c \in Clients : cl[c] \in Objects
  BY DEF IInv, AllSound, Sound
<1>own. \A c \in Clients :
            Own(cl[c], inbox[Conn(c)], Given(c), device[Conn(c)], Conn(c) \in missed)
  BY DEF OwnInv, AllOwn
\* The client goes off, or starts, and keeps nothing.
<1>leave. ASSUME NEW c \in Clients, NEW r, cl' = [cl EXCEPT ![c] = r], r.made = cl[c].made,
                 r.pc \notin Active, UNCHANGED <<inbox, device, cb, missed>>
          PROVE  OwnInv'
  <2>1. Moves(c, r)
    BY <1>leave DEF Moves
  <2> QED BY <2>1, MoveKeeps
\* The client stays on its connection.
<1>stay. ASSUME NEW c \in Clients, NEW r, cl' = [cl EXCEPT ![c] = r], r.made = cl[c].made,
                r.id = cl[c].id, cl[c].pc \in Active,
                UNCHANGED <<inbox, device, cb, missed>>,
                First(cl[c], inbox[Conn(c)], Given(c), device[Conn(c)])
                  => First(r, inbox[Conn(c)], Given(c), device[Conn(c)]),
                Settled(cl[c], inbox[Conn(c)], Given(c)) => Settled(r, inbox[Conn(c)], Given(c))
         PROVE  OwnInv'
  <2>1. Moves(c, r)
    BY <1>own, <1>stay DEF Moves, Own
  <2> QED BY <2>1, MoveKeeps
<1>1. ASSUME NEW c \in Clients, NEW call, NEW v, Start(c, call, v) PROVE OwnInv'
  <2> DEFINE r == [cl[c] EXCEPT !.pc = "connect", !.call = call, !.tries = LastVersion, !.ver = v]
  <2>1. r.made = cl[c].made /\ r.pc = "connect"
    BY <1>object DEF Objects
  <2>2. cl' = [cl EXCEPT ![c] = r] /\ UNCHANGED <<inbox, device, cb, missed>>
    BY <1>1 DEF Start, network, history
  <2> HIDE DEF r
  <2> QED BY <1>leave, <2>1, <2>2 DEF Active
<1>2. ASSUME NEW c \in Clients, ConnectFails(c) \/ Disconnect(c) \/ Erase(c) PROVE OwnInv'
  <2> DEFINE o == cl[c]
  <2>1. o.then \in {"connect", "deleted"}
    BY <1>object DEF Objects
  <2>2. \A p : [o EXCEPT !.pc = p].made = o.made /\ [o EXCEPT !.pc = p].pc = p
               /\ [o EXCEPT !.pc = p, !.id = 0].made = o.made /\ [o EXCEPT !.pc = p, !.id = 0].pc = p
               /\ \A e : [o EXCEPT !.pc = p, !.err = e].made = o.made
                         /\ [o EXCEPT !.pc = p, !.err = e].pc = p
    BY <1>object DEF Objects
  <2>3. \E r : /\ cl' = [cl EXCEPT ![c] = r] /\ r.made = o.made
               /\ r.pc \in {"connect", "deleted", "erase"}
    <3>1. CASE cl' = [cl EXCEPT ![c].pc = "deleted", ![c].err = "NO_CONNECTION"]
      <4> WITNESS [o EXCEPT !.pc = "deleted", !.err = "NO_CONNECTION"]
      <4> QED BY <2>2, <3>1
    <3>2. CASE cl' = [cl EXCEPT ![c].pc = "erase"]
      <4> WITNESS [o EXCEPT !.pc = "erase"]
      <4> QED BY <2>2, <3>2
    <3>3. CASE cl' = [cl EXCEPT ![c].pc = o.then, ![c].id = 0]
      <4> WITNESS [o EXCEPT !.pc = o.then, !.id = 0]
      <4> QED BY <2>1, <2>2, <3>3
    <3> QED BY <1>2, <3>1, <3>2, <3>3 DEF ConnectFails, Disconnect, Erase
  <2>4. UNCHANGED <<inbox, device, cb, missed>>
    BY <1>2 DEF ConnectFails, Disconnect, Erase, network, history
  <2> QED BY <1>leave, <2>3, <2>4 DEF Active
<1>3. ASSUME NEW c \in Clients, Command(c) \/ Close(c) PROVE OwnInv'
  <2> DEFINE o == cl[c]
  <2>1. o.pc = "idle" /\ UNCHANGED <<inbox, device, cb, missed>>
    BY <1>3 DEF Command, Close, pc, network, history
  <2>2. PICK r : /\ cl' = [cl EXCEPT ![c] = r] /\ r.made = o.made /\ r.id = o.id /\ r.pc = "send"
                 /\ r.call \in {"command", "close"}
    <3>1. CASE Command(c)
      <4> DEFINE r == [o EXCEPT !.pc = "send", !.call = "command", !.err = "ok", !.left = o.left - 1]
      <4>1. cl' = [cl EXCEPT ![c] = r]
        BY <3>1 DEF Command
      <4>2. r.made = o.made /\ r.id = o.id /\ r.pc = "send" /\ r.call = "command"
        BY <1>object DEF Objects
      <4> QED BY <4>1, <4>2
    <3>2. CASE Close(c)
      <4> DEFINE r == [o EXCEPT !.pc = "send", !.call = "close", !.err = "ok"]
      <4>1. cl' = [cl EXCEPT ![c] = r]
        BY <3>2 DEF Close
      <4>2. r.made = o.made /\ r.id = o.id /\ r.pc = "send" /\ r.call = "close"
        BY <1>object DEF Objects
      <4> QED BY <4>1, <4>2
    <3> QED BY <1>3, <3>1, <3>2
  <2>3. First(r, inbox[Conn(c)], Given(c), device[Conn(c)])
    BY <2>2 DEF First
  <2>4. Settled(o, inbox[Conn(c)], Given(c)) => Settled(r, inbox[Conn(c)], Given(c))
    BY <2>1, <2>2 DEF Settled, Asking, Waiting, Heard
  <2> QED BY <1>stay, <2>1, <2>2, <2>3, <2>4 DEF Active
<1>4. ASSUME NEW c \in Clients, CannotAsk(c) \/ SendFails(c) PROVE OwnInv'
  <2>1. /\ pc(c) = "send" /\ UNCHANGED <<inbox, device, cb, missed>>
        /\ \E e, v : Finish(c, e, v)
    BY <1>4 DEF CannotAsk, SendFails, network
  <2> QED BY <2>1, FinishOwn
<1>5. ASSUME NEW c \in Clients, Reset(c) PROVE OwnInv'
  <2> DEFINE o == cl[c] r == [o EXCEPT !.pc = "check", !.flag = FALSE]
  <2>1. /\ r.pc = "check" /\ r.flag = FALSE /\ r.call = o.call /\ r.n = o.n /\ r.msg = o.msg
        /\ r.buf = o.buf /\ r.made = o.made /\ r.id = o.id
    BY <1>object DEF Objects
  <2>2. o.pc = "reset" /\ cl' = [cl EXCEPT ![c] = r] /\ UNCHANGED <<inbox, device, cb, missed>>
    BY <1>5 DEF Reset, pc, network, history
  <2> HIDE DEF r
  <2>3. First(o, inbox[Conn(c)], Given(c), device[Conn(c)])
          => First(r, inbox[Conn(c)], Given(c), device[Conn(c)])
    BY <2>1, <2>2 DEF First, Heard, Asking, Waiting
  <2>4. Settled(o, inbox[Conn(c)], Given(c)) => Settled(r, inbox[Conn(c)], Given(c))
    BY <2>1, <2>2 DEF Settled, Heard, Asking, Waiting
  <2> QED BY <1>stay, <2>1, <2>2, <2>3, <2>4 DEF Active
<1>goes. ASSUME NEW c \in Clients, NEW p \in Waiting, NEW q \in Waiting \cup {"copy"}, Goes(c, p, q),
                q = "copy" => cl[c].flag, UNCHANGED <<map, network, cb, history>>
         PROVE  OwnInv'
  <2> DEFINE o == cl[c] r == [o EXCEPT !.pc = q]
  <2>1. /\ r.pc = q /\ r.flag = o.flag /\ r.call = o.call /\ r.n = o.n /\ r.msg = o.msg
        /\ r.buf = o.buf /\ r.made = o.made /\ r.id = o.id
    BY <1>object DEF Objects
  <2>2. o.pc = p /\ cl' = [cl EXCEPT ![c] = r] /\ UNCHANGED <<inbox, device, cb, missed>>
    BY <1>goes DEF Goes, pc, network, history
  <2> HIDE DEF r
  <2>3. First(o, inbox[Conn(c)], Given(c), device[Conn(c)])
          => First(r, inbox[Conn(c)], Given(c), device[Conn(c)])
    BY <1>goes, <2>1, <2>2 DEF First, Heard, Asking, Waiting
  <2>4. Settled(o, inbox[Conn(c)], Given(c)) => Settled(r, inbox[Conn(c)], Given(c))
    BY <1>goes, <2>1, <2>2 DEF Settled, Heard, Asking, Waiting
  <2> QED BY <1>stay, <2>1, <2>2, <2>3, <2>4 DEF Active, Waiting
<1>6. ASSUME NEW c \in Clients, Check(c) \/ Enter(c) \/ SpuriousWake(c) \/ Timeout(c) PROVE OwnInv'
  <2>1. \E p \in Waiting, q \in Waiting \cup {"copy"} :
            Goes(c, p, q) /\ (q = "copy" => cl[c].flag)
    BY <1>6 DEF Check, Enter, SpuriousWake, Timeout, Waiting
  <2>2. UNCHANGED <<map, network, cb, history>>
    BY <1>6 DEF Check, Enter, SpuriousWake, Timeout
  <2> QED BY <1>goes, <2>1, <2>2
<1>7. ASSUME NEW c \in Clients, FinalTest(c) PROVE OwnInv'
  <2>1. CASE cl[c].flag /\ Goes(c, "final", "copy") /\ UNCHANGED history
    <3>1. UNCHANGED <<map, network, cb, history>>
      BY <1>7, <2>1 DEF FinalTest
    <3> QED BY <1>goes, <2>1, <3>1 DEF Waiting
  <2>2. CASE Finish(c, "RECV_TIMEOUT", cl[c].ver) /\ missed' = missed \cup {Conn(c)}
    <3>1. pc(c) = "final" /\ UNCHANGED <<inbox, device, cb>>
      BY <1>7 DEF FinalTest, network
    <3> QED BY <2>2, <3>1, FinishOwn
  <2> QED BY <1>7, <2>1, <2>2 DEF FinalTest
<1>8. ASSUME NEW c \in Clients, Copy(c) PROVE OwnInv'
  <2> DEFINE o == cl[c] r == [o EXCEPT !.pc = "decide", !.buf = o.msg]
  <2>1. /\ r.pc = "decide" /\ r.flag = o.flag /\ r.call = o.call /\ r.n = o.n /\ r.msg = o.msg
        /\ r.buf = o.msg /\ r.made = o.made /\ r.id = o.id
    BY <1>object DEF Objects
  <2>2. o.pc = "copy" /\ cl' = [cl EXCEPT ![c] = r] /\ UNCHANGED <<inbox, device, cb, missed>>
    BY <1>8 DEF Copy, pc, network, history
  <2> HIDE DEF r
  <2>3. o.call \in {"command", "close"} \/ Given(c) = {}
    BY <1>8 DEF Copy, Given
  <2>4. First(o, inbox[Conn(c)], Given(c), device[Conn(c)])
          => First(r, inbox[Conn(c)], Given(c), device[Conn(c)])
    BY <2>1, <2>2, <2>3 DEF First, Heard, Asking, Waiting
  <2>5. Settled(o, inbox[Conn(c)], Given(c)) => Settled(r, inbox[Conn(c)], Given(c))
    BY <2>1, <2>2 DEF Settled, Heard, Asking, Waiting
  <2> QED BY <1>stay, <2>1, <2>2, <2>4, <2>5 DEF Active
<1>9. ASSUME NEW c \in Clients,
             \/ DecideAnother(c) \/ DecideOpen(c) \/ DecideEnumerate(c) \/ DecideVersion(c)
             \/ DecideCommand(c) \/ DecideClose(c)
      PROVE  OwnInv'
  <2>1. /\ \E calls : Reads(c, calls)
        /\ \E e, v : Finish(c, e, v)
    BY <1>9 DEF DecideAnother, DecideOpen, DecideEnumerate, DecideVersion, DecideCommand, DecideClose
  <2>2. /\ pc(c) = "decide" /\ UNCHANGED <<inbox, device, cb>>
        /\ missed' \in {missed, missed \cup {Conn(c)}}
    BY <2>1 DEF Reads, network
  <2> QED BY <2>1, <2>2, FinishOwn
<1>10. CASE \E c \in Clients :
              \/ StartOpen(c) \/ StartEnumerate(c) \/ StartVersion(c) \/ Command(c) \/ Close(c)
  BY <1>1, <1>3, <1>10 DEF StartOpen, StartEnumerate, StartVersion
<1>11. CASE \E c \in Clients : Step(c)
  BY <1>2, <1>4, <1>5, <1>6, <1>7, <1>8, <1>9, <1>11, ConnectOwn, SendOwn DEF Step
<1>12. CASE \E c \in Clients : Timeout(c) \/ SpuriousWake(c)
  BY <1>6, <1>12
<1>13. CASE \E k \in Conns : Receive(k) \/ Unanswered(k) \/ DeviceLost(k)
  BY <1>13, ReceiveOwn, UnansweredOwn, LostOwn
<1>14. CASE (\E k \in Conns : Drop(k)) \/ UNCHANGED vars
  <2>1. UNCHANGED <<cl, inbox, device, cb, missed>>
    BY <1>14 DEF Drop, vars, history
  <2> QED BY <2>1, DropOwn
<1>15. CASE Deliver
  BY <1>15, DeliverOwn
<1> QED BY <1>10, <1>11, <1>12, <1>13, <1>14, <1>15 DEF Next

\* A call takes the answer to its own request, or is told that the device has been lost; a
\* command takes another one only after an exchange of its connection ended without its own:
\* _send_and_receive with callback_data_bindy, for any clients, servers and commands.
THEOREM AnswersAreOwn == Spec => []AnswerIsOwn
<1>1. OwnInv /\ IInv => AnswerIsOwn
  <2> SUFFICES ASSUME OwnInv, NEW c \in Clients, pc(c) = "decide"
               PROVE  IF cl[c].call \in {"command", "close"}
                        THEN \/ cl[c].buf \notin {Garbage, NoAnswer} /\ cl[c].buf.to = cl[c].n
                             \/ device[Conn(c)] = "lost" \/ Conn(c) \in missed
                        ELSE cl[c].buf \notin {Garbage, NoAnswer} /\ cl[c].buf.to \in {0, cl[c].n}
    BY DEF AnswerIsOwn
  <2>1. \A m, ids : Tells(m, ids) => m \notin {Garbage, NoAnswer} /\ m.to \in ids
    BY ConstantsAssumption DEF Tells, NoAnswer, Message
  <2>2. cl[c].pc = "decide" /\ cl[c].pc \in Active
    BY DEF pc, Active
  <2>3. Own(cl[c], inbox[Conn(c)], Given(c), device[Conn(c)], Conn(c) \in missed)
    BY DEF OwnInv, AllOwn
  <2>4. CASE cl[c].call \in {"command", "close"}
    BY <2>1, <2>2, <2>3, <2>4 DEF Own, Settled
  <2>5. CASE cl[c].call \notin {"command", "close"}
    BY <2>1, <2>2, <2>3, <2>5 DEF Own, First
  <2> QED BY <2>4, <2>5
<1>2. Spec => []OwnInv
  BY InitOwn, NextOwn, Invariance, PTL DEF Spec
<1> QED BY <1>1, <1>2, Invariance, PTL
-----------------------------------------------------------------------------
(* What the search for a version comes to.                                 *)

\* A server of protocol 1 speaks nothing else, and tells nobody its version.
Legacy == \A s \in Servers : 1 \in s.speaks => s.speaks = {1} /\ s.names = {}

\* A message from the server s to a client that speaks version v.
Says(m, v, s) == m \in Message /\ IF v \in s.speaks THEN m.ver = v ELSE m.ver \in s.names

\* A connection has one version.  If the server does not speak it, no device is opened, and
\* what comes names a version that it does.
Agreed(r, q, g, dev, s) ==
    r.pc \in Active =>
        /\ r.ver \notin s.speaks => dev = "closed"
        /\ \A i \in 1 .. Len(q) : q[i].ver = r.ver
        /\ \A m \in g : Says(m, r.ver, s)
        /\ (Heard(r) \/ r.pc = "decide") /\ g = {} => Says(r.msg, r.ver, s)
        /\ r.pc = "decide" /\ r.call \notin {"command", "close"} => Says(r.buf, r.ver, s)

\* What the object has found out.  A server of protocol 1 redirects nobody, but a callback in
\* the middle of its assignment can.
Found(r, s) ==
    /\ r.pc = "new" => r.err = "ok"
    /\ r.pc = "idle" \/ r.call \in {"command", "close"} \/ r.err = "DEVICE" => r.ver \in s.speaks
    /\ r.second => IF 1 \in s.speaks THEN r.ver \notin s.speaks ELSE r.ver \in s.speaks
    /\ r.err # "ANOTHER_PROTOCOL"

AllAgreed == \A c \in Clients : Agreed(cl[c], inbox[Conn(c)], Given(c), device[Conn(c)], server[c])
AllFound == \A c \in Clients : Found(cl[c], server[c])

\* The first exchange of a connection has missed nothing.
Unmissed ==
    /\ \A k \in Conns : k[2] > cl[k[1]].made => k \notin missed
    /\ \A c \in Clients : cl[c].pc \in Active \ {"idle"} /\ cl[c].call \notin {"command", "close"} =>
           Conn(c) \notin missed

LegacyLoses == \A k \in Conns : device[k] = "lost" => 1 \in server[k[1]].speaks

SearchInv == AllAgreed /\ AllFound /\ Unmissed /\ LegacyLoses
-----------------------------------------------------------------------------
LEMMA InitSearch == Init => SearchInv
<1> SUFFICES ASSUME Init PROVE SearchInv
  OBVIOUS
<1>1. \A c \in Clients : cl[c] = Fresh
  BY DEF Init
<1>2. /\ Fresh.pc = "new" /\ Fresh.pc \notin Active /\ Fresh.err = "ok" /\ Fresh.call = "none"
      /\ Fresh.second = FALSE
  BY DEF Fresh, Active
<1>3. AllAgreed /\ AllFound
  BY <1>1, <1>2 DEF AllAgreed, Agreed, AllFound, Found
<1>4. Unmissed
  BY <1>1, <1>2 DEF Init, Unmissed
<1>5. LegacyLoses
  BY DEF Init, LegacyLoses
<1> QED BY <1>3, <1>4, <1>5 DEF SearchInv

\* A step that touches one client and its connections leaves the others what they have.
LEMMA OthersAgree ==
    ASSUME IInv, AllAgreed, NEW c \in Clients, server' = server,
           \A d \in Clients : d # c => cl'[d] = cl[d] /\ Given(d)' = Given(d),
           \A k \in Conns : k[1] # c => inbox'[k] = inbox[k] /\ device'[k] = device[k],
           Agreed(cl[c], inbox[Conn(c)], Given(c), device[Conn(c)], server[c])'
    PROVE  AllAgreed'
<1> SUFFICES ASSUME NEW d \in Clients, d # c
             PROVE  Agreed(cl[d], inbox[Conn(d)], Given(d), device[Conn(d)], server[d])'
  BY DEF AllAgreed
<1>1. Agreed(cl[d], inbox[Conn(d)], Given(d), device[Conn(d)], server[d])
  BY DEF AllAgreed
<1>2. cl'[d] = cl[d] /\ Given(d)' = Given(d) /\ Conn(d)' = Conn(d)
  BY DEF Conn
<1>3. CASE cl[d].pc \notin Active
  BY <1>2, <1>3 DEF Agreed
<1>4. CASE cl[d].pc \in Active
  <2>1. Conn(d) \in Conns /\ Conn(d)[1] # c
    BY <1>4 DEF IInv, Linked, Phase, Shape, Conn
  <2>2. inbox'[Conn(d)] = inbox[Conn(d)] /\ device'[Conn(d)] = device[Conn(d)]
    BY <2>1
  <2> QED BY <1>1, <1>2, <2>2 DEF Agreed
<1> QED BY <1>3, <1>4

\* One client moves on and what is on the wire stays.
Settles(c, r) ==
    /\ cl' = [cl EXCEPT ![c] = r] /\ r.made = cl[c].made
    /\ UNCHANGED <<inbox, device, server, cb>> /\ missed' \in {missed, missed \cup {Conn(c)}}
    /\ Found(r, server[c])
    /\ r.pc \in Active =>
        r.id = cl[c].id /\ Agreed(r, inbox[Conn(c)], Given(c), device[Conn(c)], server[c])
    /\ r.pc \in Active \ {"idle"} /\ r.call \notin {"command", "close"} => Conn(c) \notin missed'

LEMMA SettleKeeps ==
    ASSUME IInv, SearchInv, NEW c \in Clients, NEW r, Settles(c, r)
    PROVE  SearchInv'
<1>1. cl'[c] = r /\ \A d \in Clients : d # c => cl'[d] = cl[d]
  BY DEF Settles, IInv, Shape
<1>2. \A d \in Clients : cl'[d].made = cl[d].made /\ Given(d)' = Given(d)
  BY <1>1 DEF Settles, Given, Assigning
<1>3. LegacyLoses'
  BY DEF Settles, SearchInv, LegacyLoses
<1>4. AllFound'
  BY <1>1 DEF Settles, SearchInv, AllFound
<1>5. r.pc \in Active => Conn(c)' = Conn(c)
  BY <1>1 DEF Settles, Conn
<1>6. Agreed(cl[c], inbox[Conn(c)], Given(c), device[Conn(c)], server[c])'
  <2>1. CASE r.pc \notin Active
    BY <1>1, <2>1 DEF Agreed
  <2>2. CASE r.pc \in Active
    BY <1>1, <1>2, <1>5, <2>2 DEF Settles, Agreed
  <2> QED BY <2>1, <2>2
<1>7. AllAgreed'
  BY <1>1, <1>2, <1>6, OthersAgree DEF SearchInv, Settles
<1>8. Unmissed'
  <2>1. \A k \in Conns : k[1] \in Clients /\ k[2] \in Nat
    BY Pairs
  <2>2. ASSUME NEW k \in Conns, k[2] > cl'[k[1]].made PROVE k \notin missed'
    <3>1. k[2] > cl[k[1]].made /\ k \notin missed
      BY <1>2, <2>1, <2>2 DEF SearchInv, Unmissed
    <3>2. k # Conn(c)
      <4>1. cl[c].id = 0 \/ cl[c].id = cl[c].made
        BY DEF IInv, AllSound, Sound, Identified
      <4>2. cl[c].made \in Nat
        BY DEF IInv, AllSound, Sound, Objects
      <4>3. k = Conn(c) => k[1] = c /\ k[2] = cl[c].id
        BY DEF Conn
      <4>4. k[2] # 0
        BY Pairs
      <4> QED BY <3>1, <4>1, <4>2, <4>3, <4>4
    <3> QED BY <3>1, <3>2 DEF Settles
  <2>3. ASSUME NEW d \in Clients, cl'[d].pc \in Active \ {"idle"},
               cl'[d].call \notin {"command", "close"}
        PROVE  Conn(d)' \notin missed'
    <3>1. CASE d = c
      BY <1>1, <1>5, <2>3, <3>1 DEF Settles
    <3>2. CASE d # c
      <4>1. Conn(d)' = Conn(d) /\ Conn(d) # Conn(c) /\ Conn(d) \notin missed
        BY <1>1, <2>3, <3>2 DEF Conn, SearchInv, Unmissed
      <4> QED BY <4>1 DEF Settles
    <3> QED BY <3>1, <3>2
  <2> QED BY <2>2, <2>3 DEF Unmissed
<1> QED BY <1>3, <1>4, <1>7, <1>8 DEF SearchInv

\* What open and enumerate read off their answer: the version is one that the server speaks,
\* or another one is, and then it is the first chance.
LEMMA VersionRead ==
    ASSUME IInv, OwnInv, SearchInv, Legacy, NEW c \in Clients, pc(c) = "decide",
           cl[c].call \notin {"command", "close"}, NEW v \in VersionIn(cl[c].msg)
    PROVE  /\ v = cl[c].ver => v \in server[c].speaks
           /\ v # cl[c].ver =>
                /\ ~cl[c].second
                /\ IF 1 \in server[c].speaks THEN v \notin server[c].speaks
                                             ELSE v \in server[c].speaks
<1> DEFINE o == cl[c] s == server[c] k == Conn(c)
<1>1. o.pc = "decide" /\ o.pc \in Active /\ o.pc \in Active \ {"idle"}
  BY DEF pc, Active
<1>2. s \in Servers
  BY DEF IInv, Shape
<1>3. s.names \subseteq s.speaks
  BY <1>2, ConstantsAssumption
<1>4. Agreed(o, inbox[k], Given(c), device[k], s) /\ Found(o, s)
  BY DEF SearchInv, AllAgreed, AllFound
<1>5. CASE 1 \in s.speaks
  <2>1. s.speaks = {1} /\ s.names = {}
    BY <1>2, <1>5 DEF Legacy
  <2>2. o.ver \in s.speaks
    BY <1>1, <1>4, <2>1 DEF Agreed, Says
  <2>3. ~o.second
    BY <1>4, <1>5, <2>2 DEF Found
  <2> QED BY <1>5, <2>1, <2>2, <2>3
<1>6. CASE 1 \notin s.speaks
  <2>1. k \in Conns /\ k[1] = c
    BY <1>1 DEF IInv, Linked, Phase, Shape, Conn
  <2>2. device[k] # "lost" /\ k \notin missed
    BY <1>1, <1>6, <2>1 DEF SearchInv, LegacyLoses, Unmissed
  <2>3. Given(c) = {}
    BY <1>1, <2>2 DEF OwnInv, AllOwn, Own, Settled
  <2>4. Says(o.msg, o.ver, s)
    BY <1>1, <1>4, <2>3 DEF Agreed
  <2>5. v = o.msg.ver
    BY <2>4, ConstantsAssumption DEF Says, VersionIn, Message
  <2> QED BY <1>3, <1>4, <1>6, <2>4, <2>5 DEF Says, Found
<1> QED BY <1>5, <1>6

\* The end of an exchange, with an outcome that the answer bears out.
LEMMA FinishSettles ==
    ASSUME IInv, SearchInv, NEW c \in Clients, NEW e, NEW v, Finish(c, e, v),
           pc(c) \in Active, pc(c) # "idle", missed' \in {missed, missed \cup {Conn(c)}},
           UNCHANGED <<inbox, device, server, cb>>,
           e # "ANOTHER_PROTOCOL" => v = cl[c].ver,
           e = "DEVICE" \/ (e = "ok" /\ cl[c].call = "open") => v \in server[c].speaks,
           e = "ANOTHER_PROTOCOL" =>
               /\ cl[c].call \in {"open", "enumerate"} /\ ~cl[c].second
               /\ IF 1 \in server[c].speaks THEN v \notin server[c].speaks
                                            ELSE v \in server[c].speaks
    PROVE  SearchInv'
<1> DEFINE o == cl[c] s == server[c]
<1>1. o \in Objects /\ Found(o, s)
  BY DEF IInv, AllSound, Sound, SearchInv, AllFound
<1>2. Agreed(o, inbox[Conn(c)], Given(c), device[Conn(c)], s)
  BY DEF SearchInv, AllAgreed
<1>3. PICK r : /\ cl' = [cl EXCEPT ![c] = r] /\ r.made = o.made /\ r.id = o.id
               /\ r.pc = "disconnect" \/ (r.pc = "idle" /\ r.ver = o.ver)
               /\ Found(r, s)
  <2>1. CASE Redirect(c, e, v)
    <3> DEFINE r == [o EXCEPT !.pc = "disconnect", !.then = "connect", !.second = TRUE,
                              !.ver = v, !.err = "ok"]
    <3>1. cl' = [cl EXCEPT ![c] = r]
      BY <2>1 DEF Redirect
    <3>2. /\ r.made = o.made /\ r.id = o.id /\ r.pc = "disconnect" /\ r.err = "ok"
          /\ r.ver = v /\ r.second = TRUE /\ r.call = o.call
      BY <1>1 DEF Objects
    <3>3. Found(r, s)
      BY <2>1, <3>2 DEF Redirect, Found
    <3> QED BY <3>1, <3>2, <3>3
  <2>2. CASE TryNext(c, e)
    <3> DEFINE r == [o EXCEPT !.pc = "disconnect", !.err = e,
                              !.then = IF o.tries > 1 THEN "connect" ELSE "deleted",
                              !.tries = o.tries - 1, !.ver = Decrement(o.ver)]
    <3>1. cl' = [cl EXCEPT ![c] = r]
      BY <2>2 DEF TryNext
    <3>2. /\ r.made = o.made /\ r.id = o.id /\ r.pc = "disconnect" /\ r.err = e
          /\ r.second = o.second /\ r.call = o.call
      BY <1>1 DEF Objects
    <3>3. o.call \in {"open", "enumerate"} /\ ~o.second /\ e \in {"RECV_TIMEOUT", "NO_PROTOCOL"}
      BY <2>2 DEF TryNext, Searches, TriesNext
    <3>4. Found(r, s)
      BY <3>2, <3>3 DEF Found
    <3> QED BY <3>1, <3>2, <3>4
  <2>3. CASE Keep(c, e)
    <3> DEFINE r == [o EXCEPT !.pc = "idle", !.err = e]
    <3>1. cl' = [cl EXCEPT ![c] = r]
      BY <2>3 DEF Keep
    <3>2. /\ r.made = o.made /\ r.id = o.id /\ r.pc = "idle" /\ r.err = e /\ r.ver = o.ver
          /\ r.second = o.second
      BY <1>1 DEF Objects
    <3>3. Found(r, s)
      BY <1>1, <2>3, <3>2 DEF Keep, Found
    <3> QED BY <3>1, <3>2, <3>3
  <2>4. CASE GiveUp(c, e, v)
    <3> DEFINE r == [o EXCEPT !.pc = "disconnect", !.then = "deleted", !.ver = v, !.err = e]
    <3>1. cl' = [cl EXCEPT ![c] = r]
      BY <2>4 DEF GiveUp
    <3>2. /\ r.made = o.made /\ r.id = o.id /\ r.pc = "disconnect" /\ r.err = e /\ r.ver = v
          /\ r.second = o.second /\ r.call = o.call
      BY <1>1 DEF Objects
    <3>3. e # "ANOTHER_PROTOCOL" /\ v = o.ver
      BY <2>4 DEF GiveUp, Searches
    <3>4. Found(r, s)
      BY <1>1, <3>2, <3>3 DEF Found
    <3> QED BY <3>1, <3>2, <3>4
  <2> QED BY <2>1, <2>2, <2>3, <2>4 DEF Finish
<1>4. r.pc \in Active => r.pc = "idle"
  BY <1>3 DEF Active
<1>5. r.pc = "idle" => Agreed(r, inbox[Conn(c)], Given(c), device[Conn(c)], s)
  BY <1>2, <1>3 DEF Agreed, Heard, Waiting, pc
<1>6. Settles(c, r)
  BY <1>3, <1>4, <1>5 DEF Settles
<1> QED BY <1>6, SettleKeeps

\* A message is given to c, of the version that c speaks or of one that the server does.
LEMMA GiveSettles ==
    ASSUME IInv, SearchInv, NEW k \in Conns, NEW a \in Message, StartCallback(k, a),
           bindy[k] # "down", UNCHANGED <<server, missed>>, NEW q,
           \A i \in 1 .. Len(q) : \E j \in 1 .. Len(inbox[k]) : q[i] = inbox[k][j],
           inbox'[k] = q, \A j \in Conns : j # k => inbox'[j] = inbox[j] /\ device'[j] = device[j],
           k = Conn(k[1]) /\ pc(k[1]) \in Active =>
               /\ Says(a, cl[k[1]].ver, server[k[1]])
               /\ cl[k[1]].ver \notin server[k[1]].speaks => device'[k] = "closed",
           device'[k] = "lost" => 1 \in server[k[1]].speaks
    PROVE  SearchInv'
<1> DEFINE c == k[1] o == cl[c] r == [o EXCEPT !.msg = Garbage] s == server[c]
<1>1. c \in Clients /\ \A j \in Conns : j[1] \in Clients
  BY Pairs
<1>2. o \in Objects
  BY <1>1 DEF IInv, AllSound, Sound
<1>3. /\ r.pc = o.pc /\ r.call = o.call /\ r.flag = o.flag /\ r.buf = o.buf /\ r.ver = o.ver
      /\ r.id = o.id /\ r.made = o.made /\ r.err = o.err /\ r.second = o.second
  BY <1>2 DEF Objects
<1> HIDE DEF r
<1>4. \/ /\ k \in map /\ k = Conn(c) /\ Given(c) = {} /\ Given(c)' = {a}
         /\ \A d \in Clients : d # c => cl'[d] = cl[d] /\ Given(d)' = Given(d)
         /\ cl'[c] = r
      \/ /\ k \notin map /\ cl' = cl /\ cb' = cb
         /\ cl[c].pc \in Active => k # Conn(c)
  BY CallbackGives DEF r
<1>5. \A d \in Clients : /\ cl'[d].made = cl[d].made /\ cl'[d].pc = cl[d].pc
                         /\ cl'[d].call = cl[d].call /\ cl'[d].id = cl[d].id
                         /\ cl'[d].ver = cl[d].ver /\ cl'[d].err = cl[d].err
                         /\ cl'[d].second = cl[d].second
  BY <1>3, <1>4
<1>6. AllFound'
  BY <1>5 DEF SearchInv, AllFound, Found
<1>7. \A d \in Clients : Conn(d)' = Conn(d)
  BY <1>5 DEF Conn
<1>8. Unmissed'
  BY <1>1, <1>5, <1>7 DEF SearchInv, Unmissed
<1>9. LegacyLoses'
  BY DEF SearchInv, LegacyLoses
<1>10. Agreed(o, inbox[Conn(c)], Given(c), device[Conn(c)], s)
  BY <1>1 DEF SearchInv, AllAgreed
<1>11. Agreed(cl[c], inbox[Conn(c)], Given(c), device[Conn(c)], server[c])'
  <2>1. CASE k \in map
    <3>1. Agreed(r, q, {a}, device'[k], s)
      <4>1. CASE o.pc \in Active
        <5>1. Says(a, o.ver, s) /\ (o.ver \notin s.speaks => device'[k] = "closed")
          BY <1>4, <2>1, <4>1 DEF pc
        <5>2. \A i \in 1 .. Len(q) : q[i].ver = o.ver
          BY <1>4, <1>10, <2>1, <4>1 DEF Agreed
        <5> QED BY <1>3, <1>10, <4>1, <5>1, <5>2 DEF Agreed
      <4>2. CASE o.pc \notin Active
        BY <1>3, <4>2 DEF Agreed
      <4> QED BY <4>1, <4>2
    <3> QED BY <1>1, <1>4, <1>7, <2>1, <3>1
  <2>2. CASE k \notin map
    <3>1. cl' = cl /\ Given(c)' = Given(c) /\ Conn(c)' = Conn(c)
      BY <1>1, <1>4, <1>7, <2>2 DEF Given, Assigning
    <3>2. o.pc \in Active => Conn(c) \in Conns /\ Conn(c) # k
      BY <1>1, <1>4, <2>2 DEF IInv, Linked, Phase, Shape
    <3>3. CASE o.pc \in Active
      BY <1>1, <1>10, <3>1, <3>2, <3>3
    <3>4. CASE o.pc \notin Active
      BY <3>1, <3>4 DEF Agreed
    <3> QED BY <3>3, <3>4
  <2> QED BY <2>1, <2>2
<1>12. AllAgreed'
  <2>1. \A d \in Clients : d # c => cl'[d] = cl[d] /\ Given(d)' = Given(d)
    BY <1>4 DEF Given, Assigning
  <2>2. \A j \in Conns : j[1] # c => inbox'[j] = inbox[j] /\ device'[j] = device[j]
    OBVIOUS
  <2> QED BY <1>1, <1>11, <2>1, <2>2, OthersAgree DEF SearchInv
<1> QED BY <1>6, <1>8, <1>9, <1>12 DEF SearchInv

LEMMA ReceiveSettles ==
    ASSUME IInv, OwnInv, SearchInv, NEW k \in Conns, Receive(k)
    PROVE  SearchInv'
<1> DEFINE c == k[1] q == inbox[k] s == server[c]
<1>1. PICK a \in AnswersTo(k, Head(q)) :
        /\ StartCallback(k, a)
        /\ device' = IF Head(q).call = "open" /\ a.kind = "good"
                       THEN [device EXCEPT ![k] = "open"] ELSE device
  BY DEF Receive
<1>2. /\ bindy[k] # "down" /\ q # <<>> /\ inbox' = [inbox EXCEPT ![k] = Tail(q)]
      /\ UNCHANGED <<server, missed>>
  BY DEF Receive, history
<1>3. a \in Message
  BY <1>2, AnswersAreMessages
<1>4. /\ Len(q) > 0 /\ Len(q) \in Nat /\ Head(q) = q[1]
      /\ \A i \in 1 .. Len(Tail(q)) : i + 1 \in 1 .. Len(q) /\ Tail(q)[i] = q[i + 1]
  BY <1>2, TailOfOne DEF IInv, Shape
<1>5. /\ inbox'[k] = Tail(q) /\ \A j \in Conns : j # k => inbox'[j] = inbox[j] /\ device'[j] = device[j]
      /\ device'[k] = device[k] \/ (a.kind = "good" /\ device'[k] = "open")
  BY <1>1, <1>2 DEF IInv, Shape, OwnInv
<1>6. \A i \in 1 .. Len(Tail(q)) : \E j \in 1 .. Len(q) : Tail(q)[i] = q[j]
  BY <1>4
<1>7. device'[k] = "lost" => 1 \in s.speaks
  BY <1>5 DEF SearchInv, LegacyLoses
<1>8. ASSUME k = Conn(c), pc(c) \in Active
      PROVE  Says(a, cl[c].ver, s) /\ (cl[c].ver \notin s.speaks => device'[k] = "closed")
  <2>1. Agreed(cl[c], q, Given(c), device[k], s) /\ cl[c].pc \in Active
    BY <1>8, Pairs DEF SearchInv, AllAgreed, pc
  <2>2. q[1].ver = cl[c].ver
    BY <1>4, <2>1 DEF Agreed
  <2>3. IF cl[c].ver \in s.speaks THEN a.ver = cl[c].ver ELSE a.ver \in s.names /\ a.kind = "bad"
    BY <1>4, <2>2 DEF AnswersTo, Serves
  <2>4. Says(a, cl[c].ver, s)
    BY <1>3, <2>3 DEF Says
  <2>5. cl[c].ver \notin s.speaks => device[k] = "closed"
    BY <2>1 DEF Agreed
  <2>6. cl[c].ver \notin s.speaks => device'[k] = "closed"
    <3>1. cl[c].ver \notin s.speaks => a.kind # "good"
      BY <2>3
    <3> QED BY <1>5, <2>5, <3>1
  <2> QED BY <2>4, <2>6
<1>9. k = Conn(k[1]) /\ pc(k[1]) \in Active =>
          /\ Says(a, cl[k[1]].ver, server[k[1]])
          /\ cl[k[1]].ver \notin server[k[1]].speaks => device'[k] = "closed"
  BY <1>8
<1>10. UNCHANGED <<server, missed>> /\ bindy[k] # "down" /\ StartCallback(k, a)
  BY <1>1, <1>2
<1>11. inbox'[k] = Tail(q) /\ \A j \in Conns : j # k => inbox'[j] = inbox[j] /\ device'[j] = device[j]
  BY <1>5
<1>12. PICK t : t = Tail(q)
  OBVIOUS
<1>13. /\ \A i \in 1 .. Len(t) : \E j \in 1 .. Len(inbox[k]) : t[i] = inbox[k][j]
       /\ inbox'[k] = t
  BY <1>6, <1>11, <1>12
<1> QED BY <1>3, <1>7, <1>9, <1>10, <1>11, <1>13, GiveSettles

LEMMA LostSettles ==
    ASSUME IInv, OwnInv, SearchInv, Legacy, NEW k \in Conns, DeviceLost(k)
    PROVE  SearchInv'
<1> DEFINE c == k[1] s == server[c]
<1>1. /\ StartCallback(k, Notice) /\ bindy[k] # "down" /\ device[k] = "open" /\ 1 \in s.speaks
      /\ device' = [device EXCEPT ![k] = "lost"] /\ inbox' = inbox /\ UNCHANGED <<server, missed>>
  BY DEF DeviceLost, history, Serves
<1>2. Notice \in Message /\ Notice.ver = 1
  BY DEF Notice, Message
<1>3. device'[k] = "lost" /\ \A j \in Conns : j # k => inbox'[j] = inbox[j] /\ device'[j] = device[j]
  BY <1>1 DEF OwnInv
<1>4. s.speaks = {1}
  BY <1>1, Pairs DEF IInv, Shape, Legacy
<1>5. ASSUME k = Conn(c), pc(c) \in Active
      PROVE  Says(Notice, cl[c].ver, s) /\ cl[c].ver \in s.speaks
  <2>1. Agreed(cl[c], inbox[k], Given(c), device[k], s) /\ cl[c].pc \in Active
    BY <1>5, Pairs DEF SearchInv, AllAgreed, pc
  <2>2. cl[c].ver \in s.speaks
    BY <1>1, <2>1 DEF Agreed
  <2> QED BY <1>2, <1>4, <2>2 DEF Says
<1>6. \A i \in 1 .. Len(inbox[k]) : \E j \in 1 .. Len(inbox[k]) : inbox[k][i] = inbox[k][j]
  OBVIOUS
<1> QED BY <1>1, <1>2, <1>3, <1>5, <1>6, GiveSettles

LEMMA DeliverSettles ==
    ASSUME IInv, SearchInv, Deliver
    PROVE  SearchInv'
<1>1. cb \in [stage : {"assign"}, conn : Conns, ans : Message] /\ cb.stage = "assign"
  <2>1. cb # NoCallback
    BY DEF Deliver, NoCallback
  <2> QED BY <2>1 DEF IInv, Shape, Deliver
<1>2. cb.conn \in Conns
  BY <1>1
<1>3. PICK c \in Clients : c = cb.conn[1]
  BY <1>2, Pairs
<1> DEFINE o == cl[c] p == IF o.pc = "wait" THEN "check" ELSE o.pc
           r == [o EXCEPT !.msg = cb.ans, !.flag = TRUE, !.pc = p]
           q == inbox[Conn(c)] dev == device[Conn(c)] s == server[c]
<1>4. o \in Objects
  BY DEF IInv, AllSound, Sound
<1>5. /\ r.pc = p /\ r.call = o.call /\ r.buf = o.buf /\ r.msg = cb.ans /\ r.id = o.id
      /\ r.made = o.made /\ r.ver = o.ver /\ r.err = o.err /\ r.second = o.second
  <2> HIDE DEF p
  <2> QED BY <1>4 DEF Objects
<1>6. cl' = [cl EXCEPT ![c] = r] /\ cb' = NoCallback /\ UNCHANGED <<inbox, device, server, missed>>
  BY <1>3 DEF Deliver, network, history
<1> HIDE DEF r
<1>7. cl'[c] = r /\ \A d \in Clients : d # c => cl'[d] = cl[d]
  BY <1>6 DEF IInv, Shape
<1>8. Given(c) = {cb.ans} /\ \A d \in Clients : d # c => Given(d) = {}
  BY <1>1, <1>3 DEF Given, Assigning
<1>9. \A d \in Clients : Given(d)' = {}
  BY <1>6 DEF Given, Assigning, NoCallback
<1>10. r.pc \in Active => o.pc \in Active
  BY <1>5 DEF Active
<1>11. r.pc \in Active \ {"idle"} => o.pc \in Active \ {"idle"}
  BY <1>5 DEF Active
<1>12. \A d \in Clients : Conn(d)' = Conn(d) /\ cl'[d].made = cl[d].made
  BY <1>5, <1>7 DEF Conn
<1>13. Agreed(o, q, {cb.ans}, dev, s) /\ Found(o, s)
  BY <1>8 DEF SearchInv, AllAgreed, AllFound
<1>14. Agreed(r, q, {}, dev, s)
  BY <1>5, <1>10, <1>13 DEF Agreed, Heard
<1>15. AllAgreed'
  <2>1. Agreed(cl[c], inbox[Conn(c)], Given(c), device[Conn(c)], server[c])'
    BY <1>6, <1>7, <1>9, <1>12, <1>14
  <2> QED BY <1>6, <1>7, <1>8, <1>9, <2>1, OthersAgree DEF SearchInv
<1>16. AllFound'
  <2>1. Found(r, s)
    BY <1>5, <1>13 DEF Found
  <2> QED BY <1>6, <1>7, <2>1 DEF SearchInv, AllFound
<1>17. Unmissed'
  <2>1. \A k \in Conns : k[1] \in Clients
    BY Pairs
  <2> QED BY <1>5, <1>6, <1>7, <1>11, <1>12, <2>1 DEF SearchInv, Unmissed
<1>18. LegacyLoses'
  BY <1>6 DEF SearchInv, LegacyLoses
<1> QED BY <1>15, <1>16, <1>17, <1>18 DEF SearchInv

LEMMA ConnectSettles ==
    ASSUME IInv, OwnInv, SearchInv, NEW c \in Clients, Connect(c)
    PROVE  SearchInv'
<1> DEFINE o == cl[c] i == o.made + 1 s == server[c]
           r == [o EXCEPT !.pc = "send", !.id = i, !.made = i, !.err = "ok"]
<1>1. o \in Objects /\ o.pc = "connect" /\ Sound(o, tried[c])
  BY DEF IInv, AllSound, Sound, Connect, pc
<1>2. i \in 1 .. 4 /\ o.made \in Nat
  BY <1>1 DEF Sound, Budget, Returning, Spent, Objects
<1>3. /\ r.pc = "send" /\ r.id = i /\ r.made = i /\ r.err = "ok" /\ r.call = o.call
      /\ r.ver = o.ver /\ r.second = o.second
  BY <1>1 DEF Objects
<1>4. /\ cl' = [cl EXCEPT ![c] = r] /\ UNCHANGED <<inbox, device, cb, server, missed>>
      /\ MapFree
  BY DEF Connect, history
<1> HIDE DEF r
<1>5. cl'[c] = r /\ \A d \in Clients : d # c => cl'[d] = cl[d]
  BY <1>4 DEF IInv, Shape
<1>6. \A d \in Clients : Given(d)' = {} /\ Given(d) = {}
  BY <1>4 DEF Given, Assigning, MapFree
<1>7. <<c, i>> \in Conns /\ <<c, i>>[1] = c /\ <<c, i>>[2] = i
  BY <1>2, Pairs
<1>8. inbox[<<c, i>>] = <<>> /\ device[<<c, i>>] = "closed" /\ <<c, i>> \notin missed
  <2>1. i > o.made
    BY <1>2
  <2> QED BY <1>7, <2>1 DEF OwnInv, Untouched, SearchInv, Unmissed
<1>9. Agreed(r, <<>>, {}, "closed", s)
  BY <1>3 DEF Agreed, Heard, Waiting
<1>10. Conn(c)' = <<c, i>> /\ \A d \in Clients : d # c => Conn(d)' = Conn(d)
  BY <1>3, <1>5 DEF Conn
<1>11. AllAgreed'
  <2>1. Agreed(cl[c], inbox[Conn(c)], Given(c), device[Conn(c)], server[c])'
    BY <1>4, <1>5, <1>6, <1>8, <1>9, <1>10
  <2> QED BY <1>4, <1>5, <1>6, <2>1, OthersAgree DEF SearchInv
<1>12. AllFound'
  <2>1. Found(o, s)
    BY DEF SearchInv, AllFound
  <2>2. Found(r, s)
    BY <1>3, <2>1 DEF Found
  <2> QED BY <1>4, <1>5, <2>2 DEF SearchInv, AllFound
<1>13. Unmissed'
  <2>1. \A k \in Conns : k[1] \in Clients /\ k[2] \in Nat
    BY Pairs
  <2>2. \A k \in Conns : k[2] > cl'[k[1]].made => k[2] > cl[k[1]].made
    BY <1>2, <1>3, <1>5, <2>1
  <2>3. \A d \in Clients : cl'[d].pc \in Active \ {"idle"} /\ cl'[d].call \notin {"command", "close"}
            => Conn(d)' \notin missed
    BY <1>5, <1>8, <1>10 DEF SearchInv, Unmissed
  <2> QED BY <1>4, <2>2, <2>3 DEF SearchInv, Unmissed
<1>14. LegacyLoses'
  BY <1>4 DEF SearchInv, LegacyLoses
<1> QED BY <1>11, <1>12, <1>13, <1>14 DEF SearchInv

LEMMA SendSettles ==
    ASSUME IInv, SearchInv, NEW c \in Clients, Send(c)
    PROVE  SearchInv'
<1> DEFINE o == cl[c] k == Conn(c) q == inbox[k] dev == device[k] s == server[c]
           m == [n |-> o.n + 1, call |-> o.call, ver |-> o.ver]
           r == [o EXCEPT !.pc = "reset", !.n = o.n + 1]
<1>1. o \in Objects /\ o.pc = "send"
  BY DEF IInv, AllSound, Sound, Send, pc
<1>2. m.ver = o.ver
  OBVIOUS
<1>3. /\ r.pc = "reset" /\ r.call = o.call /\ r.id = o.id /\ r.made = o.made /\ r.ver = o.ver
      /\ r.err = o.err /\ r.second = o.second
  BY <1>1 DEF Objects
<1>4. /\ cl' = [cl EXCEPT ![c] = r] /\ UNCHANGED <<device, cb, server, missed>>
      /\ inbox' = [inbox EXCEPT ![k] = Append(q, m)]
  BY DEF Send, history
<1> HIDE DEF r, m
<1>5. k \in Conns /\ k[1] = c
  BY <1>1 DEF IInv, Linked, Phase, Active, Shape, Conn
<1>6. q \in Seq(Request)
  BY <1>5 DEF IInv, Shape
<1>7. cl'[c] = r /\ \A d \in Clients : d # c => cl'[d] = cl[d]
  BY <1>4 DEF IInv, Shape
<1>8. inbox'[k] = Append(q, m) /\ \A j \in Conns : j # k => inbox'[j] = inbox[j]
  BY <1>4, <1>5 DEF IInv, Shape
<1>9. \A d \in Clients : Given(d)' = Given(d) /\ Conn(d)' = Conn(d) /\ cl'[d].made = cl[d].made
  BY <1>3, <1>4, <1>7 DEF Given, Assigning, Conn
<1>10. /\ Len(Append(q, m)) = Len(q) + 1 /\ Append(q, m)[Len(q) + 1] = m /\ Len(q) \in Nat
       /\ \A i \in 1 .. Len(q) : Append(q, m)[i] = q[i]
  BY <1>6
<1>11. Agreed(o, q, Given(c), dev, s) /\ Found(o, s) /\ o.pc \in Active \ {"idle"}
  BY <1>1 DEF SearchInv, AllAgreed, AllFound, Active
<1>12. \A i \in 1 .. Len(Append(q, m)) : Append(q, m)[i].ver = o.ver
  <2>1. \A i \in 1 .. Len(q) : q[i].ver = o.ver
    BY <1>11 DEF Agreed
  <2> QED BY <1>2, <1>10, <2>1
<1>13. Agreed(r, Append(q, m), Given(c), dev, s)
  BY <1>3, <1>11, <1>12 DEF Agreed, Heard, Waiting
<1>14. AllAgreed'
  <2>1. Agreed(cl[c], inbox[Conn(c)], Given(c), device[Conn(c)], server[c])'
    BY <1>4, <1>7, <1>8, <1>9, <1>13
  <2> QED BY <1>4, <1>5, <1>7, <1>8, <1>9, <2>1, OthersAgree DEF SearchInv
<1>15. AllFound'
  <2>1. Found(r, s)
    BY <1>3, <1>11 DEF Found
  <2> QED BY <1>4, <1>7, <2>1 DEF SearchInv, AllFound
<1>16. Unmissed'
  <2>1. \A j \in Conns : j[1] \in Clients
    BY Pairs
  <2> QED BY <1>3, <1>4, <1>7, <1>9, <1>11, <2>1 DEF SearchInv, Unmissed
<1>17. LegacyLoses'
  BY <1>4 DEF SearchInv, LegacyLoses
<1> QED BY <1>14, <1>15, <1>16, <1>17 DEF SearchInv

LEMMA UnansweredSettles ==
    ASSUME IInv, SearchInv, NEW k \in Conns, Unanswered(k)
    PROVE  SearchInv'
<1> DEFINE q == inbox[k] c == k[1]
<1>1. /\ q # <<>> /\ inbox' = [inbox EXCEPT ![k] = Tail(q)]
      /\ UNCHANGED <<cl, device, cb, server, missed>>
  BY DEF Unanswered, history
<1>2. \A i \in 1 .. Len(Tail(q)) : i + 1 \in 1 .. Len(q) /\ Tail(q)[i] = q[i + 1]
  BY <1>1, TailOfOne DEF IInv, Shape
<1>3. inbox'[k] = Tail(q) /\ \A j \in Conns : j # k => inbox'[j] = inbox[j]
  BY <1>1 DEF IInv, Shape
<1>4. c \in Clients /\ \A d \in Clients : Given(d)' = Given(d) /\ Conn(d)' = Conn(d)
  BY <1>1, Pairs DEF Given, Assigning, Conn
<1>5. Agreed(cl[c], inbox[Conn(c)], Given(c), device[Conn(c)], server[c])'
  <2>1. Agreed(cl[c], inbox[Conn(c)], Given(c), device[Conn(c)], server[c])
    BY <1>4 DEF SearchInv, AllAgreed
  <2>2. cl[c].pc \in Active => Conn(c) \in Conns
    BY <1>4 DEF IInv, Linked, Phase, Shape
  <2>3. CASE Conn(c) = k
    <3>1. Agreed(cl[c], Tail(q), Given(c), device[k], server[c])
      BY <1>2, <2>1, <2>3 DEF Agreed
    <3> QED BY <1>1, <1>3, <1>4, <2>3, <3>1
  <2>4. CASE Conn(c) # k
    BY <1>1, <1>3, <1>4, <2>1, <2>2, <2>4 DEF Agreed
  <2> QED BY <2>3, <2>4
<1>6. AllAgreed'
  BY <1>1, <1>3, <1>4, <1>5, OthersAgree DEF SearchInv
<1>7. AllFound' /\ Unmissed' /\ LegacyLoses'
  BY <1>1, <1>4 DEF SearchInv, AllFound, Unmissed, LegacyLoses
<1> QED BY <1>6, <1>7 DEF SearchInv

\* Every step keeps it, with servers as they are.
LEMMA NextSettles == Legacy /\ IInv /\ OwnInv /\ SearchInv /\ [Next]_vars => SearchInv'
<1> SUFFICES ASSUME Legacy, IInv, OwnInv, SearchInv, [Next]_vars PROVE SearchInv'
  OBVIOUS
<1>object. \A c \in Clients : cl[c] \in Objects
  BY DEF IInv, AllSound, Sound
<1>found. \A c \in Clients :
            /\ Found(cl[c], server[c])
            /\ Agreed(cl[c], inbox[Conn(c)], Given(c), device[Conn(c)], server[c])
            /\ cl[c].pc \in Active \ {"idle"} /\ cl[c].call \notin {"command", "close"} =>
                   Conn(c) \notin missed
  BY DEF SearchInv, AllFound, AllAgreed, Unmissed
\* The client goes off, or starts, and keeps nothing.
<1>leave. ASSUME NEW c \in Clients, NEW r, cl' = [cl EXCEPT ![c] = r], r.made = cl[c].made,
                 r.pc \notin Active, Found(r, server[c]),
                 UNCHANGED <<inbox, device, server, cb, missed>>
          PROVE  SearchInv'
  <2>1. Settles(c, r)
    BY <1>leave DEF Settles
  <2> QED BY <2>1, SettleKeeps
\* The client stays on its connection.
<1>stay. ASSUME NEW c \in Clients, NEW r, cl' = [cl EXCEPT ![c] = r], r.made = cl[c].made,
                r.id = cl[c].id, cl[c].pc \in Active, Found(r, server[c]),
                UNCHANGED <<inbox, device, server, cb, missed>>,
                Agreed(r, inbox[Conn(c)], Given(c), device[Conn(c)], server[c]),
                r.call \in {"command", "close"} \/ (r.call = cl[c].call /\ cl[c].pc # "idle")
         PROVE  SearchInv'
  <2>1. Settles(c, r)
    BY <1>found, <1>stay DEF Settles
  <2> QED BY <2>1, SettleKeeps
<1>1. ASSUME NEW c \in Clients, NEW call \in {"open", "enumerate", "version"}, NEW v,
             Start(c, call, v)
      PROVE  SearchInv'
  <2> DEFINE o == cl[c]
             r == [o EXCEPT !.pc = "connect", !.call = call, !.tries = LastVersion, !.ver = v]
  <2>1. /\ r.made = o.made /\ r.pc = "connect" /\ r.call = call /\ r.ver = v /\ r.err = o.err
        /\ r.second = o.second
    BY <1>object DEF Objects
  <2>2. /\ cl' = [cl EXCEPT ![c] = r] /\ UNCHANGED <<inbox, device, server, cb, missed>>
        /\ o.pc = "new"
    BY <1>1 DEF Start, network, history, pc
  <2> HIDE DEF r
  <2>3. o.err = "ok" /\ ~o.second
    BY <1>found, <2>2 DEF Found, IInv, AllSound, Sound, Budget
  <2>4. Found(r, server[c])
    BY <2>1, <2>3 DEF Found
  <2> QED BY <1>leave, <2>1, <2>2, <2>4 DEF Active
<1>2. ASSUME NEW c \in Clients, ConnectFails(c) \/ Disconnect(c) \/ Erase(c) PROVE SearchInv'
  <2> DEFINE o == cl[c]
  <2>1. o.then \in {"connect", "deleted"} /\ o.pc \in {"connect", "disconnect", "erase"}
    BY <1>2, <1>object DEF Objects, ConnectFails, Disconnect, Erase, pc
  <2>2. PICK r : /\ cl' = [cl EXCEPT ![c] = r] /\ r.made = o.made
                 /\ r.pc \in {"connect", "deleted", "erase"} /\ r.call = o.call /\ r.ver = o.ver
                 /\ r.second = o.second /\ (r.err = o.err \/ r.err = "NO_CONNECTION")
    <3>1. CASE cl' = [cl EXCEPT ![c].pc = "deleted", ![c].err = "NO_CONNECTION"]
      <4> DEFINE r == [o EXCEPT !.pc = "deleted", !.err = "NO_CONNECTION"]
      <4>1. /\ r.made = o.made /\ r.pc = "deleted" /\ r.call = o.call /\ r.ver = o.ver
            /\ r.second = o.second /\ r.err = "NO_CONNECTION"
        BY <1>object DEF Objects
      <4> QED BY <3>1, <4>1
    <3>2. CASE cl' = [cl EXCEPT ![c].pc = "erase"]
      <4> DEFINE r == [o EXCEPT !.pc = "erase"]
      <4>1. /\ r.made = o.made /\ r.pc = "erase" /\ r.call = o.call /\ r.ver = o.ver
            /\ r.second = o.second /\ r.err = o.err
        BY <1>object DEF Objects
      <4> QED BY <3>2, <4>1
    <3>3. CASE cl' = [cl EXCEPT ![c].pc = o.then, ![c].id = 0]
      <4> DEFINE r == [o EXCEPT !.pc = o.then, !.id = 0]
      <4>1. /\ r.made = o.made /\ r.pc = o.then /\ r.call = o.call /\ r.ver = o.ver
            /\ r.second = o.second /\ r.err = o.err
        BY <1>object DEF Objects
      <4> QED BY <2>1, <3>3, <4>1
    <3> QED BY <1>2, <3>1, <3>2, <3>3 DEF ConnectFails, Disconnect, Erase
  <2>3. UNCHANGED <<inbox, device, server, cb, missed>>
    BY <1>2 DEF ConnectFails, Disconnect, Erase, network, history
  <2>4. Found(r, server[c])
    BY <1>found, <2>2 DEF Found
  <2> QED BY <1>leave, <2>2, <2>3, <2>4 DEF Active
<1>3. ASSUME NEW c \in Clients, Command(c) \/ Close(c) PROVE SearchInv'
  <2> DEFINE o == cl[c]
  <2>1. o.pc = "idle" /\ UNCHANGED <<inbox, device, server, cb, missed>>
    BY <1>3 DEF Command, Close, pc, network, history
  <2>2. PICK r : /\ cl' = [cl EXCEPT ![c] = r] /\ r.made = o.made /\ r.id = o.id /\ r.pc = "send"
                 /\ r.call \in {"command", "close"} /\ r.ver = o.ver /\ r.second = o.second
                 /\ r.err = "ok"
    <3>1. CASE Command(c)
      <4> DEFINE r == [o EXCEPT !.pc = "send", !.call = "command", !.err = "ok", !.left = o.left - 1]
      <4>1. cl' = [cl EXCEPT ![c] = r]
        BY <3>1 DEF Command
      <4>2. /\ r.made = o.made /\ r.id = o.id /\ r.pc = "send" /\ r.call = "command"
            /\ r.ver = o.ver /\ r.second = o.second /\ r.err = "ok"
        BY <1>object DEF Objects
      <4> QED BY <4>1, <4>2
    <3>2. CASE Close(c)
      <4> DEFINE r == [o EXCEPT !.pc = "send", !.call = "close", !.err = "ok"]
      <4>1. cl' = [cl EXCEPT ![c] = r]
        BY <3>2 DEF Close
      <4>2. /\ r.made = o.made /\ r.id = o.id /\ r.pc = "send" /\ r.call = "close"
            /\ r.ver = o.ver /\ r.second = o.second /\ r.err = "ok"
        BY <1>object DEF Objects
      <4> QED BY <4>1, <4>2
    <3> QED BY <1>3, <3>1, <3>2
  <2>3. o.ver \in server[c].speaks
    BY <1>found, <2>1 DEF Found
  <2>4. Found(r, server[c])
    BY <1>found, <2>2, <2>3 DEF Found
  <2>5. o.pc \in Active
    BY <2>1 DEF Active
  <2>6. Agreed(r, inbox[Conn(c)], Given(c), device[Conn(c)], server[c])
    BY <1>found, <2>2, <2>5 DEF Agreed, Heard, Waiting
  <2> QED BY <1>stay, <2>1, <2>2, <2>4, <2>5, <2>6
<1>same. ASSUME NEW c \in Clients, NEW r, cl' = [cl EXCEPT ![c] = r], r.made = cl[c].made,
                r.id = cl[c].id, cl[c].pc \in Active \ {"idle"}, r.pc \in Active \ {"idle"},
                r.call = cl[c].call, r.ver = cl[c].ver, r.err = cl[c].err,
                r.second = cl[c].second, UNCHANGED <<inbox, device, server, cb, missed>>,
                (Heard(r) \/ r.pc = "decide") /\ Given(c) = {} =>
                    Says(r.msg, r.ver, server[c]),
                r.pc = "decide" /\ r.call \notin {"command", "close"} =>
                    Says(r.buf, r.ver, server[c])
         PROVE  SearchInv'
  <2>1. Found(r, server[c])
    BY <1>found, <1>same DEF Found, Active
  <2>2. Agreed(r, inbox[Conn(c)], Given(c), device[Conn(c)], server[c])
    BY <1>found, <1>same DEF Agreed
  <2> QED BY <1>stay, <1>same, <2>1, <2>2
<1>4. ASSUME NEW c \in Clients, CannotAsk(c) \/ SendFails(c) PROVE SearchInv'
  <2>1. /\ pc(c) = "send" /\ UNCHANGED <<inbox, device, server, cb, missed>>
        /\ \E e \in {"NO_PROTOCOL", "SEND_DATA", "NO_CONNECTION"} : Finish(c, e, cl[c].ver)
    BY <1>4 DEF CannotAsk, SendFails, network
  <2> QED BY <2>1, FinishSettles DEF Active
<1>5. ASSUME NEW c \in Clients, Reset(c) PROVE SearchInv'
  <2> DEFINE o == cl[c] r == [o EXCEPT !.pc = "check", !.flag = FALSE]
  <2>1. /\ r.pc = "check" /\ r.flag = FALSE /\ r.call = o.call /\ r.ver = o.ver /\ r.err = o.err
        /\ r.second = o.second /\ r.made = o.made /\ r.id = o.id
    BY <1>object DEF Objects
  <2>2. o.pc = "reset" /\ cl' = [cl EXCEPT ![c] = r] /\ UNCHANGED <<inbox, device, server, cb, missed>>
    BY <1>5 DEF Reset, pc, network, history
  <2> HIDE DEF r
  <2>3. ~Heard(r)
    BY <2>1 DEF Heard, Waiting
  <2> QED BY <1>same, <2>1, <2>2, <2>3 DEF Active
<1>goes. ASSUME NEW c \in Clients, NEW p \in Waiting, NEW q \in Waiting \cup {"copy"}, Goes(c, p, q),
                q = "copy" => cl[c].flag, UNCHANGED <<map, network, cb, history>>
         PROVE  SearchInv'
  <2> DEFINE o == cl[c] r == [o EXCEPT !.pc = q]
  <2>1. /\ r.pc = q /\ r.flag = o.flag /\ r.call = o.call /\ r.ver = o.ver /\ r.msg = o.msg
        /\ r.err = o.err /\ r.second = o.second /\ r.made = o.made /\ r.id = o.id
    BY <1>object DEF Objects
  <2>2. o.pc = p /\ cl' = [cl EXCEPT ![c] = r] /\ UNCHANGED <<inbox, device, server, cb, missed>>
    BY <1>goes DEF Goes, pc, network, history
  <2> HIDE DEF r
  <2>3. o.pc \in Active \ {"idle"} /\ r.pc \in Active \ {"idle"} /\ r.pc # "decide"
    BY <2>1, <2>2 DEF Active, Waiting
  <2>4. Heard(r) => Heard(o)
    BY <1>goes, <2>1, <2>2 DEF Heard
  <2>5. Heard(r) /\ Given(c) = {} => Says(r.msg, r.ver, server[c])
    BY <1>found, <2>1, <2>3, <2>4 DEF Agreed
  <2> QED BY <1>same, <2>1, <2>2, <2>3, <2>5
<1>6. ASSUME NEW c \in Clients, Check(c) \/ Enter(c) \/ SpuriousWake(c) \/ Timeout(c) PROVE SearchInv'
  <2>1. \E p \in Waiting, q \in Waiting \cup {"copy"} :
            Goes(c, p, q) /\ (q = "copy" => cl[c].flag)
    BY <1>6 DEF Check, Enter, SpuriousWake, Timeout, Waiting
  <2>2. UNCHANGED <<map, network, cb, history>>
    BY <1>6 DEF Check, Enter, SpuriousWake, Timeout
  <2> QED BY <1>goes, <2>1, <2>2
<1>7. ASSUME NEW c \in Clients, FinalTest(c) PROVE SearchInv'
  <2>1. CASE cl[c].flag /\ Goes(c, "final", "copy") /\ UNCHANGED history
    <3>1. UNCHANGED <<map, network, cb, history>>
      BY <1>7, <2>1 DEF FinalTest
    <3> QED BY <1>goes, <2>1, <3>1 DEF Waiting
  <2>2. CASE Finish(c, "RECV_TIMEOUT", cl[c].ver) /\ missed' = missed \cup {Conn(c)}
    <3>1. pc(c) = "final" /\ UNCHANGED <<inbox, device, server, cb>>
      BY <1>7 DEF FinalTest, network
    <3> QED BY <2>2, <3>1, FinishSettles DEF Active
  <2> QED BY <1>7, <2>1, <2>2 DEF FinalTest
<1>8. ASSUME NEW c \in Clients, Copy(c) PROVE SearchInv'
  <2> DEFINE o == cl[c] r == [o EXCEPT !.pc = "decide", !.buf = o.msg]
  <2>1. /\ r.pc = "decide" /\ r.call = o.call /\ r.ver = o.ver /\ r.msg = o.msg /\ r.buf = o.msg
        /\ r.err = o.err /\ r.second = o.second /\ r.made = o.made /\ r.id = o.id
    BY <1>object DEF Objects
  <2>2. o.pc = "copy" /\ cl' = [cl EXCEPT ![c] = r] /\ UNCHANGED <<inbox, device, server, cb, missed>>
    BY <1>8 DEF Copy, pc, network, history
  <2> HIDE DEF r
  <2>3. o.call \in {"command", "close"} \/ Given(c) = {}
    BY <1>8 DEF Copy, Given
  <2>4. o.pc \in Active \ {"idle"} /\ r.pc \in Active \ {"idle"} /\ Heard(o)
    BY <2>1, <2>2 DEF Active, Heard
  <2>5. Given(c) = {} => Says(o.msg, o.ver, server[c])
    BY <1>found, <2>4 DEF Agreed
  <2> QED BY <1>same, <2>1, <2>2, <2>3, <2>4, <2>5
<1>reads. ASSUME NEW c \in Clients, NEW calls, Reads(c, calls)
          PROVE  /\ pc(c) = "decide" /\ pc(c) \in Active /\ pc(c) # "idle"
                 /\ cl[c].call \in calls /\ UNCHANGED <<inbox, device, server, cb>>
                 /\ missed' \in {missed, missed \cup {Conn(c)}}
                 /\ Verdicts(c, cl[c].buf) \subseteq {"ok", "DEVICE"}
  BY <1>reads DEF Reads, network, Active, Verdicts
<1>9. ASSUME NEW c \in Clients, DecideAnother(c) PROVE SearchInv'
  <2>1. Reads(c, {"open", "enumerate"})
    BY <1>9 DEF DecideAnother
  <2>2. PICK v \in VersionIn(cl[c].msg) : v # cl[c].ver /\ Finish(c, "ANOTHER_PROTOCOL", v)
    BY <1>9 DEF DecideAnother
  <2>3. /\ ~cl[c].second
        /\ IF 1 \in server[c].speaks THEN v \notin server[c].speaks ELSE v \in server[c].speaks
    BY <1>reads, <2>1, <2>2, VersionRead
  <2> QED BY <1>reads, <2>1, <2>2, <2>3, FinishSettles
<1>10. ASSUME NEW c \in Clients, DecideOpen(c) \/ DecideEnumerate(c) PROVE SearchInv'
  <2>1. Reads(c, {"open", "enumerate"}) /\ cl[c].ver \in VersionIn(cl[c].msg)
    BY <1>10 DEF DecideOpen, DecideEnumerate, Reads
  <2>2. PICK e \in Verdicts(c, cl[c].buf) : Finish(c, e, cl[c].ver)
    BY <1>10 DEF DecideOpen, DecideEnumerate
  <2>3. cl[c].ver \in server[c].speaks
    BY <1>reads, <2>1, VersionRead
  <2>4. e # "ANOTHER_PROTOCOL"
    BY <1>reads, <2>1
  <2> QED BY <1>reads, <2>1, <2>2, <2>3, <2>4, FinishSettles
<1>11. ASSUME NEW c \in Clients, DecideVersion(c) PROVE SearchInv'
  <2>1. Reads(c, {"version"})
    BY <1>11 DEF DecideVersion
  <2>2. PICK e \in {"ok", "NO_PROTOCOL"} : Finish(c, e, cl[c].ver)
    BY <1>11 DEF DecideVersion
  <2> QED BY <1>reads, <2>1, <2>2, FinishSettles
<1>12. ASSUME NEW c \in Clients, DecideCommand(c) \/ DecideClose(c) PROVE SearchInv'
  <2>1. Reads(c, {"command", "close"})
    BY <1>12 DEF DecideCommand, DecideClose, Reads
  <2>2. PICK e \in Verdicts(c, cl[c].buf) : Finish(c, e, cl[c].ver)
    BY <1>12 DEF DecideCommand, DecideClose
  <2>3. cl[c].ver \in server[c].speaks
    BY <1>found, <1>reads, <2>1 DEF Found
  <2>4. e # "ANOTHER_PROTOCOL"
    BY <1>reads, <2>1
  <2> QED BY <1>reads, <2>1, <2>2, <2>3, <2>4, FinishSettles
<1>13. CASE \E c \in Clients :
              \/ StartOpen(c) \/ StartEnumerate(c) \/ StartVersion(c) \/ Command(c) \/ Close(c)
  BY <1>1, <1>3, <1>13 DEF StartOpen, StartEnumerate, StartVersion
<1>14. CASE \E c \in Clients : Step(c)
  BY <1>2, <1>4, <1>5, <1>6, <1>7, <1>8, <1>9, <1>10, <1>11, <1>12, <1>14, ConnectSettles,
     SendSettles DEF Step
<1>15. CASE \E c \in Clients : Timeout(c) \/ SpuriousWake(c)
  BY <1>6, <1>15
<1>16. CASE \E k \in Conns : Receive(k) \/ Unanswered(k) \/ DeviceLost(k)
  BY <1>16, ReceiveSettles, UnansweredSettles, LostSettles
<1>17. CASE (\E k \in Conns : Drop(k)) \/ UNCHANGED vars
  <2>1. UNCHANGED <<cl, inbox, device, server, cb, missed>>
    BY <1>17 DEF Drop, vars, network, history
  <2>2. \A c \in Clients : Conn(c)' = Conn(c) /\ Given(c)' = Given(c)
    BY <2>1 DEF Conn, Given, Assigning
  <2>3. AllAgreed'
    BY <2>1, <2>2 DEF SearchInv, AllAgreed
  <2> QED BY <2>1, <2>2, <2>3 DEF SearchInv, AllFound, Unmissed, LegacyLoses
<1>18. CASE Deliver
  BY <1>18, DeliverSettles
<1> QED BY <1>13, <1>14, <1>15, <1>16, <1>17, <1>18 DEF Next

\* A handle speaks a version that its server speaks, a refusal comes from such a server, and
\* ERR_ANOTHER_PROTOCOL reaches no caller: the loops of xibridge.cpp, for any clients and
\* commands, and any servers of which those of protocol 1 are like ximc's.  The search does
\* not settle otherwise: the notice of a lost device has version 1, and get_version_of_cmd
\* takes it for the version of the answer.
THEOREM SearchSettles ==
    ASSUME Legacy
    PROVE  Spec => []NegotiationSettles
<1>1. SearchInv => NegotiationSettles
  <2> SUFFICES ASSUME SearchInv, NEW c \in Clients
               PROVE  /\ \/ pc(c) = "idle"
                         \/ pc(c) = "deleted" /\ cl[c].err = "DEVICE"
                         => cl[c].ver \in server[c].speaks
                      /\ pc(c) \in {"idle", "deleted"} => cl[c].err # "ANOTHER_PROTOCOL"
    BY DEF NegotiationSettles
  <2> QED BY DEF SearchInv, AllFound, Found, pc
<1>2. Spec => []SearchInv
  <2>1. IInv /\ OwnInv /\ SearchInv /\ [Next]_vars => SearchInv'
    BY NextSettles
  <2>2. Spec => []OwnInv
    BY InitOwn, NextOwn, Invariance, PTL DEF Spec
  <2> QED BY InitSearch, <2>1, <2>2, Invariance, PTL DEF Spec
<1> QED BY <1>1, <1>2, PTL
-----------------------------------------------------------------------------
(* The values of the variables.                                            *)

KnownVersions == {0} \cup Versions \cup ServerVersions
Known == Answers \cup {Garbage}

\* An object sends one request for every connection it makes, one for every command, and one
\* to close.
Due(r) == r.made + (MaxCommands - r.left) + IF r.call = "close" THEN 1 ELSE 0
Counted(r) == r.left <= MaxCommands /\ r.n + (IF r.pc = "send" THEN 1 ELSE 0) <= Due(r)

\* An object is in a call from its start on, and between two when it is idle.
InCall(r) ==
    /\ r.pc = "new" => r.call = "none"
    /\ r.pc # "new" => r.call # "none"
    /\ r.pc = "idle" => r.call \in {"open", "command"}

Fits(r) == r.ver \in KnownVersions /\ r.msg \in Known /\ r.buf \in Known /\ Counted(r) /\ InCall(r)
AllFits == \A c \in Clients : Fits(cl[c])

Ask == [n : 1 .. MaxRequests, call : Calls, ver : Versions]

TypeInv ==
    /\ AllFits
    /\ inbox \in [Conns -> Seq(Ask)]
    /\ device \in [Conns -> {"closed", "open", "lost"}]
    /\ cb \in {NoCallback} \cup [stage : {"assign"}, conn : Conns, ans : Answers]
    /\ missed \subseteq Conns

\* The step changes one object, which fits afterwards.
OneFits(c) == Fits(cl'[c]) /\ \A d \in Clients : d # c => cl'[d] = cl[d]

LEMMA OneKeeps ==
    ASSUME AllFits, NEW c \in Clients, OneFits(c)
    PROVE  AllFits'
BY DEF OneFits, AllFits

-----------------------------------------------------------------------------
\* What the numbers of requests and versions are.
LEMMA Numbers ==
    /\ MaxRequests = 5 + MaxCommands /\ MaxCommands \in Nat
    /\ 0 \in KnownVersions /\ 1 \in KnownVersions /\ Versions \subseteq KnownVersions
    /\ \A s \in Servers : s.speaks \subseteq ServerVersions /\ s.names \subseteq ServerVersions
    /\ ServerVersions \subseteq KnownVersions
<1>1. MaxRequests = 5 + MaxCommands /\ MaxCommands \in Nat
  BY ConstantsAssumption DEF MaxRequests, LastVersion
<1>2. \A s \in Servers : s.speaks \subseteq ServerVersions /\ s.names \subseteq ServerVersions
  BY ConstantsAssumption DEF ServerVersions
<1> QED BY <1>1, <1>2 DEF KnownVersions, Versions, LastVersion

LEMMA KnownValues ==
    /\ NoAnswer \in Known /\ Garbage \in Known /\ Notice \in Answers
    /\ \A m \in Known : VersionIn(m) \subseteq KnownVersions
<1>1. NoAnswer \in Answers /\ Notice \in Answers
  BY Numbers DEF NoAnswer, Notice, Answers
<1>2. \A m \in Known : VersionIn(m) \subseteq KnownVersions
  BY Numbers DEF Known, Answers, VersionIn, KnownVersions
<1> QED BY <1>1, <1>2 DEF Known

\* The object before a step.
LEMMA ObjectFits ==
    ASSUME IInv, TypeInv, NEW c \in Clients
    PROVE  cl[c] \in Objects /\ Fits(cl[c]) /\ cl = [d \in Clients |-> cl[d]]
BY DEF IInv, TypeInv, AllFits, AllSound, Sound, Shape

\* The fields that a step leaves alone.
Rest(r, o) == /\ r.n = o.n /\ r.left = o.left /\ r.made = o.made /\ r.call = o.call
              /\ r.msg = o.msg /\ r.buf = o.buf

\* A call comes to its outcome.
LEMMA FinishFits ==
    ASSUME IInv, TypeInv, NEW c \in Clients, NEW e, NEW v \in KnownVersions,
           pc(c) \in Active, Finish(c, e, v)
    PROVE  OneFits(c)
<1>1. PICK o \in Objects : o = cl[c] /\ Fits(o) /\ cl = [d \in Clients |-> cl[d]]
  BY ObjectFits
<1>2. o.pc \in Active /\ o.pc # "new"
  BY <1>1 DEF pc, Active
<1>3. ASSUME NEW r, cl' = [cl EXCEPT ![c] = r], Rest(r, o), r.ver \in KnownVersions,
             r.pc = "disconnect" \/ (r.pc = "idle" /\ o.call \in {"open", "command"})
      PROVE  OneFits(c)
  <2>1. cl'[c] = r /\ \A d \in Clients : d # c => cl'[d] = cl[d]
    BY <1>1, <1>3
  <2>2. Counted(r)
    BY <1>1, <1>3, Numbers DEF Fits, Counted, Due, Rest, Objects
  <2>3. InCall(r)
    BY <1>1, <1>2, <1>3 DEF Fits, InCall, Rest
  <2> QED BY <1>1, <1>3, <2>1, <2>2, <2>3 DEF OneFits, Fits, Rest
<1>4. CASE Redirect(c, e, v)
  <2> DEFINE r == [o EXCEPT !.pc = "disconnect", !.then = "connect", !.second = TRUE,
                            !.ver = v, !.err = "ok"]
  <2>1. r.pc = "disconnect" /\ r.ver = v /\ Rest(r, o)
    BY DEF Objects, Rest
  <2>2. cl' = [cl EXCEPT ![c] = r]
    BY <1>1, <1>4 DEF Redirect
  <2> QED BY <1>3, <2>1, <2>2
<1>5. CASE TryNext(c, e)
  <2> DEFINE r == [o EXCEPT !.pc = "disconnect", !.err = e,
                            !.then = IF o.tries > 1 THEN "connect" ELSE "deleted",
                            !.tries = o.tries - 1, !.ver = Decrement(o.ver)]
  <2>1. r.pc = "disconnect" /\ r.ver = Decrement(o.ver) /\ Rest(r, o)
    BY DEF Objects, Rest
  <2>2. cl' = [cl EXCEPT ![c] = r]
    BY <1>1, <1>5 DEF TryNext
  <2>3. Searching(o)
    BY <1>1, <1>5 DEF TryNext, Searches, Searching
  <2>4. o.ver \in Versions
    BY <1>1, <1>2, <2>3 DEF IInv, AllSound, Sound, TriedFits
  <2>5. Decrement(o.ver) \in KnownVersions
    BY <2>4, Numbers DEF Decrement, Versions, LastVersion
  <2> QED BY <1>3, <2>1, <2>2, <2>5
<1>6. CASE Keep(c, e)
  <2> DEFINE r == [o EXCEPT !.pc = "idle", !.err = e]
  <2>1. r.pc = "idle" /\ r.ver = o.ver /\ Rest(r, o)
    BY DEF Objects, Rest
  <2>2. cl' = [cl EXCEPT ![c] = r] /\ o.call \in {"open", "command"}
    BY <1>1, <1>6 DEF Keep
  <2>3. r.ver \in KnownVersions
    BY <1>1, <2>1 DEF Fits
  <2> QED BY <1>3, <2>1, <2>2, <2>3
<1>7. CASE GiveUp(c, e, v)
  <2> DEFINE r == [o EXCEPT !.pc = "disconnect", !.then = "deleted", !.ver = v, !.err = e]
  <2>1. r.pc = "disconnect" /\ r.ver = v /\ Rest(r, o)
    BY DEF Objects, Rest
  <2>2. cl' = [cl EXCEPT ![c] = r]
    BY <1>1, <1>7 DEF GiveUp
  <2> QED BY <1>3, <2>1, <2>2
<1> QED BY <1>4, <1>5, <1>6, <1>7 DEF Finish

\* A step of one object that is none of these.
LEMMA StepFits ==
    ASSUME IInv, TypeInv, NEW c \in Clients, NEW r, cl' = [cl EXCEPT ![c] = r],
           r.ver \in KnownVersions, r.msg \in Known, r.buf \in Known, Counted(r), InCall(r)
    PROVE  OneFits(c)
BY ObjectFits DEF OneFits, Fits

\* The answer of a server, and what a callback brings.
LEMMA AnswersAreKnown ==
    ASSUME IInv, TypeInv, NEW k \in Conns, inbox[k] # <<>>, NEW a \in AnswersTo(k, Head(inbox[k]))
    PROVE  a \in Answers
<1>1. PICK q \in Ask : q = Head(inbox[k])
  BY DEF TypeInv
<1>5. q.n \in 0 .. MaxRequests
  BY Numbers DEF Ask
<1>2. Serves(k) \in Servers
  BY Pairs DEF IInv, Shape, Serves
<1>3. /\ Serves(k).names \subseteq {0, 1} \cup ServerVersions
      /\ Serves(k).speaks \subseteq {0, 1} \cup ServerVersions
  BY <1>2, Numbers
<1>4. /\ a \in [to : {q.n}, ver : {q.ver}, kind : {"good", "bad"}] /\ q.ver \in Serves(k).speaks
      \/ a \in [to : {q.n}, ver : Serves(k).names, kind : {"bad"}]
  BY <1>1 DEF AnswersTo
<1> QED BY <1>3, <1>4, <1>5 DEF Answers

LEMMA CallbackFitsTypes ==
    ASSUME IInv, TypeInv, NEW k \in Conns, NEW a \in Answers, StartCallback(k, a)
    PROVE  AllFits' /\ cb' \in {NoCallback} \cup [stage : {"assign"}, conn : Conns, ans : Answers]
<1>1. PICK c \in Clients : c = k[1]
  BY Pairs
<1>2. PICK o \in Objects : o = cl[c] /\ Fits(o) /\ cl = [d \in Clients |-> cl[d]]
  BY ObjectFits
<1>3. CASE k \in map
  <2> DEFINE r == [o EXCEPT !.msg = Garbage]
  <2>1. /\ r.pc = o.pc /\ r.call = o.call /\ r.ver = o.ver /\ r.made = o.made /\ r.n = o.n
        /\ r.left = o.left /\ r.buf = o.buf /\ r.msg = Garbage
    BY DEF Objects
  <2>2. cl' = [cl EXCEPT ![c] = r] /\ cb' = [stage |-> "assign", conn |-> k, ans |-> a]
    BY <1>1, <1>2, <1>3 DEF StartCallback
  <2> HIDE DEF r
  <2>3. r.ver \in KnownVersions /\ r.msg \in Known /\ r.buf \in Known
    BY <1>2, <2>1, KnownValues DEF Fits
  <2>4. Counted(r) /\ InCall(r)
    BY <1>2, <2>1 DEF Fits, Counted, Due, InCall
  <2>5. OneFits(c)
    BY <2>2, <2>3, <2>4, StepFits
  <2>6. AllFits'
    BY <2>5, OneKeeps DEF TypeInv
  <2> QED BY <2>2, <2>6
<1>4. CASE k \notin map
  BY <1>4 DEF StartCallback, TypeInv, AllFits
<1> QED BY <1>3, <1>4

-----------------------------------------------------------------------------
LEMMA InitTypeInv == Init => TypeInv
<1> SUFFICES ASSUME Init PROVE TypeInv
  OBVIOUS
<1>1. /\ Fresh.ver = 0 /\ Fresh.msg = NoAnswer /\ Fresh.buf = NoAnswer /\ Fresh.n = 0
      /\ Fresh.left = MaxCommands /\ Fresh.made = 0 /\ Fresh.pc = "new" /\ Fresh.call = "none"
  BY DEF Fresh
<1>2. Fits(Fresh)
  BY <1>1, Numbers, KnownValues DEF Fits, Counted, Due, InCall
<1>3. AllFits
  BY <1>2 DEF Init, AllFits
<1> QED BY <1>3 DEF Init, TypeInv, NoCallback

-----------------------------------------------------------------------------
\* What the step of an object leaves of the rest.
Elsewhere ==
    /\ inbox' \in [Conns -> Seq(Ask)]
    /\ device' \in [Conns -> {"closed", "open", "lost"}]
    /\ cb' \in {NoCallback} \cup [stage : {"assign"}, conn : Conns, ans : Answers]
    /\ missed' \subseteq Conns

\* Every step keeps the values of the variables within their bounds.
LEMMA NextTypeInv == IInv /\ TypeInv /\ [Next]_vars => TypeInv'
<1> SUFFICES ASSUME IInv, TypeInv, [Next]_vars PROVE TypeInv'
  OBVIOUS
<1>object. \A c \in Clients : cl[c] \in Objects /\ Fits(cl[c])
  BY ObjectFits
<1>conn. \A c \in Clients : pc(c) \in Active => Conn(c) \in Conns
  BY DEF IInv, Shape, Linked, Phase, pc
<1>one. ASSUME NEW c \in Clients, OneFits(c), Elsewhere PROVE TypeInv'
  BY <1>one, OneKeeps DEF TypeInv, Elsewhere
<1>still. ASSUME UNCHANGED <<network, cb>>, missed' \subseteq Conns PROVE Elsewhere
  BY <1>still DEF network, TypeInv, Elsewhere
<1>past. missed \subseteq Conns
  BY DEF TypeInv
<1>1. ASSUME NEW c \in Clients, NEW call \in {"open", "enumerate", "version"},
             NEW v \in Versions, Start(c, call, v)
      PROVE  TypeInv'
  <2> DEFINE o == cl[c]
             r == [o EXCEPT !.pc = "connect", !.call = call, !.tries = LastVersion, !.ver = v]
  <2>1. /\ r.pc = "connect" /\ r.call = call /\ r.ver = v /\ r.made = o.made /\ r.n = o.n
        /\ r.left = o.left /\ r.msg = o.msg /\ r.buf = o.buf
    BY <1>object DEF Objects
  <2>2. o.pc = "new" /\ cl' = [cl EXCEPT ![c] = r] /\ UNCHANGED <<network, cb, missed>>
    BY <1>1 DEF Start, pc, history
  <2>o. PICK x \in Objects : x = o /\ Fits(x)
    BY <1>object
  <2> HIDE DEF r, o
  <2>3. Counted(r) /\ InCall(r)
    BY <2>o, <2>1, <2>2 DEF Fits, Counted, Due, InCall, Objects
  <2>4. r.ver \in KnownVersions /\ r.msg \in Known /\ r.buf \in Known
    BY <2>o, <2>1, Numbers DEF Fits
  <2> QED BY <1>one, <1>still, <1>past, <2>2, <2>3, <2>4, StepFits, Zenon DEF o
<1>2. ASSUME NEW c \in Clients, Command(c) PROVE TypeInv'
  <2> DEFINE o == cl[c]
             r == [o EXCEPT !.pc = "send", !.call = "command", !.err = "ok", !.left = o.left - 1]
  <2>1. /\ r.pc = "send" /\ r.call = "command" /\ r.ver = o.ver /\ r.made = o.made /\ r.n = o.n
        /\ r.left = o.left - 1 /\ r.msg = o.msg /\ r.buf = o.buf
    BY <1>object DEF Objects
  <2>2. /\ o.pc = "idle" /\ o.left > 0 /\ cl' = [cl EXCEPT ![c] = r]
        /\ UNCHANGED <<network, cb, missed>>
    BY <1>2 DEF Command, pc, history
  <2>o. PICK x \in Objects : x = o /\ Fits(x)
    BY <1>object
  <2> HIDE DEF r, o
  <2>3. Counted(r) /\ InCall(r)
    BY <2>o, <2>1, <2>2, Numbers DEF Fits, Counted, Due, InCall, Objects
  <2>4. r.ver \in KnownVersions /\ r.msg \in Known /\ r.buf \in Known
    BY <2>o, <2>1 DEF Fits
  <2> QED BY <1>one, <1>still, <1>past, <2>2, <2>3, <2>4, StepFits, Zenon DEF o
<1>3. ASSUME NEW c \in Clients, Close(c) PROVE TypeInv'
  <2> DEFINE o == cl[c] r == [o EXCEPT !.pc = "send", !.call = "close", !.err = "ok"]
  <2>1. /\ r.pc = "send" /\ r.call = "close" /\ r.ver = o.ver /\ r.made = o.made /\ r.n = o.n
        /\ r.left = o.left /\ r.msg = o.msg /\ r.buf = o.buf
    BY <1>object DEF Objects
  <2>2. o.pc = "idle" /\ cl' = [cl EXCEPT ![c] = r] /\ UNCHANGED <<network, cb, missed>>
    BY <1>3 DEF Close, pc, history
  <2>o. PICK x \in Objects : x = o /\ Fits(x)
    BY <1>object
  <2> HIDE DEF r, o
  <2>3. Counted(r) /\ InCall(r)
    BY <2>o, <2>1, <2>2, Numbers DEF Fits, Counted, Due, InCall, Objects
  <2>4. r.ver \in KnownVersions /\ r.msg \in Known /\ r.buf \in Known
    BY <2>o, <2>1 DEF Fits
  <2> QED BY <1>one, <1>still, <1>past, <2>2, <2>3, <2>4, StepFits, Zenon DEF o
<1>4. ASSUME NEW c \in Clients, Connect(c) PROVE TypeInv'
  <2> DEFINE o == cl[c] i == o.made + 1
             r == [o EXCEPT !.pc = "send", !.id = i, !.made = i, !.err = "ok"]
  <2>1. /\ r.pc = "send" /\ r.call = o.call /\ r.ver = o.ver /\ r.made = o.made + 1 /\ r.n = o.n
        /\ r.left = o.left /\ r.msg = o.msg /\ r.buf = o.buf
    BY <1>object DEF Objects
  <2>2. o.pc = "connect" /\ cl' = [cl EXCEPT ![c] = r] /\ UNCHANGED <<inbox, device, cb, missed>>
    BY <1>4 DEF Connect, pc, history
  <2>o. PICK x \in Objects : x = o /\ Fits(x)
    BY <1>object
  <2> HIDE DEF r, o
  <2>3. Counted(r) /\ InCall(r)
    BY <2>o, <2>1, <2>2, Numbers DEF Fits, Counted, Due, InCall, Objects
  <2>4. r.ver \in KnownVersions /\ r.msg \in Known /\ r.buf \in Known
    BY <2>o, <2>1 DEF Fits
  <2>5. Elsewhere
    BY <2>2 DEF Elsewhere, TypeInv
  <2> QED BY <1>one, <2>2, <2>3, <2>4, <2>5, StepFits, Zenon DEF o
<1>5. ASSUME NEW c \in Clients, ConnectFails(c) PROVE TypeInv'
  <2> DEFINE o == cl[c] r == [o EXCEPT !.pc = "deleted", !.err = "NO_CONNECTION"]
  <2>1. r.pc = "deleted" /\ r.ver = o.ver /\ Rest(r, o)
    BY <1>object DEF Objects, Rest
  <2>2. o.pc = "connect" /\ cl' = [cl EXCEPT ![c] = r] /\ UNCHANGED <<network, cb, missed>>
    BY <1>5 DEF ConnectFails, pc, history
  <2>o. PICK x \in Objects : x = o /\ Fits(x)
    BY <1>object
  <2> HIDE DEF r, o
  <2>3. Counted(r) /\ InCall(r)
    BY <2>o, <2>1, <2>2, Numbers DEF Fits, Counted, Due, InCall, Objects, Rest
  <2>4. r.ver \in KnownVersions /\ r.msg \in Known /\ r.buf \in Known
    BY <2>o, <2>1 DEF Fits, Rest
  <2> QED BY <1>one, <1>still, <1>past, <2>2, <2>3, <2>4, StepFits, Zenon DEF o
<1>6. ASSUME NEW c \in Clients, Disconnect(c) \/ Erase(c) PROVE TypeInv'
  <2>o. PICK o \in Objects : o = cl[c] /\ Fits(o) /\ o.then \in {"connect", "deleted"}
    BY <1>object DEF Objects
  <2>1. /\ o.pc \in {"disconnect", "erase"} /\ UNCHANGED <<inbox, device, cb, missed>>
        /\ \/ cl' = [cl EXCEPT ![c] = [o EXCEPT !.pc = "erase"]]
           \/ cl' = [cl EXCEPT ![c] = [o EXCEPT !.pc = o.then, !.id = 0]]
    BY <1>6, <2>o DEF Disconnect, Erase, network, history, pc
  <2>2. Elsewhere
    BY <2>1 DEF Elsewhere, TypeInv
  <2>3. ASSUME NEW r, cl' = [cl EXCEPT ![c] = r], Rest(r, o), r.ver = o.ver,
               r.pc \in {"erase", "connect", "deleted"}
        PROVE  TypeInv'
    <3>1. Counted(r) /\ InCall(r)
      BY <2>o, <2>1, <2>3, Numbers DEF Fits, Counted, Due, InCall, Objects, Rest
    <3>2. r.ver \in KnownVersions /\ r.msg \in Known /\ r.buf \in Known
      BY <2>o, <2>3 DEF Fits, Rest
    <3> QED BY <1>one, <2>2, <2>3, <3>1, <3>2, StepFits, Zenon
  <2>4. ASSUME NEW r, r = [o EXCEPT !.pc = "erase"]
        PROVE  Rest(r, o) /\ r.ver = o.ver /\ r.pc = "erase"
    BY <2>4 DEF Objects, Rest
  <2>5. ASSUME NEW r, r = [o EXCEPT !.pc = o.then, !.id = 0]
        PROVE  Rest(r, o) /\ r.ver = o.ver /\ r.pc = o.then
    BY <2>5 DEF Objects, Rest
  <2> QED BY <2>o, <2>1, <2>3, <2>4, <2>5
<1>finish. ASSUME NEW c \in Clients, NEW e, NEW v \in KnownVersions, pc(c) \in Active,
                  Finish(c, e, v), UNCHANGED <<network, cb>>, missed' \subseteq Conns
           PROVE  TypeInv'
  BY <1>finish, <1>one, <1>still, FinishFits, Zenon
<1>own. \A c \in Clients : cl[c].ver \in KnownVersions
  BY <1>object DEF Fits
<1>7. ASSUME NEW c \in Clients, CannotAsk(c) \/ SendFails(c) PROVE TypeInv'
  <2>1. /\ pc(c) \in Active /\ UNCHANGED <<network, cb, missed>> /\ \E e : Finish(c, e, cl[c].ver)
    BY <1>7 DEF CannotAsk, SendFails, Active
  <2> QED BY <1>finish, <1>own, <1>past, <2>1
<1>8. ASSUME NEW c \in Clients, Send(c) PROVE TypeInv'
  <2> DEFINE o == cl[c] q == [n |-> o.n + 1, call |-> o.call, ver |-> o.ver]
             r == [o EXCEPT !.pc = "reset", !.n = o.n + 1]
  <2>1. /\ r.pc = "reset" /\ r.call = o.call /\ r.ver = o.ver /\ r.made = o.made /\ r.n = o.n + 1
        /\ r.left = o.left /\ r.msg = o.msg /\ r.buf = o.buf
    BY <1>object DEF Objects
  <2>2. /\ o.pc = "send" /\ cl' = [cl EXCEPT ![c] = r] /\ UNCHANGED <<device, cb, missed>>
        /\ o.ver \in Versions
    BY <1>8 DEF Send, Speaks, pc, history
  <2>o. PICK x \in Objects : x = o /\ Fits(x)
    BY <1>object
  <2>7. inbox' = [inbox EXCEPT ![Conn(c)] = Append(inbox[Conn(c)], q)] /\ Conn(c) \in Conns
    BY <1>8, <1>conn DEF Send, Active, TypeInv
  <2> HIDE DEF r, o
  <2>3. Counted(r) /\ InCall(r)
    BY <2>o, <2>1, <2>2, Numbers DEF Fits, Counted, Due, InCall, Objects
  <2>4. r.ver \in KnownVersions /\ r.msg \in Known /\ r.buf \in Known
    BY <2>o, <2>1 DEF Fits
  <2>5. o.n + 1 \in 1 .. MaxRequests
    <3>1. o.n \in Nat /\ o.made \in 0 .. 4 /\ o.left \in Nat /\ o.left <= MaxCommands
      BY <2>o DEF Objects, Fits, Counted
    <3>2. Due(o) \in Int /\ Due(o) <= 5 + MaxCommands
      BY <3>1, Numbers DEF Due
    <3>3. o.n + 1 <= Due(o)
      BY <2>o, <2>2 DEF Fits, Counted
    <3> QED BY <3>1, <3>2, <3>3, Numbers
  <2>6. q \in Ask
    <3>1. o.call \in Calls
      BY <2>o, <2>2 DEF Objects, Fits, InCall
    <3> QED BY <2>2, <2>5, <3>1 DEF Ask
  <2>8. Append(inbox[Conn(c)], q) \in Seq(Ask)
    BY <2>6, <2>7 DEF TypeInv
  <2>9. Elsewhere
    BY <2>2, <2>7, <2>8 DEF Elsewhere, TypeInv
  <2> QED BY <1>one, <2>2, <2>3, <2>4, <2>9, StepFits, Zenon DEF o
\* From one place in a call to another, with what has been copied.
<1>goes. ASSUME NEW c \in Clients, NEW r, cl' = [cl EXCEPT ![c] = r], pc(c) \in Active,
                r.pc \in Active \ {"idle", "send"}, r.call = cl[c].call, r.ver = cl[c].ver,
                r.made = cl[c].made, r.n = cl[c].n, r.left = cl[c].left, r.msg = cl[c].msg,
                r.buf \in {cl[c].buf, cl[c].msg}, UNCHANGED <<network, cb, missed>>
         PROVE  TypeInv'
  <2>1. PICK o \in Objects : o = cl[c] /\ Fits(o)
    BY <1>object
  <2>2. o.pc # "new" /\ r.pc # "new" /\ r.pc # "idle" /\ r.pc # "send"
    BY <1>goes, <2>1 DEF pc, Active
  <2>3. Counted(r) /\ InCall(r)
    BY <1>goes, <2>1, <2>2, Numbers DEF Fits, Counted, Due, InCall, Objects
  <2>4. r.ver \in KnownVersions /\ r.msg \in Known /\ r.buf \in Known
    BY <1>goes, <2>1 DEF Fits
  <2> QED BY <1>goes, <1>one, <1>still, <1>past, <2>3, <2>4, StepFits, Zenon
<1>9. ASSUME NEW c \in Clients, Reset(c) PROVE TypeInv'
  <2> DEFINE o == cl[c] r == [o EXCEPT !.pc = "check", !.flag = FALSE]
  <2>1. /\ r.pc = "check" /\ r.call = o.call /\ r.ver = o.ver /\ r.made = o.made /\ r.n = o.n
        /\ r.left = o.left /\ r.msg = o.msg /\ r.buf = o.buf
    BY <1>object DEF Objects
  <2>2. cl' = [cl EXCEPT ![c] = r] /\ pc(c) = "reset" /\ UNCHANGED <<network, cb, missed>>
    BY <1>9 DEF Reset, history
  <2> HIDE DEF r
  <2> QED BY <1>goes, <2>1, <2>2 DEF Active
<1>10. ASSUME NEW c \in Clients, NEW p \in Active, NEW q \in Active \ {"idle", "send"}, Goes(c, p, q),
              UNCHANGED <<network, cb, missed>>
       PROVE  TypeInv'
  <2> DEFINE o == cl[c] r == [o EXCEPT !.pc = q]
  <2>1. /\ r.pc = q /\ r.call = o.call /\ r.ver = o.ver /\ r.made = o.made /\ r.n = o.n
        /\ r.left = o.left /\ r.msg = o.msg /\ r.buf = o.buf
    BY <1>object DEF Objects
  <2>2. cl' = [cl EXCEPT ![c] = r] /\ pc(c) = p
    BY <1>10 DEF Goes
  <2> HIDE DEF r
  <2> QED BY <1>10, <1>goes, <2>1, <2>2
<1>11. ASSUME NEW c \in Clients, Check(c) \/ Enter(c) \/ SpuriousWake(c) \/ Timeout(c) PROVE TypeInv'
  <2>1. {"check", "enter", "wait", "final", "copy"} \subseteq Active \ {"idle", "send"}
    BY DEF Active
  <2>2. /\ UNCHANGED <<network, cb, missed>>
        /\ \E p, q \in {"check", "enter", "wait", "final", "copy"} : Goes(c, p, q)
    BY <1>11 DEF Check, Enter, SpuriousWake, Timeout, history
  <2> QED BY <1>10, <2>1, <2>2
<1>12. ASSUME NEW c \in Clients, FinalTest(c) PROVE TypeInv'
  <2>1. "final" \in Active /\ "copy" \in Active \ {"idle", "send"}
    BY DEF Active
  <2>2. pc(c) = "final" /\ UNCHANGED <<network, cb>>
    BY <1>12 DEF FinalTest
  <2>3. CASE Goes(c, "final", "copy") /\ UNCHANGED history
    BY <1>10, <2>1, <2>2, <2>3 DEF history
  <2>4. CASE Finish(c, "RECV_TIMEOUT", cl[c].ver) /\ missed' = missed \cup {Conn(c)}
    <3>1. missed' \subseteq Conns
      BY <1>conn, <1>past, <2>1, <2>2, <2>4
    <3> QED BY <1>finish, <1>own, <2>1, <2>2, <2>4, <3>1, Zenon
  <2> QED BY <1>12, <2>3, <2>4 DEF FinalTest
<1>13. ASSUME NEW c \in Clients, Copy(c) PROVE TypeInv'
  <2> DEFINE o == cl[c] r == [o EXCEPT !.pc = "decide", !.buf = o.msg]
  <2>1. /\ r.pc = "decide" /\ r.call = o.call /\ r.ver = o.ver /\ r.made = o.made /\ r.n = o.n
        /\ r.left = o.left /\ r.msg = o.msg /\ r.buf = o.msg
    BY <1>object DEF Objects
  <2>2. cl' = [cl EXCEPT ![c] = r] /\ pc(c) = "copy" /\ UNCHANGED <<network, cb, missed>>
    BY <1>13 DEF Copy, history
  <2> HIDE DEF r
  <2> QED BY <1>goes, <2>1, <2>2 DEF Active
<1>14. ASSUME NEW c \in Clients, NEW calls, Reads(c, calls)
       PROVE  pc(c) \in Active /\ UNCHANGED <<network, cb>> /\ missed' \subseteq Conns
  <2>1. pc(c) \in Active /\ UNCHANGED <<network, cb>> /\ missed' \in {missed, missed \cup {Conn(c)}}
    BY <1>14 DEF Reads, Active
  <2> QED BY <1>conn, <1>past, <2>1
<1>15. ASSUME NEW c \in Clients, DecideAnother(c) PROVE TypeInv'
  <2>1. Reads(c, {"open", "enumerate"}) /\ VersionIn(cl[c].msg) \subseteq KnownVersions
    BY <1>15, <1>object, KnownValues DEF DecideAnother, Fits
  <2>2. \E v \in KnownVersions : Finish(c, "ANOTHER_PROTOCOL", v)
    BY <1>15, <2>1 DEF DecideAnother
  <2> QED BY <1>14, <1>finish, <2>1, <2>2, Zenon
<1>16. ASSUME NEW c \in Clients,
              \/ DecideOpen(c) \/ DecideEnumerate(c) \/ DecideVersion(c) \/ DecideCommand(c)
              \/ DecideClose(c)
       PROVE  TypeInv'
  <2>1. \E calls : Reads(c, calls)
    BY <1>16 DEF DecideOpen, DecideEnumerate, DecideVersion, DecideCommand, DecideClose
  <2>2. \E e : Finish(c, e, cl[c].ver)
    BY <1>16 DEF DecideOpen, DecideEnumerate, DecideVersion, DecideCommand, DecideClose
  <2> QED BY <1>14, <1>finish, <1>own, <2>1, <2>2, Zenon
<1>shorter. ASSUME NEW k \in Conns, inbox[k] # <<>>, inbox' = [inbox EXCEPT ![k] = Tail(inbox[k])]
            PROVE  inbox' \in [Conns -> Seq(Ask)]
  <2>1. inbox \in [Conns -> Seq(Ask)]
    BY DEF TypeInv
  <2>2. Tail(inbox[k]) \in Seq(Ask)
    BY <1>shorter, <2>1
  <2> QED BY <1>shorter, <2>1, <2>2
<1>17. ASSUME NEW k \in Conns, Receive(k) \/ DeviceLost(k) PROVE TypeInv'
  <2>1. PICK a \in Answers : StartCallback(k, a)
    <3>1. CASE Receive(k)
      BY <3>1, AnswersAreKnown DEF Receive
    <3>2. CASE DeviceLost(k)
      BY <3>2, KnownValues DEF DeviceLost
    <3> QED BY <1>17, <3>1, <3>2
  <2>2. missed' = missed
    BY <1>17 DEF Receive, DeviceLost, history
  <2>3. device' \in [Conns -> {"closed", "open", "lost"}]
    BY <1>17 DEF Receive, DeviceLost, TypeInv
  <2>4. inbox' \in [Conns -> Seq(Ask)]
    BY <1>17, <1>shorter DEF Receive, DeviceLost, TypeInv
  <2> QED BY <1>past, <2>1, <2>2, <2>3, <2>4, CallbackFitsTypes DEF TypeInv
<1>18. ASSUME NEW k \in Conns, Unanswered(k) \/ Drop(k) PROVE TypeInv'
  <2>1. inbox' \in [Conns -> Seq(Ask)]
    BY <1>18, <1>shorter DEF Unanswered, Drop, TypeInv
  <2>2. UNCHANGED <<cl, device, cb, missed>>
    BY <1>18 DEF Unanswered, Drop, history
  <2> QED BY <2>1, <2>2 DEF TypeInv, AllFits
<1>19. ASSUME Deliver PROVE TypeInv'
  <2>1. cb \in [stage : {"assign"}, conn : Conns, ans : Answers]
    BY <1>19 DEF Deliver, NoCallback, TypeInv
  <2>2. cb.ans \in Known /\ cb.conn \in Conns
    BY <2>1 DEF Known
  <2>3. PICK c \in Clients : c = cb.conn[1]
    BY <2>2, Pairs
  <2> DEFINE o == cl[c]
             p == IF o.pc = "wait" THEN "check" ELSE o.pc
             r == [o EXCEPT !.msg = cb.ans, !.flag = TRUE, !.pc = p]
  <2>4. /\ r.pc = p /\ r.call = o.call /\ r.ver = o.ver /\ r.made = o.made /\ r.n = o.n
        /\ r.left = o.left /\ r.msg = cb.ans /\ r.buf = o.buf
    BY <1>object DEF Objects
  <2>5. cl' = [cl EXCEPT ![c] = r] /\ cb' = NoCallback /\ UNCHANGED <<inbox, device, missed>>
    BY <1>19, <2>3 DEF Deliver, network, history
  <2>o. PICK x \in Objects : x = o /\ Fits(x)
    BY <1>object
  <2> HIDE DEF r, o
  <2>6. Counted(r) /\ InCall(r)
    BY <2>o, <2>4, Numbers DEF Fits, Counted, Due, InCall, Objects
  <2>7. r.ver \in KnownVersions /\ r.msg \in Known /\ r.buf \in Known
    BY <2>o, <2>2, <2>4 DEF Fits
  <2>8. Elsewhere
    BY <2>5 DEF Elsewhere, TypeInv
  <2> QED BY <1>one, <2>5, <2>6, <2>7, <2>8, StepFits, Zenon DEF o
<1>20. CASE UNCHANGED vars
  <2>1. UNCHANGED <<cl, inbox, device, cb, missed>>
    BY <1>20 DEF vars, network, history
  <2> QED BY <2>1 DEF TypeInv, AllFits
<1>21. CASE \E c \in Clients :
              \/ StartOpen(c) \/ StartEnumerate(c) \/ StartVersion(c) \/ Command(c) \/ Close(c)
  <2>1. \A c \in Clients : StartOpen(c) \/ StartEnumerate(c) \/ StartVersion(c) =>
            \E call \in {"open", "enumerate", "version"}, v \in Versions : Start(c, call, v)
    <3>1. BaseVersions \subseteq Versions /\ LastVersion \in Versions
      BY ConstantsAssumption DEF Versions, LastVersion
    <3>2. ASSUME NEW c \in Clients, StartOpen(c)
          PROVE  \E v \in Versions : Start(c, "open", v)
      BY <3>1, <3>2 DEF StartOpen
    <3>3. ASSUME NEW c \in Clients, StartEnumerate(c)
          PROVE  \E v \in Versions : Start(c, "enumerate", v)
      BY <3>1, <3>3 DEF StartEnumerate
    <3>4. ASSUME NEW c \in Clients, StartVersion(c)
          PROVE  \E v \in Versions : Start(c, "version", v)
      BY <3>1, <3>4 DEF StartVersion
    <3> QED BY <3>2, <3>3, <3>4
  <2> QED BY <1>1, <1>2, <1>3, <1>21, <2>1
<1>22. CASE \E c \in Clients : Step(c)
  BY <1>4, <1>5, <1>6, <1>7, <1>8, <1>9, <1>11, <1>12, <1>13, <1>15, <1>16, <1>22 DEF Step
<1> QED
  BY <1>11, <1>17, <1>18, <1>19, <1>20, <1>21, <1>22 DEF Next

-----------------------------------------------------------------------------
\* The values of the client library, for any number of clients, servers and commands: a client
\* object makes four connections at most, sends no more requests than there are calls, and keeps
\* to the versions that it or its server knows (open_connection and the loops of xibridge.cpp).
THEOREM ClientTypes == Spec => []TypeOK
<1>1. IInv /\ TypeInv => TypeOK
  <2> SUFFICES ASSUME IInv, TypeInv PROVE TypeOK
    OBVIOUS
  <2> DEFINE Typed == [
         pc : {"new", "connect", "send", "reset", "check", "enter", "wait", "final", "copy",
               "decide", "disconnect", "erase", "idle", "deleted"},
         call : Calls \cup {"none"}, ver : {0} \cup Versions \cup ServerVersions,
         tries : 0 .. LastVersion, second : BOOLEAN, id : 0 .. LastVersion + 1,
         made : 0 .. LastVersion + 1, then : {"connect", "deleted"}, err : Errors,
         flag : BOOLEAN, msg : Answers \cup {Garbage}, buf : Answers \cup {Garbage},
         n : 0 .. MaxRequests, left : 0 .. MaxCommands]
  <2>1. cl \in [Clients -> Typed]
    <3>1. ASSUME NEW o \in Objects, Fits(o)
          PROVE  /\ o.n \in 0 .. MaxRequests /\ o.left \in 0 .. MaxCommands
                 /\ o.ver \in {0} \cup Versions \cup ServerVersions
                 /\ o.msg \in Answers \cup {Garbage} /\ o.buf \in Answers \cup {Garbage}
      <4>1. o.n \in Nat /\ o.made \in 0 .. 4 /\ o.left \in Nat /\ o.left <= MaxCommands
        BY <3>1 DEF Objects, Fits, Counted
      <4>2. Due(o) \in Int /\ Due(o) <= 5 + MaxCommands
        BY <4>1, Numbers DEF Due
      <4>3. o.n <= Due(o)
        BY <3>1, <4>1, <4>2 DEF Fits, Counted
      <4> QED BY <3>1, <4>1, <4>2, <4>3, Numbers DEF Fits, KnownVersions, Known
    <3>2. ASSUME NEW o \in Objects, Fits(o) PROVE o \in Typed
      BY <3>1, <3>2 DEF Objects, Places, Active, LastVersion
    <3> HIDE DEF Typed
    <3>3. \A c \in Clients : cl[c] \in Typed
      BY <3>2, ObjectFits
    <3> QED BY <3>3 DEF IInv, Shape
  <2>2. tried \in [Clients -> SUBSET Versions]
    BY DEF IInv, Shape, AllSound, Sound
  <2> QED BY <2>1, <2>2 DEF IInv, Shape, TypeInv, TypeOK, Ask
<1> QED BY <1>1, InitTypeInv, NextTypeInv, Invariance, InitIInv, NextIInv, PTL DEF Spec
=============================================================================
