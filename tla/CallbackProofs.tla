--------------------------- MODULE CallbackProofs ---------------------------
(***************************************************************************)
(* Proofs about Callback, for bodies of any length, any limit and any      *)
(* number of calls, one after the other.                                   *)
(***************************************************************************)
EXTENDS Callback, TLAPS

\* Until the headers of the last response are read there is no answer, and the
\* redirects followed so far leave room for one more request.
Unanswered ==
    call.pc \in {"start", "connect", "send"} => call.answer = Null /\ call.requests <= 4

\* The body that is read belongs to an answer.
BodyOfAnswer == call.pc = "body" => call.answer # Null

\* What Execute returns as a success is the answer.
ResultOfAnswer ==
    call.pc = "returned" /\ ~call.failed =>
        /\ call.answer # Null
        /\ call.answer.code = 200
        /\ call.size = call.answer.size

IInv ==
    /\ TypeOK
    /\ Unanswered
    /\ BodyOfAnswer
    /\ ResultOfAnswer
    /\ ConnectsToPublic
-----------------------------------------------------------------------------
(* The record of a call *)

LEMMA StartedFacts ==
    ASSUME NEW url \in Url
    PROVE  LET c == StartedCall(url) IN
           /\ c \in Call /\ c.pc = "start" /\ c.requests = 0 /\ c.answer = Null
BY DEF StartedCall, Call

\* Only the position changes.
LEMMA PcFacts ==
    ASSUME TypeOK, NEW pc \in {"start", "connect", "send", "body", "returned"},
           call' = [call EXCEPT !.pc = pc]
    PROVE  /\ call' \in Call /\ call'.pc = pc
           /\ call'.requests = call.requests /\ call'.answer = call.answer
BY DEF TypeOK, Call

\* Execute returns: code, size and error are set, the answer stays.
LEMMA ReturnFacts ==
    ASSUME TypeOK, NEW code \in Codes \cup {0}, NEW size \in Nat,
           NEW failed \in BOOLEAN, Return(code, size, failed)
    PROVE  /\ call' \in Call /\ call'.pc = "returned" /\ call'.code = code
           /\ call'.size = size /\ call'.failed = failed
           /\ call'.answer = call.answer
<1> DEFINE c1 == [call EXCEPT !.pc = "returned", !.code = code]
           c2 == [c1 EXCEPT !.size = size, !.failed = failed]
<1>1. /\ c1 \in Call /\ c1.pc = "returned" /\ c1.code = code
      /\ c1.answer = call.answer
  BY DEF TypeOK, Call
<1>2. call' = c2
  BY DEF Return
<1> HIDE DEF c1
<1> QED BY <1>1, <1>2 DEF Call

\* Execute returns without a response.
LEMMA NothingReturned ==
    ASSUME TypeOK, Unanswered, call.pc \in {"start", "connect", "send"},
           Return(0, 0, TRUE)
    PROVE  call' \in Call /\ Unanswered' /\ BodyOfAnswer' /\ ResultOfAnswer'
<1>1. /\ call' \in Call /\ call'.pc = "returned" /\ call'.failed = TRUE
      /\ call'.answer = Null
  BY ReturnFacts DEF Unanswered
<1> QED BY <1>1 DEF Unanswered, BodyOfAnswer, ResultOfAnswer

\* An idle connection closed or broken leaves none to its host.
LEMMA DroppedFacts ==
    ASSUME TypeOK, ConnectsToPublic, NEW host \in Hosts,
           conns' = [conns EXCEPT ![host] = Null]
    PROVE  conns' \in [Hosts -> Addresses \cup {Null}] /\ ConnectsToPublic'
BY CallbackConstants DEF TypeOK, ConnectsToPublic

LEMMA SameConns ==
    ASSUME TypeOK, ConnectsToPublic, UNCHANGED conns
    PROVE  conns' \in [Hosts -> Addresses \cup {Null}] /\ ConnectsToPublic'
BY DEF TypeOK, ConnectsToPublic
-----------------------------------------------------------------------------
(* The inductive invariant *)

LEMMA InitInv == Init => IInv
<1> SUFFICES ASSUME Init PROVE IInv
  OBVIOUS
<1>1. PICK url \in Url : call = StartedCall(url)
  BY DEF Init
<1>2. call \in Call /\ call.pc = "start" /\ call.requests = 0 /\ call.answer = Null
  BY <1>1, StartedFacts
<1>3. conns \in [Hosts -> Addresses \cup {Null}] /\ ConnectsToPublic
  BY CallbackConstants DEF Init, ConnectsToPublic
<1> QED BY <1>2, <1>3 DEF IInv, TypeOK, Unanswered, BodyOfAnswer, ResultOfAnswer

\* DialContext connects to an address that was looked up and checked.
LEMMA DialInv == IInv /\ Dial => IInv'
<1> SUFFICES ASSUME IInv, Dial PROVE IInv'
  OBVIOUS
<1>0. /\ TypeOK /\ Unanswered /\ ConnectsToPublic /\ call.pc = "connect"
      /\ call.url.host \in Hosts
  BY DEF IInv, Dial, TypeOK, Call, Url
<1>1. PICK addresses \in LookupIP(call.url.host) :
         \/ /\ ~Dialable(addresses)
            /\ Return(0, 0, TRUE) /\ UNCHANGED conns
         \/ /\ Dialable(addresses)
            /\ \E first \in addresses : conns' = [conns EXCEPT ![call.url.host] = first]
            /\ call' = [call EXCEPT !.pc = "send"]
  BY DEF Dial
<1>2. addresses \subseteq Addresses
  BY <1>0 DEF LookupIP, Addresses, Hosts
<1>3. CASE Return(0, 0, TRUE) /\ UNCHANGED conns
  BY <1>0, <1>3, NothingReturned, SameConns DEF IInv, TypeOK
<1>4. ASSUME Dialable(addresses), call' = [call EXCEPT !.pc = "send"],
             NEW first \in addresses,
             conns' = [conns EXCEPT ![call.url.host] = first]
      PROVE  IInv'
  <2>1. conns' \in [Hosts -> Addresses \cup {Null}]
    BY <1>0, <1>2, <1>4 DEF TypeOK
  <2>2. ConnectsToPublic'
    <3>1. AllowPrivate \/ first # "private"
      BY <1>4 DEF Dialable
    <3> QED BY <1>0, <1>4, <3>1 DEF TypeOK, ConnectsToPublic
  <2>3. /\ call' \in Call /\ call'.pc = "send"
        /\ call'.requests = call.requests /\ call'.answer = call.answer
    BY <1>0, <1>4, PcFacts
  <2> QED BY <1>0, <2>1, <2>2, <2>3
          DEF IInv, TypeOK, Unanswered, BodyOfAnswer, ResultOfAnswer
<1> QED BY <1>1, <1>3, <1>4

\* A redirect is followed with the next request, four times at most, or ends
\* the call.
LEMMA RedirectInv ==
    ASSUME IInv, NEW url \in Url, Redirect(url) PROVE IInv'
<1> DEFINE sent == call.requests + 1
           new  == [call EXCEPT !.pc = "connect", !.url = url, !.requests = sent]
<1>0. /\ TypeOK /\ Unanswered /\ ConnectsToPublic /\ call.pc = "send"
      /\ call.answer = Null /\ call.requests \in 0..4 /\ UNCHANGED conns
  BY DEF IInv, Redirect, TypeOK, Call, Unanswered
<1>1. CASE Return(0, 0, TRUE)
  BY <1>0, <1>1, NothingReturned, SameConns DEF IInv, TypeOK
<1>2. CASE Follows(sent, url) /\ call' = new
  <2>1. sent \in 0..5 /\ sent <= 4
    BY <1>0, <1>2 DEF Follows
  <2> HIDE DEF sent
  <2>2. /\ new \in Call /\ new.pc = "connect" /\ new.requests = sent
        /\ new.answer = Null
    BY <1>0, <2>1 DEF TypeOK, Call
  <2> HIDE DEF new
  <2> QED BY <1>0, <1>2, <2>1, <2>2, SameConns
          DEF IInv, TypeOK, Unanswered, BodyOfAnswer, ResultOfAnswer
<1> QED BY <1>1, <1>2 DEF Redirect

\* The headers of the last response.
LEMMA RespondInv ==
    ASSUME IInv, NEW code \in Codes, NEW size \in Sizes, Respond(code, size)
    PROVE  IInv'
<1> DEFINE answer == [code |-> code, size |-> size]
           n   == call.requests + 1
           new == [call EXCEPT !.pc = "body", !.requests = n, !.answer = answer]
<1>0. /\ TypeOK /\ ConnectsToPublic /\ call.requests \in 0..4 /\ UNCHANGED conns
      /\ call' = new /\ size \in Nat /\ code \in Nat
  BY CallbackConstants DEF IInv, Respond, TypeOK, Call, Unanswered, Codes
<1>1. answer \in [code : Codes, size : Nat] /\ answer # Null /\ n \in 0..5
  BY <1>0, CallbackConstants
<1> HIDE DEF answer, n
<1>2. new \in Call /\ new.pc = "body" /\ new.answer = answer
  BY <1>0, <1>1 DEF TypeOK, Call
<1> HIDE DEF new
<1> QED BY <1>0, <1>1, <1>2, SameConns
        DEF IInv, TypeOK, Unanswered, BodyOfAnswer, ResultOfAnswer

\* The body is read whole, found too long, or breaks off.
LEMMA BodyInv == IInv /\ (ReadBody \/ ReadError) => IInv'
<1> SUFFICES ASSUME IInv, ReadBody \/ ReadError PROVE IInv'
  OBVIOUS
<1> DEFINE a    == call.answer
           read == Limited(a.size)
<1>0. /\ TypeOK /\ ConnectsToPublic /\ call.pc = "body" /\ call.url.host \in Hosts
      /\ a # Null /\ a.code \in Codes /\ a.code \in Codes \cup {0} /\ a.size \in Nat
      /\ MaxResponseBytes \in Nat
  BY CallbackConstants DEF IInv, ReadBody, ReadError, TypeOK, Call, Url, BodyOfAnswer
<1>1. read \in Nat /\ (read <= MaxResponseBytes => read = a.size)
  BY <1>0 DEF Limited, Smaller
<1> DEFINE Good(size, failed) ==
             ~failed => a.code = 200 /\ size = a.size
<1>2. ASSUME NEW size \in Nat, NEW failed \in BOOLEAN,
             Return(a.code, size, failed), Good(size, failed),
             conns' \in [Hosts -> Addresses \cup {Null}], ConnectsToPublic'
      PROVE  IInv'
  <2>1. /\ call' \in Call /\ call'.pc = "returned" /\ call'.code = a.code
        /\ call'.size = size /\ call'.failed = failed /\ call'.answer = a
    BY <1>0, <1>2, ReturnFacts
  <2> QED BY <1>0, <1>2, <2>1
          DEF IInv, TypeOK, Unanswered, BodyOfAnswer, ResultOfAnswer
<1>3. CASE ReadError
  BY <1>0, <1>2, <1>3, DroppedFacts DEF ReadError
<1>4. CASE ReadBody /\ read > MaxResponseBytes
  BY <1>0, <1>2, <1>4, SameConns DEF ReadBody
<1>5. CASE ReadBody /\ ~(read > MaxResponseBytes)
  <2> DEFINE failed == a.code < 200 \/ a.code >= 300
  <2>1. Return(a.code, read, failed) /\ UNCHANGED conns
    BY <1>5 DEF ReadBody
  <2>2. failed \in BOOLEAN /\ (~failed => a.code = 200 /\ read = a.size)
    BY <1>0, <1>1, <1>5 DEF Codes
  <2> HIDE DEF failed, read
  <2> QED BY <1>0, <1>1, <1>2, <2>1, <2>2, SameConns
<1> QED BY <1>3, <1>4, <1>5

LEMMA NextInv == IInv /\ [Next]_vars => IInv'
<1> SUFFICES ASSUME IInv, [Next]_vars PROVE IInv'
  OBVIOUS
<1>0. /\ TypeOK /\ Unanswered /\ ConnectsToPublic /\ call.url.host \in Hosts
  BY DEF IInv, TypeOK, Call, Url
<1>1. CASE Validate
  <2>1. CASE call' = [call EXCEPT !.pc = "connect"] /\ UNCHANGED conns
    BY <1>0, <1>1, <2>1, PcFacts, SameConns
       DEF Validate, IInv, TypeOK, Unanswered, BodyOfAnswer, ResultOfAnswer
  <2>2. CASE Return(0, 0, TRUE) /\ UNCHANGED conns
    BY <1>0, <1>1, <2>2, NothingReturned, SameConns DEF Validate, IInv, TypeOK
  <2> QED BY <1>1, <2>1, <2>2 DEF Validate
<1>2. CASE Reuse
  BY <1>0, <1>2, PcFacts, SameConns
     DEF Reuse, IInv, TypeOK, Unanswered, BodyOfAnswer, ResultOfAnswer
<1>3. CASE NoResponse
  BY <1>0, <1>3, NothingReturned, DroppedFacts DEF NoResponse, IInv, TypeOK
<1>4. ASSUME NEW url \in Url, NextCall(url) PROVE IInv'
  BY <1>0, <1>4, StartedFacts, SameConns
     DEF NextCall, IInv, TypeOK, Unanswered, BodyOfAnswer, ResultOfAnswer
<1>5. ASSUME NEW host \in Hosts, DropIdle(host) PROVE IInv'
  BY <1>0, <1>5, DroppedFacts
     DEF DropIdle, IInv, TypeOK, Unanswered, BodyOfAnswer, ResultOfAnswer
<1>6. CASE UNCHANGED vars
  BY <1>0, <1>6, SameConns
     DEF vars, IInv, TypeOK, Unanswered, BodyOfAnswer, ResultOfAnswer
<1> QED BY <1>1, <1>2, <1>3, <1>4, <1>5, <1>6, DialInv, RedirectInv, RespondInv,
           BodyInv DEF Next, Step

LEMMA Invariance == Spec => []IInv
BY InitInv, NextInv, PTL DEF Spec
-----------------------------------------------------------------------------
(* Theorems *)

\* The call and its idle connections keep their types: at most five requests
\* are sent for one call of Execute.
THEOREM TypeCorrect == Spec => []TypeOK
BY Invariance, PTL DEF IInv

\* Where private callbacks are not allowed, no connection is ever made to a
\* private address: neither through a redirect, nor a name that resolves to
\* another address later, nor a connection kept from another call.
THEOREM PublicOnly == Spec => []ConnectsToPublic
BY Invariance, PTL DEF IInv

\* A call that Execute reports as a success was answered with 200 by the last
\* server, and the worker has the whole body.
THEOREM SuccessIsWhole == Spec => []OkIsWhole
<1>1. IInv => OkIsWhole
  BY DEF IInv, ResultOfAnswer, OkIsWhole, Returned, Outcome, Accepted
<1> QED BY <1>1, Invariance, PTL
=============================================================================
