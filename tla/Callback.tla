------------------------------ MODULE Callback ------------------------------
(***************************************************************************)
(* The HTTP client of the worker: Client.Execute with its checks of URLs,  *)
(* redirects and addresses, and what the worker concludes from its result. *)
(*                                                                         *)
(* Servers and the resolver are external and may answer anything: a name   *)
(* may resolve to other addresses every time it is looked up, a server may *)
(* redirect anywhere, for ever, or send any code with a body of any size.  *)
(* A URL is what ValidateURL tells apart, an address is public or private. *)
(***************************************************************************)
EXTENDS Naturals

CONSTANTS
    AllowPrivate,      \* security.allow_private_callbacks
    MaxResponseBytes,  \* worker.max_response_bytes
    Sizes,             \* lengths of response bodies to look at
    Null

ASSUME CallbackConstants ==
    /\ AllowPrivate \in BOOLEAN
    /\ MaxResponseBytes \in Nat \ {0}
    /\ Sizes \subseteq Nat
    /\ Null \notin Nat \cup {"public", "private"}
    /\ Null \notin [code : Nat, size : Nat]

VARIABLES
    call,   \* the call of Execute in progress, and its result
    conns   \* the address behind the idle connection to each host, or Null

vars == <<call, conns>>
-----------------------------------------------------------------------------
\* Hosts by what a URL can name: nothing, a domain name, localhost, an IP.
Hosts == {"none", "name", "localhost", "public", "private"}

Url == [http : BOOLEAN, host : Hosts, user : BOOLEAN]

Addresses == {"public", "private"}

\* Codes of each class the code tells apart; 0 stands for no response.
Codes == {200, 302, 404, 408, 425, 429, 500}

\* requests: requests sent so far, len(via) of the next redirect;
\* code, size, failed: what Execute returns; answer: the code and the length of
\* the body of the last response, for the properties only.
Call == [pc : {"start", "connect", "send", "body", "returned"},
         url : Url, requests : 0..5,
         code : Codes \cup {0}, size : Nat, failed : BOOLEAN,
         answer : [code : Codes, size : Nat] \cup {Null}]

StartedCall(url) ==
    [pc |-> "start", url |-> url, requests |-> 0, code |-> 0, size |-> 0,
     failed |-> FALSE, answer |-> Null]

TypeOK == call \in Call /\ conns \in [Hosts -> Addresses \cup {Null}]

Init ==
    /\ call \in {StartedCall(url) : url \in Url}
    /\ conns = [host \in Hosts |-> Null]
-----------------------------------------------------------------------------
\* Hosts that ValidateURL recognises as private without a lookup.
PrivateHosts == {"localhost", "private"}

ValidateURL(url) ==
    /\ url.http
    /\ url.host # "none"
    /\ ~url.user
    /\ AllowPrivate \/ url.host \notin PrivateHosts

Return(code, size, failed) ==
    call' = [call EXCEPT !.pc = "returned", !.code = code, !.size = size,
                         !.failed = failed]

Validate ==
    /\ call.pc = "start"
    /\ IF ValidateURL(call.url)
       THEN call' = [call EXCEPT !.pc = "connect"]
       ELSE Return(0, 0, TRUE)
    /\ UNCHANGED conns

\* An idle connection to the host is used again.
Reuse ==
    /\ call.pc = "connect" /\ conns[call.url.host] # Null
    /\ call' = [call EXCEPT !.pc = "send"]
    /\ UNCHANGED conns

\* What a lookup of the host may return.
LookupIP(host) ==
    CASE host = "public"                -> {{"public"}}
      [] host \in {"private", "localhost"} -> {{"private"}}
      [] OTHER                          -> SUBSET Addresses

\* Mutant: trusts the check of the URL.
DialableAny(addresses) == addresses # {}

\* The addresses are checked again, all of them, when the name is resolved.
Dialable(addresses) ==
    addresses # {} /\ (AllowPrivate \/ "private" \notin addresses)

\* DialContext: one lookup, and a connection to the first of its addresses.
Dial ==
    /\ call.pc = "connect" /\ conns[call.url.host] = Null
    /\ \E addresses \in LookupIP(call.url.host) :
         \/ /\ ~Dialable(addresses)
            /\ Return(0, 0, TRUE) /\ UNCHANGED conns
         \/ /\ Dialable(addresses)
            /\ \E first \in addresses : conns' = [conns EXCEPT ![call.url.host] = first]
            /\ call' = [call EXCEPT !.pc = "send"]

\* No response: the connection fails, the client's timeout or a cancellation.
NoResponse ==
    /\ call.pc \in {"connect", "send"}
    /\ Return(0, 0, TRUE)
    /\ conns' = [conns EXCEPT ![call.url.host] = Null]

\* Mutant: one redirect more.
FollowsOneMore(requests, url) == requests <= 5 /\ ValidateURL(url)

\* CheckRedirect
Follows(requests, url) == requests < 5 /\ ValidateURL(url)

Redirect(url) ==
    LET sent == call.requests + 1 IN
    /\ call.pc = "send"
    /\ IF Follows(sent, url)
       THEN call' = [call EXCEPT !.pc = "connect", !.url = url, !.requests = sent]
       ELSE Return(0, 0, TRUE)
    /\ UNCHANGED conns

\* The headers of the final response; a redirect without a target is one.
Respond(code, size) ==
    /\ call.pc = "send"
    /\ call' = [call EXCEPT !.pc = "body", !.requests = @ + 1,
                            !.answer = [code |-> code, size |-> size]]
    /\ UNCHANGED conns

Smaller(a, b) == IF a < b THEN a ELSE b

\* Mutant: reads no byte more than may be kept, so that no body is too long.
LimitedToKept(size) == Smaller(size, MaxResponseBytes)

\* io.LimitReader: how much of a body is read; one byte more than is kept
\* shows that the body is too long.
Limited(size) == Smaller(size, MaxResponseBytes + 1)

ReadBody ==
    LET read == Limited(call.answer.size) IN
    /\ call.pc = "body"
    /\ IF read > MaxResponseBytes
       THEN Return(call.answer.code, MaxResponseBytes, TRUE)
       ELSE Return(call.answer.code, read,
                   call.answer.code < 200 \/ call.answer.code >= 300)
    /\ UNCHANGED conns

\* The connection breaks, or the timeout comes, within the body.
ReadError ==
    /\ call.pc = "body"
    /\ Return(call.answer.code, 0, TRUE)
    /\ conns' = [conns EXCEPT ![call.url.host] = Null]

\* The next execution this worker runs.
NextCall(url) ==
    /\ call.pc = "returned"
    /\ call' = StartedCall(url)
    /\ UNCHANGED conns

\* IdleConnTimeout
DropIdle(host) ==
    /\ call.pc = "returned" /\ conns[host] # Null
    /\ conns' = [conns EXCEPT ![host] = Null]
    /\ UNCHANGED call

\* isRetryableCallbackFailure
Retryable(code) == code \in {0, 408, 425, 429} \/ code >= 500

\* How process goes on with the result.
Outcome ==
    IF ~call.failed THEN "ok" ELSE IF Retryable(call.code) THEN "retryable" ELSE "fatal"
-----------------------------------------------------------------------------
Step ==
    \/ Validate \/ Reuse \/ Dial \/ NoResponse
    \/ \E url \in Url : Redirect(url)
    \/ \E code \in Codes, size \in Sizes : Respond(code, size)
    \/ ReadBody \/ ReadError

Next ==
    \/ Step
    \/ \E url \in Url : NextCall(url)
    \/ \E host \in Hosts : DropIdle(host)

Spec == Init /\ [][Next]_vars
-----------------------------------------------------------------------------
(* Properties *)

\* Unless it is allowed, no connection goes to a private address, however a
\* name resolves at the time and wherever servers redirect to.
ConnectsToPublic ==
    AllowPrivate \/ \A host \in Hosts : conns[host] # "private"

Returned == call.pc = "returned"

Accepted == call.answer # Null /\ call.answer.code = 200

\* Success means that the last server said so and its answer is here whole.
OkIsWhole ==
    Returned /\ Outcome = "ok" => Accepted /\ call.size = call.answer.size
=============================================================================
