-------------------------------- MODULE Dial --------------------------------
(***************************************************************************)
(* One call of the connection policy's Connect or RegisterAccount, and the *)
(* dialer it builds: the SRV lookups, the addresses tried one after the    *)
(* other, TLS, the stream features and what is negotiated on the stream.   *)
(*                                                                         *)
(* Lookups and dials run in goroutines of their own with a timer beside    *)
(* them.  Those goroutines assign the named results of the function that   *)
(* started them, and so does its return when the timer fires: the values   *)
(* returned at a timeout are a data race's.                                *)
(***************************************************************************)
EXTENDS Naturals, FiniteSets, Sequences, SequencesExt

CONSTANTS
    Records    \* the SRV records the domain may publish: of the xmpps-client
               \* service (tls) and of xmpp-client

ASSUME DialAssumption ==
    /\ Records \subseteq [host : {"srv"}, tls : BOOLEAN, priority : Nat, weight : Nat]
    /\ IsFiniteSet(Records)

Services == {"xmpps-client", "xmpp-client"}
RecordsOf(service) == {r \in Records : r.tls = (service = "xmpps-client")}

VARIABLES
    config,     \* what the account asks for
    server,     \* d.serverAddress: "none", "custom" or "onion"
    step,       \* where Dial is
    answer,     \* what each lookup returned
    untried,    \* the addresses still to try
    addr,       \* the address being tried or in use
    tried,      \* history: the addresses that were tried in vain
    verified,   \* addresses whose certificate was verified
    features,   \* c.features
    trusted,    \* history: the addresses that were sent the password or a new account
    failure,    \* the error to return when no address can be connected to
    result      \* what Dial returned, or "panic"

where == <<config, server>>
addresses == <<answer, untried, failure>>
attempt == <<addr, tried>>
stream == <<verified, features, trusted>>
dialVars == <<where, step, addresses, attempt, stream, result>>

AddressPCs == {"start"} \cup Services \cup {"resolve", "next", "dialing"}

\* Between two steps of the negotiation a stream begins: the first, the one over
\* TLS, and the one after authentication.
StreamPCs == {"connected", "handshake", "verify", "opening", "starttls", "secured",
              "features", "challenge", "authenticated", "bind", "session", "form"}

\* getFallbackServer, and the server the account or the list of onions names.
Fallback == [host |-> "domain", tls |-> FALSE, priority |-> 0, weight |-> 0]
Configured(tls) == [host |-> "configured", tls |-> tls, priority |-> 0, weight |-> 0]
NoAddress == [host |-> "none", tls |-> FALSE, priority |-> 0, weight |-> 0]
Addresses == Records \cup {Fallback, NoAddress} \cup {Configured(tls) : tls \in BOOLEAN}

Mechanisms == {"SCRAM", "PLAIN"}
Features == {"starttls", "session", "register"} \cup Mechanisms

DialTypeOK ==
    /\ config \in [custom : BOOLEAN, connectTLS : BOOLEAN, torAuto : BOOLEAN,
                   onion : BOOLEAN, brokenSCRAM : BOOLEAN, register : BOOLEAN]
    /\ server \in {"none", "custom", "onion"}
    /\ step \in AddressPCs \cup StreamPCs \cup {"tor", "done"}
    /\ answer \in [Services -> [hosts : SUBSET Records,
                                err : {"none", "notAvailable", "lookupFailed"}]]
    /\ untried \in Seq(Addresses) /\ addr \in Addresses
    /\ tried \subseteq Addresses /\ verified \subseteq Addresses
    /\ features \subseteq Features /\ trusted \subseteq Addresses
    /\ failure \in {"none", "tcpBindingFailed", "connectionFailed"}
    /\ result \in {"none", "conn", "panic", "torNotRunning", "notAvailable",
                   "tcpBindingFailed", "connectionFailed", "timeout", "failedToConnect",
                   "authenticationFailed", "streamError"}

DialInit ==
    /\ config \in [custom : BOOLEAN, connectTLS : BOOLEAN, torAuto : BOOLEAN,
                   onion : BOOLEAN, brokenSCRAM : BOOLEAN, register : BOOLEAN]
    /\ server = "none" /\ step = "tor"
    /\ answer = [s \in Services |-> [hosts |-> {}, err |-> "none"]]
    /\ untried = <<>> /\ addr = NoAddress /\ failure = "none"
    /\ tried = {} /\ verified = {} /\ features = {} /\ trusted = {}
    /\ result = "none"

StepTo(from, to) == step = from /\ step' = to
Finish(from, r) == StepTo(from, "done") /\ result' = r

-----------------------------------------------------------------------------
(* buildDialerFor.                                                         *)

\* Stands also for an account whose address or proxies do not parse.
TorIsNotRunning ==
    /\ config.torAuto
    /\ Finish("tor", "torNotRunning")
    /\ UNCHANGED <<where, addresses, attempt, stream>>

\* An onion address, when it is known and the connection goes over Tor, takes
\* the place of the server of the account's own.
BuildDialer(overTor) ==
    /\ StepTo("tor", "start")
    /\ server' = IF (config.torAuto \/ overTor) /\ config.onion THEN "onion"
                 ELSE IF config.custom THEN "custom" ELSE "none"
    /\ UNCHANGED <<config, addresses, attempt, stream, result>>

-----------------------------------------------------------------------------
(* newTCPConn: which addresses to try.                                     *)

\* A server address skips the lookups.  The policy's RegisterAccount leaves out
\* the account's wish for direct TLS.
SkipLookup ==
    /\ server # "none"
    /\ StepTo("start", "dialing")
    /\ addr' = Configured(config.connectTLS /\ ~config.register)
    /\ UNCHANGED <<where, addresses, tried, stream, result>>

StartLookup ==
    /\ server = "none"
    /\ StepTo("start", "xmpps-client")
    /\ UNCHANGED <<where, addresses, attempt, stream, result>>

ServersService(service) == "xmpp-server"       \* mutant: looks for the service of servers
AfterLookup(service) == IF service = "xmpps-client" THEN "xmpp-client" ELSE "resolve"

Answer(service, hosts, err) ==
    /\ StepTo(service, AfterLookup(service))
    /\ answer' = [answer EXCEPT ![service] = [hosts |-> hosts, err |-> err]]
    /\ UNCHANGED <<where, untried, failure, attempt, stream, result>>

\* resolveOne: records, none at all, or the single record "." of massage.
LookupAnswered(service) ==
    \/ \E hosts \in SUBSET RecordsOf(service) : Answer(service, hosts, "none")
    \/ Answer(service, {}, "notAvailable")
    \/ Answer(service, {}, "lookupFailed")

NoTimer(service) == FALSE                      \* mutant: a lookup without its timer
TimesOut(service) == Answer(service, {}, "lookupFailed")

\* timingOutLookup: the goroutine that lost against the timer may still have
\* its records, or its lack of an error, returned in place of ErrTimeout; as
\* LookupAnswered returns them.
LookupTimesOut(service) == TimesOut(service)

Answered == UNION {answer[s].hosts : s \in Services}

Better(a, b) ==
    \/ a.priority < b.priority
    \/ a.priority = b.priority /\ a.weight > b.weight

AnyOrder(s) == TRUE                            \* mutant: the two answers only appended
\* sort.Sort by priority and weight, which leaves equals in any order.
InOrder(s) == \A i, j \in DOMAIN s : Better(s[i], s[j]) => i < j

\* mutant: the second lookup's error goes before the first's.
SecondErrorFirst ==
    LET Err(s) == answer[s].err IN
    IF Answered # {} THEN "none"
    ELSE IF Err("xmpp-client") # "none" THEN Err("xmpp-client") ELSE Err("xmpps-client")

\* resolveWithCustom: only when neither lookup has a record is there an error,
\* and the first lookup's goes before the second's.
LookupError ==
    LET Err(s) == answer[s].err IN
    IF Answered # {} THEN "none"
    ELSE IF Err("xmpps-client") # "none" THEN Err("xmpps-client") ELSE Err("xmpp-client")

Sorted == {s \in SetToSeqs(Answered) : InOrder(s)}
Candidates == IF Answered = {} THEN {<<Fallback>>} ELSE Sorted

\* defaultLookupAndFallback
ServiceNotAvailable ==
    /\ LookupError = "notAvailable"
    /\ Finish("resolve", "notAvailable")
    /\ UNCHANGED <<where, addresses, attempt, stream>>

Resolve ==
    /\ LookupError # "notAvailable"
    /\ StepTo("resolve", "next")
    /\ untried' \in Candidates
    /\ failure' = IF Answered = {} THEN "tcpBindingFailed" ELSE "connectionFailed"
    /\ UNCHANGED <<where, answer, attempt, stream, result>>

-----------------------------------------------------------------------------
(* connectToFirstAvailable, connectWithProxy and dialTimeout.              *)

TryNext ==
    /\ untried # <<>>
    /\ StepTo("next", "dialing")
    /\ addr' = Head(untried) /\ untried' = Tail(untried)
    /\ UNCHANGED <<where, answer, failure, tried, stream, result>>

NoneAvailable ==
    /\ untried = <<>>
    /\ Finish("next", failure)
    /\ UNCHANGED <<where, addresses, attempt, stream>>

DialSucceeds ==
    /\ StepTo("dialing", "connected")
    /\ UNCHANGED <<where, addresses, attempt, stream, result>>

\* A configured server is the only one; of several the next is tried.
TryAnother(err) ==
    /\ tried' = tried \cup {addr}
    /\ \/ server = "none" /\ StepTo("dialing", "next") /\ UNCHANGED result
       \/ server # "none" /\ Finish("dialing", err)

DialFails ==
    /\ TryAnother("failedToConnect")
    /\ UNCHANGED <<where, addresses, addr, stream>>

\* The goroutine goes on dialing; a connection it still makes is nobody's.
DialTimesOut ==
    /\ TryAnother("timeout")
    /\ UNCHANGED <<where, addresses, addr, stream>>

\* The goroutine connects while dialTimeout returns: its nil error may be
\* returned with its connection, as in DialSucceeds, or with the nil of the
\* timeout, which setupStream then uses as a connection.
DialRaces ==
    /\ Finish("dialing", "panic")
    /\ UNCHANGED <<where, addresses, attempt, stream>>

AddressStep ==
    \/ SkipLookup \/ StartLookup \/ (\E s \in Services : LookupTimesOut(s))
    \/ ServiceNotAvailable \/ Resolve \/ TryNext \/ NoneAvailable \/ DialTimesOut

AddressAnswer ==
    (\E s \in Services : LookupAnswered(s)) \/ DialSucceeds \/ DialFails \/ DialRaces

-----------------------------------------------------------------------------
(* setupStream: TLS at once or by STARTTLS, a stream header before each    *)
(* step of the negotiation and after it.  Nothing here closes the          *)
(* connection when a step fails, and nothing here has a timer.             *)

negotiation == <<where, addresses, attempt>>

\* The server may break off any step, or send what is not expected.
StreamBreaks ==
    /\ step \in StreamPCs \ {"connected", "challenge"}
    /\ step = "features" => config.register
    /\ Finish(step, "streamError")
    /\ UNCHANGED <<negotiation, stream>>

SetupStream ==
    /\ StepTo("connected", IF addr.tls THEN "handshake" ELSE "opening")
    /\ UNCHANGED <<negotiation, stream, result>>

Handshake ==
    /\ StepTo("handshake", "verify")
    /\ UNCHANGED <<negotiation, stream, result>>

Accept == verified' = verified \cup {addr}

\* The certificate is good; StreamBreaks stands for one that is not.
Verify ==
    /\ StepTo("verify", IF addr.tls THEN "opening" ELSE "secured")
    /\ Accept
    /\ UNCHANGED <<negotiation, features, trusted, result>>

\* The decoder fills c.features again without emptying it: what one header
\* offered stays offered.
Accumulate(offer) == features' = features \cup offer

InTheClear == "features"                       \* mutant: STARTTLS if the server asks for it
FirstStep == IF addr.tls THEN "features" ELSE "starttls"

SendInitialStreamHeader(offer) ==
    /\ \/ StepTo("opening", FirstStep)
       \/ StepTo("secured", "features")
       \/ StepTo("authenticated", "bind")
    /\ Accumulate(offer)
    /\ UNCHANGED <<negotiation, verified, trusted, result>>

StartTLS ==
    /\ StepTo("starttls", "handshake")
    /\ "starttls" \in features
    /\ UNCHANGED <<negotiation, stream, result>>

Usable == (Mechanisms \ (IF config.brokenSCRAM THEN {"SCRAM"} ELSE {})) \cap features

Authenticate ==
    /\ ~config.register /\ Usable # {}
    /\ StepTo("features", "challenge")
    /\ trusted' = trusted \cup {addr}
    /\ UNCHANGED <<negotiation, verified, features, result>>

NoMechanism ==
    /\ ~config.register /\ Usable = {}
    /\ Finish("features", "authenticationFailed")
    /\ UNCHANGED <<negotiation, stream>>

AuthenticationSucceeds ==
    /\ StepTo("challenge", "authenticated")
    /\ UNCHANGED <<negotiation, stream, result>>

\* Whatever goes wrong, a lost connection too, is a failed authentication.
AuthenticationFails ==
    /\ Finish("challenge", "authenticationFailed")
    /\ UNCHANGED <<negotiation, stream>>

BindResource ==
    /\ IF "session" \in features THEN StepTo("bind", "session") /\ UNCHANGED result
                                 ELSE Finish("bind", "conn")
    /\ UNCHANGED <<negotiation, stream>>

EstablishSession ==
    /\ Finish("session", "conn")
    /\ UNCHANGED <<negotiation, stream>>

NegotiateInBandRegistration ==
    /\ config.register /\ "register" \in features
    /\ StepTo("features", "form")
    /\ trusted' = trusted \cup {addr}
    /\ UNCHANGED <<negotiation, verified, features, result>>

\* RegisterAccount closes the connection that Dial then returns.
CreateAccount ==
    /\ Finish("form", "conn")
    /\ UNCHANGED <<negotiation, stream>>

StreamStep ==
    \/ StreamBreaks \/ SetupStream \/ Handshake \/ Verify
    \/ (\E offer \in SUBSET Features : SendInitialStreamHeader(offer))
    \/ StartTLS \/ Authenticate \/ NoMechanism \/ AuthenticationSucceeds
    \/ AuthenticationFails \/ BindResource \/ EstablishSession
    \/ NegotiateInBandRegistration \/ CreateAccount

-----------------------------------------------------------------------------
DialNext ==
    \/ TorIsNotRunning \/ (\E overTor \in BOOLEAN : BuildDialer(overTor))
    \/ AddressStep \/ AddressAnswer \/ StreamStep

DialSpec == DialInit /\ [][DialNext]_dialVars

\* The dialer's goroutine runs and its timers fire; no lookup, server or
\* connection needs to answer.
DialFairSpec == DialSpec /\ WF_dialVars(AddressStep)

-----------------------------------------------------------------------------
\* RFC 6120, Section 3.2.1: whichever of the two services an address comes
\* from, all that have a better priority, or as good a one and more weight,
\* were tried before it in vain.
BestAddressFirst ==
    addr \in Answered =>
        \A a \in Answered : Better(a, addr) => a \in tried

Refused(service) == answer[service].err = "notAvailable"

\* The two lookups leave room for the fallback: neither found a record or was told
\* that its service is not offered, except that the refusal of xmpp-client is
\* not seen behind a lookup of xmpps-client that failed.
FallbackIsOpen ==
    /\ Answered = {} /\ ~Refused("xmpps-client")
    /\ Refused("xmpp-client") => answer["xmpps-client"].err = "lookupFailed"

\* The origin domain's port 5222 is dialed only if the account names no server, no
\* lookup found a record and no lookup was told that its service is not offered,
\* but for the one case of FallbackIsOpen: of two lookups that fail, the one whose
\* error counts is the same whichever of them is refused and whichever times out.
FallbackUnlessRefused == addr = Fallback => server = "none" /\ FallbackIsOpen

\* tcp.go:56, of falling back on any error but ErrServiceNotAvailable: "Every other
\* error means 'the initiating entity [did] not receive a response to its SRV
\* query'".  Not so of this code: the error may be the first lookup's when the
\* second was answered that xmpp-client is not offered.
FallbackWithoutResponse == addr = Fallback => \A s \in Services : ~Refused(s)

\* Neither the password nor a registration goes to a server whose certificate
\* was not verified on the connection it goes over, by whichever way TLS began.
PasswordOnlyToVerified == trusted \subseteq verified

-----------------------------------------------------------------------------
(* What these three rest on.                                               *)

BeforeAddresses == {"tor", "start"} \cup Services \cup {"resolve"}

\* Nothing is tried before both lookups are over, and a server the account
\* names leaves them out.
LookupsFirst ==
    /\ \A s \in Services : answer[s].hosts \subseteq Records
    /\ step \in BeforeAddresses => untried = <<>> /\ addr = NoAddress
    /\ step \in Services \cup {"resolve"} => server = "none"
    /\ step \in {"tor", "start"} \/ server # "none" => Answered = {}

\* No record is forgotten: each was tried in vain, is in use, or is still to be
\* tried, in order; and only records are, or the fallback when there are none.
NoneForgotten ==
    /\ step \notin BeforeAddresses =>
           \A a \in Answered : \/ a \in tried \/ (step # "next" /\ a = addr)
                              \/ \E i \in 1 .. Len(untried) : untried[i] = a
    /\ \A i, j \in 1 .. Len(untried) : Better(untried[i], untried[j]) => i < j
    /\ \A i \in 1 .. Len(untried) : untried[i] = Fallback => FallbackIsOpen
    /\ server # "none" => untried = <<>>

\* From the moment TLS is up, whichever way it began, the certificate is good.
Secured ==
    /\ step \in {"secured", "features"} => addr \in verified
    /\ step = "opening" /\ addr.tls => addr \in verified

DialInv ==
    /\ LookupsFirst /\ NoneForgotten /\ Secured
    /\ BestAddressFirst /\ FallbackUnlessRefused /\ PasswordOnlyToVerified

\* Lookups and dials that are never answered are given up: whatever the
\* network does, Dial gets to a connection or to an error.
AddressPhaseEnds == (step \in AddressPCs) ~> (step \notin AddressPCs)

=============================================================================
