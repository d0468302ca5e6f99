------------------------- MODULE CapabilityRegistry -------------------------
(***************************************************************************)
(* runtime/services/registry.rs: which session offers which capability and *)
(* which session therefore owns which method.  The registry keeps the same *)
(* fact twice: by capability, to list and to unregister, and by method, to *)
(* route a request.  The two maps are behind two mutexes that every change *)
(* holds together, so a change is one action here.                         *)
(*                                                                         *)
(* A call returns result: "ok", "conflict" for every refusal that reaches  *)
(* the client as -32001, or "contract" when a method's contract cannot be  *)
(* resolved.  What the contract store answers is left open here.           *)
(***************************************************************************)
EXTENDS Naturals, Sequences

CONSTANTS
    Sessions,           \* SessionId
    Capabilities,       \* capability names that are not blank
    Methods,            \* method names a session may register
    Registrations       \* the registrations clients send

VARIABLES
    capabilities,       \* name -> its session and its methods
    methods             \* name -> the capability and the session it belongs to

vars == <<capabilities, methods>>

Names(registration) ==
    {registration.methods[i] : i \in DOMAIN registration.methods}

\* validate_registration: a name outside Capabilities is blank, one outside
\* Methods has a reserved prefix.
Valid(registration) ==
    /\ registration.capability \in Capabilities
    /\ registration.methods # <<>>
    /\ Names(registration) \subseteq Methods
    /\ \A i, j \in DOMAIN registration.methods :
          registration.methods[i] = registration.methods[j] => i = j

\* Mutant: register does not look at the methods of other capabilities.
FreeName(registration) == registration.capability \notin DOMAIN capabilities

\* The two checks register makes under both locks.
Free(registration) ==
    /\ registration.capability \notin DOMAIN capabilities
    /\ Names(registration) \cap DOMAIN methods = {}

Owned(s) == {c \in DOMAIN capabilities : capabilities[c].session = s}

MethodsOf(cs) == UNION {capabilities[c].methods : c \in cs}

Without(f, keys) == [k \in DOMAIN f \ keys |-> f[k]]

-----------------------------------------------------------------------------
Init ==
    /\ capabilities = [c \in {} |-> {}]
    /\ methods = [m \in {} |-> {}]

Accept(s, registration) ==
    LET name == registration.capability
    IN  /\ capabilities' = [c \in DOMAIN capabilities \cup {name} |->
              IF c = name THEN [session |-> s, methods |-> Names(registration)]
                          ELSE capabilities[c]]
        /\ methods' = [m \in DOMAIN methods \cup Names(registration) |->
              IF m \in Names(registration)
              THEN [capability |-> name, session |-> s]
              ELSE methods[m]]

Register(s, registration, result) ==
    \/ /\ result = "conflict"
       /\ Valid(registration) => ~Free(registration)
       /\ UNCHANGED vars
    \/ /\ result = "contract"
       /\ Valid(registration)
       /\ UNCHANGED vars
    \/ /\ result = "ok"
       /\ Valid(registration)
       /\ Free(registration)
       /\ Accept(s, registration)

\* Every capability that leaves takes the methods it was registered with along.
Drop(cs) ==
    /\ methods' = Without(methods, MethodsOf(cs))
    /\ capabilities' = Without(capabilities, cs)

UnregisterSession(s) == Drop(Owned(s))

UnregisterCapability(s, capability) == Drop(Owned(s) \cap {capability})

\* Owner of a method: no session, or one.
Owner(method) == IF method \in DOMAIN methods THEN {methods[method].session} ELSE {}

Next ==
    \/ \E s \in Sessions, r \in Registrations, result \in {"ok", "conflict", "contract"} :
          Register(s, r, result)
    \/ \E s \in Sessions : UnregisterSession(s)
    \/ \E s \in Sessions, c \in Capabilities : UnregisterCapability(s, c)

Spec == Init /\ [][Next]_vars

-----------------------------------------------------------------------------
(* What the two maps hold.                                                 *)
TypeOK ==
    /\ capabilities \in [DOMAIN capabilities ->
                            [session : Sessions, methods : SUBSET Methods]]
    /\ DOMAIN capabilities \subseteq Capabilities
    /\ methods \in [DOMAIN methods -> [capability : Capabilities, session : Sessions]]
    /\ DOMAIN methods \subseteq Methods

(* register and unregister keep the two maps telling the same story: the   *)
(* methods that route requests are those of the listed capabilities, each  *)
(* of one capability, and owned by the session that registered it.  One    *)
(* that outlived its capability would be routed to a closed session and    *)
(* could never be registered again.                                        *)
MapsAgree ==
    /\ DOMAIN methods = MethodsOf(DOMAIN capabilities)
    /\ \A c \in DOMAIN capabilities : \A m \in capabilities[c].methods :
          methods[m] = [capability |-> c, session |-> capabilities[c].session]
=============================================================================
