---------------------- MODULE CapabilityRegistryProofs ----------------------
(***************************************************************************)
(* The two maps of the registry agree, for any sessions and registrations. *)
(***************************************************************************)
EXTENDS CapabilityRegistry, TLAPS

Inv == TypeOK /\ MapsAgree

(* The two maps, read at one method of one capability.                     *)
LEMMA MethodOfCapability ==
    ASSUME Inv, NEW c \in DOMAIN capabilities, NEW m \in capabilities[c].methods
    PROVE  /\ m \in DOMAIN methods
           /\ methods[m].capability = c
           /\ methods[m].session = capabilities[c].session
<1>1. methods[m] = [capability |-> c, session |-> capabilities[c].session]
  BY DEF Inv, MapsAgree
<1>2. m \in DOMAIN methods
  BY DEF Inv, MapsAgree, MethodsOf
<1> QED
  BY <1>1, <1>2

(* register, when it accepts.                                              *)
LEMMA AcceptKeepsInv ==
    ASSUME Inv, NEW s \in Sessions, NEW r, Valid(r), Free(r), Accept(s, r)
    PROVE  Inv'
<1> DEFINE name == r.capability
           names == Names(r)
<1>1. /\ name \in Capabilities /\ names \subseteq Methods
      /\ name \notin DOMAIN capabilities /\ names \cap DOMAIN methods = {}
  BY DEF Valid, Free
<1>2. /\ capabilities' = [c \in DOMAIN capabilities \cup {name} |->
              IF c = name THEN [session |-> s, methods |-> names] ELSE capabilities[c]]
      /\ methods' = [m \in DOMAIN methods \cup names |->
              IF m \in names THEN [capability |-> name, session |-> s] ELSE methods[m]]
  BY DEF Accept
<1> HIDE DEF name, names
<1>3. TypeOK'
  BY <1>1, <1>2 DEF Inv, TypeOK
<1>4. DOMAIN methods' = MethodsOf(DOMAIN capabilities)'
  <2>1. MethodsOf(DOMAIN capabilities)' = MethodsOf(DOMAIN capabilities) \cup names
    BY <1>1, <1>2 DEF MethodsOf
  <2> QED
    BY <1>2, <2>1 DEF Inv, MapsAgree
<1>5. ASSUME NEW c \in DOMAIN capabilities', NEW m \in capabilities'[c].methods
      PROVE  methods'[m] = [capability |-> c, session |-> capabilities'[c].session]
  <2>1. CASE c = name
    BY <1>1, <1>2, <1>5, <2>1
  <2>2. CASE c # name
    <3>1. c \in DOMAIN capabilities /\ capabilities'[c] = capabilities[c]
      BY <1>2, <2>2
    <3>2. m \in DOMAIN methods
      BY <1>5, <3>1 DEF Inv, MapsAgree, MethodsOf
    <3>3. methods'[m] = methods[m]
      BY <1>1, <1>2, <3>2
    <3> QED
      BY <1>5, <3>1, <3>3 DEF Inv, MapsAgree
  <2> QED
    BY <2>1, <2>2
<1> QED
  BY <1>3, <1>4, <1>5 DEF Inv, MapsAgree

(* unregister_session and unregister_capability: methods are removed by    *)
(* name, which takes no method of another capability because they are      *)
(* disjoint.                                                               *)
LEMMA DropKeepsInv ==
    ASSUME Inv, NEW cs, cs \subseteq DOMAIN capabilities, Drop(cs)
    PROVE  Inv'
<1>1. /\ capabilities' = [c \in DOMAIN capabilities \ cs |-> capabilities[c]]
      /\ methods' = [m \in DOMAIN methods \ MethodsOf(cs) |-> methods[m]]
  BY DEF Drop, Without
<1>2. TypeOK'
  BY <1>1 DEF Inv, TypeOK
<1>3. ASSUME NEW c \in DOMAIN capabilities \ cs, NEW m \in capabilities[c].methods
      PROVE  m \in DOMAIN methods /\ m \notin MethodsOf(cs)
  <2>1. methods[m].capability = c /\ m \in DOMAIN methods
    BY <1>3, MethodOfCapability
  <2>2. \A d \in cs : m \in capabilities[d].methods => methods[m].capability = d
    BY MethodOfCapability
  <2> QED
    BY <2>1, <2>2 DEF MethodsOf
<1>4. DOMAIN methods' = MethodsOf(DOMAIN capabilities)'
  <2>1. MethodsOf(DOMAIN capabilities)' = MethodsOf(DOMAIN capabilities \ cs)
    BY <1>1 DEF MethodsOf
  <2>2. MethodsOf(DOMAIN capabilities \ cs) \subseteq DOMAIN methods \ MethodsOf(cs)
    BY <1>3 DEF MethodsOf
  <2>3. DOMAIN methods \ MethodsOf(cs) \subseteq MethodsOf(DOMAIN capabilities \ cs)
    BY DEF Inv, MapsAgree, MethodsOf
  <2> QED
    BY <1>1, <2>1, <2>2, <2>3
<1>5. ASSUME NEW c \in DOMAIN capabilities', NEW m \in capabilities'[c].methods
      PROVE  methods'[m] = [capability |-> c, session |-> capabilities'[c].session]
  <2>1. c \in DOMAIN capabilities \ cs /\ capabilities'[c] = capabilities[c]
    BY <1>1
  <2>2. m \in DOMAIN methods /\ m \notin MethodsOf(cs)
    BY <1>3, <1>5, <2>1
  <2>3. methods'[m] = methods[m]
    BY <1>1, <2>2
  <2> QED
    BY <1>5, <2>1, <2>3 DEF Inv, MapsAgree
<1> QED
  BY <1>2, <1>4, <1>5 DEF Inv, MapsAgree

(* A session owns no method that it has not registered, and none once its  *)
(* capabilities are gone.                                                  *)
LEMMA OwnerHasCapability ==
    ASSUME Inv, NEW m \in DOMAIN methods
    PROVE  \E c \in Owned(methods[m].session) : m \in capabilities[c].methods
<1>1. PICK c \in DOMAIN capabilities : m \in capabilities[c].methods
  BY DEF Inv, MapsAgree, MethodsOf
<1> QED
  BY <1>1, MethodOfCapability DEF Owned

(* Whatever the sessions register and unregister, the map that routes      *)
(* requests and the map of capabilities tell the same story.               *)
THEOREM RegistryAgrees == Spec => [](TypeOK /\ MapsAgree)
<1>1. Init => Inv
  BY DEF Init, Inv, TypeOK, MapsAgree, MethodsOf
<1>2. ASSUME Inv, [Next]_vars
      PROVE  Inv'
  <2>1. ASSUME NEW s \in Sessions, NEW r \in Registrations, NEW result,
               Register(s, r, result)
        PROVE  Inv'
    <3>1. CASE UNCHANGED vars
      BY <1>2, <3>1 DEF vars, Inv, TypeOK, MapsAgree, MethodsOf
    <3>2. CASE Valid(r) /\ Free(r) /\ Accept(s, r)
      BY <1>2, <3>2, AcceptKeepsInv
    <3> QED
      BY <2>1, <3>1, <3>2 DEF Register
  <2>2. ASSUME NEW s \in Sessions, UnregisterSession(s)
        PROVE  Inv'
    BY <1>2, <2>2, DropKeepsInv DEF UnregisterSession, Owned
  <2>3. ASSUME NEW s \in Sessions, NEW c \in Capabilities, UnregisterCapability(s, c)
        PROVE  Inv'
    <3>1. Owned(s) \cap {c} \subseteq DOMAIN capabilities
      BY DEF Owned
    <3> QED
      BY <1>2, <2>3, <3>1, DropKeepsInv DEF UnregisterCapability
  <2>4. CASE UNCHANGED vars
    BY <1>2, <2>4 DEF vars, Inv, TypeOK, MapsAgree, MethodsOf
  <2> QED
    BY <1>2, <2>1, <2>2, <2>3, <2>4 DEF Next
<1> QED
  BY <1>1, <1>2, PTL DEF Spec, Inv
=============================================================================
