--------------------------- MODULE PolicyCompiler ---------------------------
(***************************************************************************)
(* From the rules of engagement an author writes (engagement_domain.py) to *)
(* the execution policy the engines ask (policy_compiler.py), and the      *)
(* bundle file that carries it: white-night policy compile, policy verify. *)
(*                                                                         *)
(* Scope rules are host names, addresses and networks, with the arithmetic *)
(* of ipaddress on addresses of AddressBits bits.  A fingerprint is        *)
(* abstracted to the value it is taken of.                                 *)
(***************************************************************************)
EXTENDS Naturals, Sequences, SequencesExt, FiniteSets

CONSTANTS
    AddressBits,        \* 32 and 128 in the code
    Definitions,        \* the definitions an author writes, right and wrong ones
    Techniques,         \* the names _TECHNIQUE_PATTERN accepts
    CapabilityNames     \* those that _CAPABILITY_PATTERN accepts

\* How many addresses a network with so many open bits has.
Size ==
    LET size[bits \in 0 .. AddressBits] == IF bits = 0 THEN 1 ELSE 2 * size[bits - 1]
    IN  size

\* A scope rule; bits is how many bits of an address the rule leaves open.
ScopeRules ==
    {r \in [type : {"host", "address", "network"}, version : {0, 4, 6}, base : Nat,
            bits : 0 .. AddressBits] :
        /\ r.type = "address" => r.bits = 0
        /\ r.type # "host" => r.version # 0 /\ r.base < Size[AddressBits]}

ASSUME CompilerAssumption ==
    /\ AddressBits \in Nat
    /\ \A roe \in Definitions :
        /\ roe.allowed \cup roe.excluded \subseteq ScopeRules /\ IsFiniteSet(roe.excluded)
        /\ roe.techniques \subseteq Techniques
        /\ roe.max_intrusiveness \in {"passive", "safe-active", "intrusive", "destructive"}
        /\ {roe.valid_from, roe.valid_until, roe.max_actions} \subseteq Nat

VARIABLE compilation    \* the definition and what became of it

-----------------------------------------------------------------------------
\* Networks, as ipaddress sees them; an address is a network of one.  A host name
\* has its number as base and version 0.
NetworkOf(rule) ==
    [rule EXCEPT !.type = "network", !.base = (@ \div Size[rule.bits]) * Size[rule.bits]]

SubnetOf(inner, outer) ==
    /\ inner.version = outer.version
    /\ inner.bits <= outer.bits
    /\ inner.base \div Size[outer.bits] = outer.base \div Size[outer.bits]

Overlaps(a, b) == SubnetOf(a, b) \/ SubnetOf(b, a)

\* The network of Size[bits] addresses around another, and the one that completes a
\* network to the next larger one.
Around(net, bits) == [net EXCEPT !.base = (@ \div Size[bits]) * Size[bits], !.bits = bits]
Buddy(net) ==
    [net EXCEPT !.base = IF (@ \div Size[net.bits]) % 2 = 0
                         THEN @ + Size[net.bits] ELSE @ - Size[net.bits]]

\* ipaddress halves the network until what is left over is the excluded one.
address_exclude(net, out) == {Buddy(Around(out, bits)) : bits \in out.bits .. net.bits - 1}

\* Mutant: an exclusion inside an allowed network is overlooked.
subtract_network_outer(allowed, excluded) ==
    IF SubnetOf(allowed, excluded) THEN {} ELSE {allowed}

subtract_network(allowed, excluded) ==
    IF ~Overlaps(allowed, excluded) THEN {allowed}
    ELSE IF SubnetOf(allowed, excluded) THEN {}
    ELSE address_exclude(allowed, excluded)

\* The pieces of a network that are left when each of some others is taken out of it.
Remaining(net, others) ==
    LET pieces[n \in 0 .. Len(others)] ==
            IF n = 0 THEN {net}
            ELSE UNION {subtract_network(p, others[n]) : p \in pieces[n - 1]}
    IN  pieces[Len(others)]

\* What one allowed rule is worth: host names go by name, addresses stay addresses,
\* networks lose the excluded ones piece by piece.
EffectiveRules(rule, excluded) ==
    LET networks == {NetworkOf(e) : e \in {e \in excluded : e.type # "host"}}
    IN  CASE rule.type = "host" -> {rule} \ excluded
          [] rule.type = "address" ->
                IF \E n \in networks : SubnetOf(rule, n) THEN {} ELSE {rule}
          [] rule.type = "network" ->
                Remaining(NetworkOf(rule), SetToSeq(networks))

effective_scope(allowed, excluded) ==
    UNION {EffectiveRules(rule, excluded) : rule \in allowed}

\* Scope._matches
RuleMatches(rule, target) ==
    CASE target.type = "host" -> rule = target
      [] target.type = "address" -> rule.type # "host" /\ SubnetOf(target, NetworkOf(rule))
      [] target.type = "network" ->
            rule.type = "network" /\ SubnetOf(NetworkOf(target), NetworkOf(rule))

-----------------------------------------------------------------------------
\* What an action may name, and the policy the engines evaluate.
CompilerTargets ==
    {r \in UNION {roe.allowed \cup roe.excluded : roe \in Definitions} : r.type = "host"} \cup
    [type : {"address"}, version : {4, 6}, base : 0 .. Size[AddressBits] - 1, bits : {0}] \cup
    {n \in [type : {"network"}, version : {4, 6}, base : 0 .. Size[AddressBits] - 1,
            bits : 0..AddressBits] : n = NetworkOf(n)}

Execution == INSTANCE EngagementPolicy WITH
    Capabilities <- Techniques, Targets <- CompilerTargets

\* RulesOfEngagement and ScopeDefinition: what their constructors accept.
ValidRoe(roe) ==
    /\ roe.allowed # {}
    /\ roe.techniques # {}
    /\ roe.techniques \cap roe.prohibited = {}
    /\ roe.valid_from < roe.valid_until
    /\ roe.max_actions >= 1

\* EngagementDefinition: its owner is one of its contacts, the rules are its own.
ValidDefinition(roe) == roe.consistent /\ ValidRoe(roe)

intrusiveness_to_impact(level) ==
    CASE level = "passive" -> "low"
      [] level = "safe-active" -> "standard"
      [] level = "intrusive" -> "high"
      [] level = "destructive" -> "none"

\* The compiler refuses what the execution policy cannot express.
Compiles(roe) ==
    /\ intrusiveness_to_impact(roe.max_intrusiveness) # "none"
    /\ effective_scope(roe.allowed, roe.excluded) # {}
    /\ roe.techniques \subseteq CapabilityNames

CompiledPolicy(roe) ==
    [valid_from |-> roe.valid_from, valid_until |-> roe.valid_until,
     max_actions |-> roe.max_actions, actions_used |-> 0,
     permitted |-> roe.techniques, approval_required |-> {},
     max_impact |-> intrusiveness_to_impact(roe.max_intrusiveness),
     scope |-> {t \in CompilerTargets :
                \E rule \in effective_scope(roe.allowed, roe.excluded) : RuleMatches(rule, t)},
     revoked |-> FALSE]

\* CompiledPolicyBundle: the policy, what it was compiled from, and the
\* fingerprints of the policy and of all of it.
Payload(bundle) == [bundle EXCEPT !.bundle_fingerprint = <<>>]
Seal(bundle) == [bundle EXCEPT !.bundle_fingerprint = <<Payload(bundle)>>]
Bundle(roe) ==
    Seal([engagement |-> roe, policy |-> CompiledPolicy(roe),
          policy_fingerprint |-> CompiledPolicy(roe), bundle_fingerprint |-> <<>>])

CompilerInit ==
    \E roe \in Definitions :
        compilation = [roe |-> roe, bundle |-> <<>>, status |-> "written"]

-----------------------------------------------------------------------------
\* policy compile: a definition that does not load, or does not compile, is an error.
Compile ==
    LET roe == compilation.roe
    IN  /\ compilation.status = "written"
        /\ compilation' =
            IF ~ValidDefinition(roe) THEN [compilation EXCEPT !.status = "invalid"]
            ELSE IF ~Compiles(roe) THEN [compilation EXCEPT !.status = "not compiled"]
            ELSE [compilation EXCEPT !.status = "compiled", !.bundle = <<Bundle(roe)>>]

\* The bundle file is changed by hand: the policy, its fingerprint, or both.
EditBundle ==
    /\ compilation.status = "compiled"
    /\ \E parts \in SUBSET {"policy", "policy_fingerprint"} \ {{}} :
        LET bundle == compilation.bundle[1]
            wider == [bundle.policy EXCEPT !.scope = CompilerTargets]
        IN  compilation' = [compilation EXCEPT
                !.bundle = <<[part \in DOMAIN bundle |->
                              IF part \in parts THEN wider ELSE bundle[part]]>>]

\* policy verify, and every other reader (from_dict): both fingerprints are taken anew.
BundleVerifies(bundle) ==
    /\ bundle.policy_fingerprint = bundle.policy
    /\ bundle.bundle_fingerprint = Seal(bundle).bundle_fingerprint

VerifyBundle ==
    /\ compilation.status = "compiled"
    /\ compilation' = [compilation EXCEPT
            !.status = IF BundleVerifies(compilation.bundle[1]) THEN "verified" ELSE "refused"]

CompilerNext == Compile \/ EditBundle \/ VerifyBundle

CompilerSpec == CompilerInit /\ [][CompilerNext]_compilation

-----------------------------------------------------------------------------
\* What the author meant, one address at a time.
AddressesOf(rule) ==
    IF rule.type = "host" THEN {}
    ELSE {<<rule.version, a>> : a \in
            NetworkOf(rule).base .. NetworkOf(rule).base + Size[rule.bits] - 1}

Meant(roe, target) ==
    IF target.type = "host" THEN target \in roe.allowed \ roe.excluded
    ELSE /\ \E rule \in roe.allowed :
                /\ AddressesOf(target) \subseteq AddressesOf(rule)
                /\ target.type = "network" => rule.type = "network"
         /\ \A rule \in roe.excluded : AddressesOf(rule) \cap AddressesOf(target) = {}

\* A bundle that verifies carries a policy of exactly the scope the author meant:
\* an address, a network or a name is authorised iff a rule allows it and no excluded
\* rule touches it, whatever pieces the subtraction of one network from another
\* left; no action is authorised with a technique that is not allowed, above the
\* intrusiveness chosen or out of the window; and a definition that does not compile
\* means no target, a destructive level or a name no policy can hold
\* (compile_engagement_policy, _effective_scope, CompiledPolicyBundle.from_dict).
CompiledPolicyIsExact ==
    LET roe == compilation.roe
    IN  /\ compilation.status = "verified" =>
            LET policy == compilation.bundle[1].policy
            IN  /\ Execution!ValidPolicy(policy)
                /\ \A t \in CompilerTargets : t \in policy.scope <=> Meant(roe, t)
                /\ \A technique \in Techniques, impact \in Execution!Impacts, now \in 0..2 :
                    LET request == [capability |-> technique, impact |-> impact,
                                    target |-> CHOOSE t \in policy.scope : TRUE,
                                    approved |-> TRUE]
                    IN  Execution!evaluate_action(policy, "active", request, now) =
                            "authorized" =>
                        /\ technique \in roe.techniques \ roe.prohibited
                        /\ now \in roe.valid_from..roe.valid_until
                        /\ roe.max_intrusiveness = "passive" => impact = "low"
                        /\ roe.max_intrusiveness = "safe-active" => impact # "high"
        /\ compilation.status = "not compiled" =>
            \/ roe.max_intrusiveness = "destructive"
            \/ ~(roe.techniques \subseteq CapabilityNames)
            \/ \A t \in CompilerTargets : ~Meant(roe, t)

=============================================================================
