----------------------- MODULE SimulationEngine_proofs -----------------------
(***************************************************************************)
(* Simulate, for any policy, any simulated rows and any changes of the     *)
(* tables meanwhile.                                                       *)
(*                                                                         *)
(* Two things are known of a simulation under way.  What it has seen is    *)
(* still so, as long as rows were only added: Course.  And what it has     *)
(* computed is what Predicted computes from one state, as long as nothing  *)
(* changed and nothing failed: Exact.  The rest is arithmetic of sets:     *)
(* what Predicted has to do with Decision on the changed tables.           *)
(***************************************************************************)
EXTENDS SimulationEngine, PolicyStore_proofs

-----------------------------------------------------------------------------
(* What Simulate computes from one state.                                  *)

SimulatedRoles(d, s, u) == UserRoles(d, u) \cup GrantedRoles(s, u)

SimulatedPermissions(d, s, u, effective) ==
    UserPermissions(d, u) \cup {b[2] : b \in {c \in Listed(s.bindings) : c[1] \in effective}}

SimulatedCandidates(d, s, p) ==
    RolesWithPermission(d, p) \cup {b[1] : b \in {c \in Listed(s.bindings) : c[2] = p}}

PredictedByRbac(d, s, r) ==
    LET effective == SimulatedRoles(d, s, r.user) IN
    IF effective = {} THEN Denial("USER_HAS_NO_ROLE")
    ELSE IF r.perm \in SimulatedPermissions(d, s, r.user, effective)
         THEN Permit(effective \cap SimulatedCandidates(d, s, r.perm))
    ELSE Denial("PERMISSION_DENIED")

EffectiveOwner(d, s, x) ==
    IF Overridden(s, x) THEN SimulatedOwner(s, x) ELSE RegisteredOwner(d, x)

Predicted(d, s, r) ==
    IF d.app = "absent" THEN Denial("APP_NOT_FOUND")
    ELSE IF d.app = "off" THEN Denial("APP_DISABLED")
    ELSE IF ~PermissionExists(d, r.perm) THEN Denial("PERMISSION_NOT_FOUND")
    ELSE IF Mismatch(r) THEN Denial("PERMISSION_DENIED")
    ELSE IF r.resource = NoResource THEN PredictedByRbac(d, s, r)
    ELSE IF ~ResourceEnabled(d, r.resource) THEN Denial("RESOURCE_NOT_FOUND")
    ELSE IF /\ OwnerShortcutEnabled(d, r.perm)
            /\ EffectiveOwner(d, s, r.resource) = r.user
         THEN OwnerPermit
    ELSE PredictedByRbac(d, s, r)

-----------------------------------------------------------------------------
(* The inductive invariant.                                                *)

Complete(s) ==
    /\ Incomplete \notin Listed(s.grants) /\ Incomplete \notin Listed(s.bindings)
    /\ Incomplete \notin Listed(s.overrides)

Checked == {"perms", "shortcut", "owner", "decide"}
Fitting == Checked \cup {"resource", "check"}
Found == Fitting \cup {"info"}
Open == Found \cup {"exists"}

\* Facts about the request and the simulated rows.
Input ==
    /\ pc # "idle" => began \in 1 .. Len(hist)
    /\ pc \in Fitting => ~Mismatch(req)
    /\ pc \in {"resource", "shortcut", "owner"} => req.resource # NoResource
    /\ pc \in {"resource", "check"} /\ Incomplete \in Listed(ChecksOf(sim)) =>
          Incomplete \in Listed(todo)
    /\ pc \in Checked => Complete(sim)
    /\ pc = "done" /\ answer.code # "INVALID_ARGUMENT" => req \in Requests

\* Since the request arrived rows were only added.
Growing == \A c \in began .. Len(hist) - 1 : OnlyAdds(hist[c], hist[c + 1])

GrantsRegistered == \A r \in GrantedRoles(sim, req.user) : RoleRegistered(Now, r)

Held(p) ==
    \/ p \in UserPermissions(Now, req.user)
    \/ \E r \in roles : <<r, p>> \in Listed(sim.bindings)

\* What was seen is still so.
Course ==
    /\ pc \in Open => Now.app = "on"
    /\ pc \in Found => Now.perm[req.perm] = "on"
    /\ pc \in Checked \cup {"check"} /\ req.resource # NoResource =>
          Now.resource[req.resource] = "on"
    /\ pc = "owner" => req.perm \in Now.shortcut
    /\ pc \in {"resource", "check"} =>
          \A c \in Listed(ChecksOf(sim)) \ {Incomplete} :
             c \in Listed(todo) \/ Registered(c)
    /\ pc \in Checked => GrantsRegistered /\ roles \subseteq SimulatedRoles(Now, sim, req.user)
    /\ pc \in Checked \ {"perms"} => \A p \in perms : Held(p)
    /\ pc = "done" /\ answer.code = "OK" =>
          /\ GrantsRegistered
          /\ GrantsEnabled =>
                \E c \in began .. Len(hist) :
                    Decision(Hypothetical(hist[c], sim), req).code = "OK"

\* What was computed is what one state gives.
Exact ==
    /\ pc \in Checked => roles = SimulatedRoles(Now, sim, req.user)
    /\ pc \in Checked \ {"perms"} =>
          perms = SimulatedPermissions(Now, sim, req.user, roles)
    /\ pc = "decide" => Predicted(Now, sim, req) = PredictedByRbac(Now, sim, req)
    /\ pc = "done" /\ answer.code \notin {"INVALID_ARGUMENT", "NOT_FOUND"} =>
          answer = Predicted(Now, sim, req)

IInv ==
    /\ TypeOK /\ Input
    /\ pc # "idle" /\ Growing => Course
    /\ pc # "idle" /\ began = Len(hist) /\ ~lost => Exact

-----------------------------------------------------------------------------
(* The simulated rows.                                                     *)

LEMMA ListFacts ==
    ASSUME NEW S, NEW n \in Nat, NEW l \in Lists(S, n)
    PROVE  /\ l \in Seq(S) /\ Len(l) \in Nat /\ DOMAIN l = 1 .. Len(l)
           /\ Listed(l) \subseteq S
<1>1. PICK k \in 0 .. n : l \in [1 .. k -> S]
    BY DEF Lists
<1>2. l \in Seq(S)
    BY <1>1
<1>3. Len(l) \in Nat /\ DOMAIN l = 1 .. Len(l) /\ \A i \in DOMAIN l : l[i] \in S
    BY <1>2
<1> QED BY <1>2, <1>3 DEF Listed

LEMMA SimulatedFacts ==
    ASSUME NEW s \in Simulated
    PROVE  /\ Listed(s.grants) \subseteq (Users \X Roles) \cup {Incomplete}
           /\ Listed(s.bindings) \subseteq (Roles \X Perms) \cup {Incomplete}
           /\ Listed(s.overrides) \subseteq (Resources \X Users) \cup {Incomplete}
           /\ \A f \in {s.grants, s.bindings, s.overrides} :
                 Len(f) \in Nat /\ DOMAIN f = 1 .. Len(f)
<1>1. /\ s.grants \in Lists((Users \X Roles) \cup {Incomplete}, MaxGrants)
      /\ s.bindings \in Lists((Roles \X Perms) \cup {Incomplete}, MaxBindings)
      /\ s.overrides \in Lists((Resources \X Users) \cup {Incomplete}, MaxOverrides)
    BY DEF Simulated
<1> QED BY <1>1, ListFacts, ListsAssumption

\* The roles simulated for a user are those of the rows that name him.
LEMMA GrantedFacts ==
    ASSUME NEW s \in Simulated, NEW u
    PROVE  /\ GrantedRoles(s, u) \subseteq Roles
           /\ u \in Users =>
                 \A r \in Roles : r \in GrantedRoles(s, u) <=> <<u, r>> \in Listed(s.grants)
<1>1. ASSUME NEW r \in GrantedRoles(s, u)
      PROVE  r \in Roles /\ <<u, r>> \in Listed(s.grants)
    <2>1. PICK g \in Listed(s.grants) : g # Incomplete /\ g[1] = u /\ g[2] = r
        BY DEF GrantedRoles
    <2>2. g \in Users \X Roles
        BY <2>1, SimulatedFacts
    <2> QED BY <2>1, <2>2
<1>2. ASSUME u \in Users, NEW r \in Roles, <<u, r>> \in Listed(s.grants)
      PROVE  r \in GrantedRoles(s, u)
    <2>1. <<u, r>> # Incomplete
        BY <1>2, MarkersAssumption
    <2>2. <<u, r>> \in {h \in Listed(s.grants) : h # Incomplete /\ h[1] = u}
        BY <1>2, <2>1
    <2>3. <<u, r>>[2] \in GrantedRoles(s, u)
        BY <2>2 DEF GrantedRoles
    <2> QED BY <2>3
<1> QED BY <1>1, <1>2

\* What the simulated bindings add to permissions and to candidates.
LEMMA BoundFacts ==
    ASSUME NEW s \in Simulated, Complete(s), NEW effective \in SUBSET Roles, NEW p \in Perms
    PROVE  /\ {b[2] : b \in {c \in Listed(s.bindings) : c[1] \in effective}} \subseteq Perms
           /\ p \in {b[2] : b \in {c \in Listed(s.bindings) : c[1] \in effective}} <=>
                 \E r \in effective : <<r, p>> \in Listed(s.bindings)
           /\ {b[1] : b \in {c \in Listed(s.bindings) : c[2] = p}} =
                 {r \in Roles : <<r, p>> \in Listed(s.bindings)}
<1>1. \A c \in Listed(s.bindings) :
         /\ c \in Roles \X Perms /\ c = <<c[1], c[2]>>
         /\ c[1] \in Roles /\ c[2] \in Perms
    <2>1. Listed(s.bindings) \subseteq Roles \X Perms
        BY SimulatedFacts DEF Complete
    <2> QED BY <2>1
<1>2. \A r, q : <<r, q>>[1] = r /\ <<r, q>>[2] = q
    OBVIOUS
<1>3. {b[2] : b \in {c \in Listed(s.bindings) : c[1] \in effective}} \subseteq Perms
    BY <1>1
<1>4. ASSUME NEW r \in effective, <<r, p>> \in Listed(s.bindings)
      PROVE  p \in {b[2] : b \in {c \in Listed(s.bindings) : c[1] \in effective}}
    <2>1. <<r, p>> \in {c \in Listed(s.bindings) : c[1] \in effective}
        BY <1>2, <1>4
    <2> QED BY <1>2, <2>1
<1>5. ASSUME p \in {b[2] : b \in {c \in Listed(s.bindings) : c[1] \in effective}}
      PROVE  \E r \in effective : <<r, p>> \in Listed(s.bindings)
    <2>1. PICK c \in Listed(s.bindings) : c[1] \in effective /\ c[2] = p
        BY <1>5
    <2> QED BY <1>1, <2>1
<1>6. ASSUME NEW r \in Roles, <<r, p>> \in Listed(s.bindings)
      PROVE  r \in {b[1] : b \in {c \in Listed(s.bindings) : c[2] = p}}
    <2>1. <<r, p>> \in {c \in Listed(s.bindings) : c[2] = p}
        BY <1>2, <1>6
    <2> QED BY <1>2, <2>1
<1>7. ASSUME NEW r \in {b[1] : b \in {c \in Listed(s.bindings) : c[2] = p}}
      PROVE  r \in Roles /\ <<r, p>> \in Listed(s.bindings)
    <2>1. PICK c \in Listed(s.bindings) : c[2] = p /\ c[1] = r
        BY <1>7
    <2> QED BY <1>1, <2>1
<1>8. {b[1] : b \in {c \in Listed(s.bindings) : c[2] = p}} =
         {r \in Roles : <<r, p>> \in Listed(s.bindings)}
    BY <1>6, <1>7
<1> QED BY <1>3, <1>4, <1>5, <1>8

\* The sequence of checks covers every row.
LEMMA ChecksFacts ==
    ASSUME NEW s \in Simulated
    PROVE  /\ ChecksOf(s) \in Seq(Checks)
           /\ ~Complete(s) => Incomplete \in Listed(ChecksOf(s))
           /\ \A u \in Users : \A r \in GrantedRoles(s, u) :
                 <<"role", r>> \in Listed(ChecksOf(s))
<1> DEFINE g == GrantChecks(s)
           b == BindingChecks(s)
           o == OverrideChecks(s)
<1>0. /\ Len(s.grants) \in Nat /\ DOMAIN s.grants = 1 .. Len(s.grants)
      /\ Len(s.bindings) \in Nat /\ DOMAIN s.bindings = 1 .. Len(s.bindings)
      /\ \A i \in DOMAIN s.grants : s.grants[i] \in (Users \X Roles) \cup {Incomplete}
      /\ \A i \in DOMAIN s.bindings : s.bindings[i] \in (Roles \X Perms) \cup {Incomplete}
    BY SimulatedFacts DEF Listed
<1>1. g \in Seq(Checks) /\ Len(g) = Len(s.grants)
    <2>1. \A i \in DOMAIN s.grants :
             (IF s.grants[i] = Incomplete THEN Incomplete ELSE <<"role", s.grants[i][2]>>)
                \in Checks
        BY <1>0 DEF Checks
    <2>2. g \in [1 .. Len(s.grants) -> Checks]
        BY <1>0, <2>1 DEF GrantChecks
    <2> QED BY <1>0, <2>2
<1>2. b \in Seq(Checks) /\ Len(b) = 2 * Len(s.bindings)
    <2>1. ASSUME NEW i \in 1 .. 2 * Len(s.bindings)
          PROVE  (i + 1) \div 2 \in DOMAIN s.bindings
        BY <1>0, <2>1
    <2>2. ASSUME NEW i \in 1 .. 2 * Len(s.bindings)
          PROVE  b[i] \in Checks
        <3>1. b[i] = LET c == s.bindings[(i + 1) \div 2] IN
                     IF c = Incomplete THEN Incomplete
                     ELSE IF i % 2 = 1 THEN <<"role", c[1]>> ELSE <<"permission", c[2]>>
            BY <2>2 DEF BindingChecks
        <3>2. PICK c \in (Roles \X Perms) \cup {Incomplete} : c = s.bindings[(i + 1) \div 2]
            BY <1>0, <2>1
        <3>3. CASE c = Incomplete
            BY <3>1, <3>2, <3>3 DEF Checks
        <3>4. CASE c # Incomplete
            <4>1. c[1] \in Roles /\ c[2] \in Perms
                BY <3>2, <3>4
            <4>2. b[i] \in {<<"role", c[1]>>, <<"permission", c[2]>>}
                BY <3>1, <3>2, <3>4
            <4> QED BY <4>1, <4>2 DEF Checks
        <3> QED BY <3>3, <3>4
    <2>3. DOMAIN b = 1 .. 2 * Len(s.bindings)
        BY DEF BindingChecks
    <2>4. b \in [1 .. 2 * Len(s.bindings) -> Checks]
        BY <2>2, <2>3 DEF BindingChecks
    <2> HIDE DEF b
    <2> QED BY <1>0, <2>4
<1>3. o \in Seq(Checks)
    <2>1. <<Incomplete>> \in Seq(Checks) /\ <<>> \in Seq(Checks)
        BY DEF Checks
    <2>2. o = <<Incomplete>> \/ o = <<>>
        BY DEF OverrideChecks
    <2> QED BY <2>1, <2>2
<1>4. ChecksOf(s) \in Seq(Checks)
    BY <1>1, <1>2, <1>3 DEF ChecksOf
<1>5. Listed(ChecksOf(s)) = Listed(g) \cup Listed(b) \cup Listed(o)
    <2>1. ASSUME NEW x \in Seq(Checks), NEW y \in Seq(Checks)
          PROVE  x \o y \in Seq(Checks) /\ Listed(x \o y) = Listed(x) \cup Listed(y)
        <3>1. /\ x \o y \in Seq(Checks) /\ Len(x \o y) = Len(x) + Len(y)
              /\ DOMAIN x = 1 .. Len(x) /\ DOMAIN y = 1 .. Len(y)
              /\ DOMAIN (x \o y) = 1 .. Len(x) + Len(y)
              /\ Len(x) \in Nat /\ Len(y) \in Nat
            OBVIOUS
        <3>2. \A i \in 1 .. Len(x) : (x \o y)[i] = x[i]
            OBVIOUS
        <3>3. \A i \in 1 .. Len(y) : (x \o y)[Len(x) + i] = y[i]
            OBVIOUS
        <3>4. ASSUME NEW i \in 1 .. Len(x) + Len(y)
              PROVE  i \in 1 .. Len(x) \/ \E j \in 1 .. Len(y) : i = Len(x) + j
            <4>1. i \notin 1 .. Len(x) => i - Len(x) \in 1 .. Len(y) /\ i = Len(x) + (i - Len(x))
                BY <3>1
            <4> QED BY <4>1
        <3>5. Listed(x) \cup Listed(y) \subseteq Listed(x \o y)
            <4>1. ASSUME NEW i \in DOMAIN x PROVE x[i] \in Listed(x \o y)
                <5>1. i \in DOMAIN (x \o y) /\ (x \o y)[i] = x[i]
                    BY <3>1, <3>2
                <5> QED BY <5>1 DEF Listed
            <4>2. ASSUME NEW i \in DOMAIN y PROVE y[i] \in Listed(x \o y)
                <5>1. Len(x) + i \in DOMAIN (x \o y) /\ (x \o y)[Len(x) + i] = y[i]
                    BY <3>1, <3>3
                <5> QED BY <5>1 DEF Listed
            <4> QED BY <4>1, <4>2 DEF Listed
        <3>6. ASSUME NEW i \in DOMAIN (x \o y)
              PROVE  (x \o y)[i] \in Listed(x) \cup Listed(y)
            BY <3>1, <3>2, <3>3, <3>4 DEF Listed
        <3>7. Listed(x \o y) \subseteq Listed(x) \cup Listed(y)
            BY <3>6 DEF Listed
        <3> QED BY <3>1, <3>5, <3>7
    <2> HIDE DEF g, b, o
    <2>2. g \o b \in Seq(Checks) /\ Listed(g \o b) = Listed(g) \cup Listed(b)
        BY <1>1, <1>2, <2>1
    <2>3. Listed((g \o b) \o o) = Listed(g \o b) \cup Listed(o)
        BY <1>3, <2>1, <2>2
    <2> QED BY <2>2, <2>3 DEF ChecksOf, g, b, o
<1>6. Incomplete \in Listed(s.grants) => Incomplete \in Listed(g)
    BY DEF Listed, GrantChecks
<1>7. Incomplete \in Listed(s.bindings) => Incomplete \in Listed(b)
    <2> SUFFICES ASSUME NEW i \in DOMAIN s.bindings, s.bindings[i] = Incomplete
                 PROVE  Incomplete \in Listed(b)
        BY DEF Listed
    <2>0. \A j \in Nat : (2 * j + 1) \div 2 = j
        OBVIOUS
    <2>1. 2 * i \in 1 .. 2 * Len(s.bindings) /\ (2 * i + 1) \div 2 = i
        <3> DEFINE n == Len(s.bindings)
        <3>1. i \in 1 .. n /\ n \in Nat
            BY <1>0
        <3> HIDE DEF n
        <3>2. i \in Nat /\ 2 * i \in 1 .. 2 * n
            BY <3>1
        <3> QED BY <2>0, <3>2 DEF n
    <2>2. b[2 * i] = Incomplete /\ 2 * i \in DOMAIN b
        BY <2>1 DEF BindingChecks
    <2> QED BY <2>2 DEF Listed
<1>8. Incomplete \in Listed(s.overrides) => Incomplete \in Listed(o)
    <2>1. SUFFICES ASSUME Incomplete \in Listed(s.overrides) PROVE Incomplete \in Listed(o)
        OBVIOUS
    <2>2. o = <<Incomplete>>
        BY <2>1 DEF OverrideChecks
    <2>3. 1 \in DOMAIN <<Incomplete>> /\ <<Incomplete>>[1] = Incomplete
        OBVIOUS
    <2> QED BY <2>2, <2>3 DEF Listed
<1>9. ASSUME NEW u \in Users, NEW r \in GrantedRoles(s, u)
      PROVE  <<"role", r>> \in Listed(g)
    <2>1. <<u, r>> \in Listed(s.grants) /\ r \in Roles
        BY GrantedFacts
    <2>2. PICK i \in DOMAIN s.grants : s.grants[i] = <<u, r>>
        BY <2>1 DEF Listed
    <2>3. <<u, r>> # Incomplete
        BY <2>1, MarkersAssumption
    <2>4. g[i] = <<"role", r>> /\ i \in DOMAIN g
        BY <2>2, <2>3 DEF GrantChecks
    <2> QED BY <2>4 DEF Listed
<1> HIDE DEF g, b, o
<1> QED BY <1>4, <1>5, <1>6, <1>7, <1>8, <1>9 DEF Complete

-----------------------------------------------------------------------------
(* Predicted and Decision.                                                 *)

\* What the simulated rows would change, and what they would not.
LEMMA HypotheticalFacts ==
    ASSUME NEW d \in PolicyState, NEW s \in Simulated
    PROVE  LET e == Hypothetical(d, s) IN
           /\ e.app = d.app /\ e.role = d.role /\ e.perm = d.perm
           /\ e.resource = d.resource /\ e.shortcut = d.shortcut
           /\ e.grants = d.grants \cup Listed(s.grants)
           /\ e.binds = d.binds \cup Listed(s.bindings)
           /\ \A x \in Resources :
                 e.owner[x] = IF Overridden(s, x) THEN SimulatedOwner(s, x) ELSE d.owner[x]
           /\ \A p \in Perms : PermissionExists(e, p) <=> PermissionExists(d, p)
           /\ \A p \in Perms : OwnerShortcutEnabled(e, p) <=> OwnerShortcutEnabled(d, p)
           /\ \A x \in Resources : ResourceEnabled(e, x) <=> ResourceEnabled(d, x)
<1> DEFINE e == Hypothetical(d, s)
           owner == [x \in Resources |-> IF Overridden(s, x) THEN SimulatedOwner(s, x)
                                         ELSE d.owner[x]]
<1>1. e = [d EXCEPT !.grants = d.grants \cup Listed(s.grants),
                    !.binds = d.binds \cup Listed(s.bindings), !.owner = owner]
    BY DEF Hypothetical
<1>2. \A x \in Resources :
         owner[x] = IF Overridden(s, x) THEN SimulatedOwner(s, x) ELSE d.owner[x]
    OBVIOUS
<1> HIDE DEF owner
<1>3. /\ e.app = d.app /\ e.role = d.role /\ e.perm = d.perm
      /\ e.resource = d.resource /\ e.shortcut = d.shortcut
      /\ e.grants = d.grants \cup Listed(s.grants)
      /\ e.binds = d.binds \cup Listed(s.bindings) /\ e.owner = owner
    BY <1>1 DEF PolicyState
<1> HIDE DEF e
<1>4. /\ \A p \in Perms : PermissionExists(e, p) <=> PermissionExists(d, p)
      /\ \A p \in Perms : OwnerShortcutEnabled(e, p) <=> OwnerShortcutEnabled(d, p)
      /\ \A x \in Resources : ResourceEnabled(e, x) <=> ResourceEnabled(d, x)
    BY <1>3 DEF PermissionExists, OwnerShortcutEnabled, ResourceEnabled
<1> QED BY <1>2, <1>3, <1>4 DEF e

\* The user would have his own roles and the simulated ones that are enabled.
LEMMA HypotheticalRoles ==
    ASSUME NEW d \in PolicyState, NEW s \in Simulated, NEW u \in Users
    PROVE  UserRoles(Hypothetical(d, s), u) =
              UserRoles(d, u) \cup {r \in GrantedRoles(s, u) : d.app = "on" /\ d.role[r] = "on"}
<1>1. /\ Hypothetical(d, s).app = d.app /\ Hypothetical(d, s).role = d.role
      /\ Hypothetical(d, s).grants = d.grants \cup Listed(s.grants)
    BY HypotheticalFacts
<1> QED BY <1>1, GrantedFacts DEF UserRoles

\* And each enabled permission that one of them has, or is bound to.
LEMMA HypotheticalPermissions ==
    ASSUME NEW d \in PolicyState, NEW s \in Simulated, NEW u \in Users, NEW p \in Perms,
           d.perm[p] = "on"
    PROVE  p \in UserPermissions(Hypothetical(d, s), u) <=>
              \E r \in UserRoles(Hypothetical(d, s), u) :
                 <<r, p>> \in d.binds \cup Listed(s.bindings)
<1>1. /\ Hypothetical(d, s).perm = d.perm
      /\ Hypothetical(d, s).binds = d.binds \cup Listed(s.bindings)
    BY HypotheticalFacts
<1> QED BY <1>1 DEF UserPermissions

\* Where the tests before the decision by roles agree, so do the answers.
LEMMA SameTests ==
    ASSUME NEW d \in PolicyState, NEW s \in Simulated, NEW r \in Requests
    PROVE  \/ Predicted(d, s, r) = Decision(Hypothetical(d, s), r)
           \/ /\ PermissionExists(d, r.perm)
              /\ Predicted(d, s, r) = PredictedByRbac(d, s, r)
              /\ Decision(Hypothetical(d, s), r) = RbacDecision(Hypothetical(d, s), r)
<1> DEFINE e == Hypothetical(d, s)
<1>1. r.perm \in Perms /\ (r.resource # NoResource => r.resource \in Resources)
    BY DEF Requests
<1>2. /\ e.app = d.app
      /\ PermissionExists(e, r.perm) <=> PermissionExists(d, r.perm)
      /\ OwnerShortcutEnabled(e, r.perm) <=> OwnerShortcutEnabled(d, r.perm)
    BY <1>1, HypotheticalFacts
<1>3. ASSUME r.resource # NoResource
      PROVE  /\ ResourceEnabled(e, r.resource) <=> ResourceEnabled(d, r.resource)
             /\ ResourceEnabled(d, r.resource) =>
                   (IsResourceOwner(e, r.resource, r.user) <=>
                       EffectiveOwner(d, s, r.resource) = r.user)
    <2>1. /\ ResourceEnabled(e, r.resource) <=> ResourceEnabled(d, r.resource)
          /\ e.owner[r.resource] = IF Overridden(s, r.resource)
                                   THEN SimulatedOwner(s, r.resource) ELSE d.owner[r.resource]
        BY <1>1, <1>3, HypotheticalFacts
    <2>2. ResourceEnabled(d, r.resource) => RegisteredOwner(d, r.resource) = d.owner[r.resource]
        BY DEF ResourceEnabled, RegisteredOwner, ResourceRegistered
    <2> HIDE DEF e
    <2> QED BY <2>1, <2>2 DEF IsResourceOwner, EffectiveOwner
<1> HIDE DEF e
<1>4. CASE d.app # "on" \/ ~PermissionExists(d, r.perm) \/ Mismatch(r)
    <2>1. d.app \in Status
        BY DEF PolicyState
    <2> QED BY <1>2, <1>4, <2>1 DEF Predicted, Decision, e, Status
<1>5. CASE /\ d.app = "on" /\ PermissionExists(d, r.perm) /\ ~Mismatch(r)
           /\ r.resource = NoResource
    BY <1>2, <1>5 DEF Predicted, Decision, e
<1>6. CASE /\ d.app = "on" /\ PermissionExists(d, r.perm) /\ ~Mismatch(r)
           /\ r.resource # NoResource
    <2>1. Predicted(d, s, r) =
             IF ~ResourceEnabled(d, r.resource) THEN Denial("RESOURCE_NOT_FOUND")
             ELSE IF /\ OwnerShortcutEnabled(d, r.perm)
                     /\ EffectiveOwner(d, s, r.resource) = r.user
                  THEN OwnerPermit
             ELSE PredictedByRbac(d, s, r)
        BY <1>6 DEF Predicted
    <2>2. Decision(e, r) =
             IF ~ResourceEnabled(e, r.resource) THEN Denial("RESOURCE_NOT_FOUND")
             ELSE IF /\ OwnerShortcutEnabled(e, r.perm)
                     /\ IsResourceOwner(e, r.resource, r.user)
                  THEN OwnerPermit
             ELSE RbacDecision(e, r)
        BY <1>2, <1>6 DEF Decision
    <2> QED BY <1>2, <1>3, <1>6, <2>1, <2>2 DEF e
<1> QED BY <1>4, <1>5, <1>6

\* Without a role for the user himself, the prediction is the decision on the
\* changed tables, whatever bindings and owners are simulated.
LEMMA PredictsExactly ==
    ASSUME NEW d \in PolicyState, NEW s \in Simulated, Complete(s), NEW r \in Requests,
           GrantedRoles(s, r.user) = {}
    PROVE  Predicted(d, s, r) = Decision(Hypothetical(d, s), r)
<1> DEFINE e == Hypothetical(d, s)
           E == UserRoles(d, r.user)
<1>1. r.user \in Users /\ r.perm \in Perms
    BY DEF Requests
<1>2. UserRoles(e, r.user) = E /\ SimulatedRoles(d, s, r.user) = E
    BY <1>1, HypotheticalRoles DEF SimulatedRoles
<1>3. SUFFICES ASSUME PermissionExists(d, r.perm)
               PROVE  PredictedByRbac(d, s, r) = RbacDecision(e, r)
    BY SameTests
<1>4. d.app = "on" /\ d.perm[r.perm] = "on"
    BY <1>3 DEF PermissionExists
<1>5. E \subseteq Roles /\ \A x \in E : d.role[x] = "on"
    BY DEF UserRoles
<1>6. r.perm \in UserPermissions(e, r.user) <=>
         r.perm \in SimulatedPermissions(d, s, r.user, E)
    <2>1. r.perm \in UserPermissions(e, r.user) <=>
             \E x \in E : <<x, r.perm>> \in d.binds \cup Listed(s.bindings)
        BY <1>1, <1>2, <1>4, HypotheticalPermissions
    <2>2. r.perm \in UserPermissions(d, r.user) <=> \E x \in E : <<x, r.perm>> \in d.binds
        BY <1>1, <1>4 DEF UserPermissions
    <2>3. r.perm \in {b[2] : b \in {c \in Listed(s.bindings) : c[1] \in E}} <=>
             \E x \in E : <<x, r.perm>> \in Listed(s.bindings)
        BY <1>1, <1>5, BoundFacts
    <2> HIDE DEF e, E
    <2> QED BY <2>1, <2>2, <2>3 DEF SimulatedPermissions
<1>7. E \cap RolesWithPermission(e, r.perm) = E \cap SimulatedCandidates(d, s, r.perm)
    <2>1. /\ e.app = "on" /\ e.role = d.role /\ e.perm[r.perm] = "on"
          /\ e.binds = d.binds \cup Listed(s.bindings)
        BY <1>4, HypotheticalFacts
    <2>2. SimulatedCandidates(d, s, r.perm) =
             RolesWithPermission(d, r.perm) \cup {x \in Roles : <<x, r.perm>> \in Listed(s.bindings)}
        BY <1>1, <1>5, BoundFacts DEF SimulatedCandidates
    <2> HIDE DEF e, E
    <2>3. \A x \in E : x \in RolesWithPermission(e, r.perm) <=>
             <<x, r.perm>> \in d.binds \cup Listed(s.bindings)
        BY <1>5, <2>1 DEF RolesWithPermission
    <2>4. \A x \in E : x \in RolesWithPermission(d, r.perm) <=> <<x, r.perm>> \in d.binds
        BY <1>4, <1>5 DEF RolesWithPermission
    <2> QED BY <1>5, <2>2, <2>3, <2>4
<1> HIDE DEF e, E
<1> QED BY <1>2, <1>6, <1>7 DEF PredictedByRbac, RbacDecision

\* A denial is wrong only where a simulated role has the permission already.
LEMMA DeniesTooMuch ==
    ASSUME NEW d \in PolicyState, NEW s \in Simulated, Complete(s), NEW r \in Requests,
           Predicted(d, s, r).code # "OK", Decision(Hypothetical(d, s), r).code = "OK"
    PROVE  \E x \in GrantedRoles(s, r.user) : <<x, r.perm>> \in d.binds
<1> DEFINE e == Hypothetical(d, s)
           E == SimulatedRoles(d, s, r.user)
<1>1. r.user \in Users /\ r.perm \in Perms
    BY DEF Requests
<1>2. /\ d.perm[r.perm] = "on"
      /\ Predicted(d, s, r) = PredictedByRbac(d, s, r)
      /\ Decision(e, r) = RbacDecision(e, r)
    BY SameTests DEF PermissionExists
<1>3. r.perm \in UserPermissions(e, r.user)
    BY <1>2 DEF RbacDecision, Denial, Permit
<1>4. PICK x \in UserRoles(e, r.user) : <<x, r.perm>> \in d.binds \cup Listed(s.bindings)
    BY <1>1, <1>2, <1>3, HypotheticalPermissions
<1>5. x \in E /\ (x \in UserRoles(d, r.user) \/ x \in GrantedRoles(s, r.user))
    BY <1>1, HypotheticalRoles DEF SimulatedRoles
<1>6. E \in SUBSET Roles
    BY <1>1, GrantedFacts DEF SimulatedRoles, UserRoles
<1>7. r.perm \notin SimulatedPermissions(d, s, r.user, E)
    BY <1>2, <1>5 DEF PredictedByRbac, Denial, Permit
<1>8. <<x, r.perm>> \notin Listed(s.bindings)
    <2> HIDE DEF E
    <2> QED BY <1>1, <1>5, <1>6, <1>7, BoundFacts DEF SimulatedPermissions
<1>9. x \notin UserRoles(d, r.user)
    BY <1>1, <1>2, <1>4, <1>7, <1>8 DEF SimulatedPermissions, UserPermissions
<1> QED BY <1>4, <1>5, <1>8, <1>9

\* A role of the changed tables that has the permission there is a permit.
LEMMA PermitsByRole ==
    ASSUME NEW d \in PolicyState, NEW s \in Simulated, NEW r \in Requests,
           d.app = "on", d.perm[r.perm] = "on", ~Mismatch(r),
           r.resource # NoResource => d.resource[r.resource] = "on",
           NEW x \in UserRoles(Hypothetical(d, s), r.user),
           <<x, r.perm>> \in d.binds \cup Listed(s.bindings)
    PROVE  Decision(Hypothetical(d, s), r).code = "OK"
<1> DEFINE e == Hypothetical(d, s)
<1>1. /\ r.user \in Users /\ r.perm \in Perms
      /\ r.resource # NoResource => r.resource \in Resources
    BY DEF Requests
<1>2. r.perm \in UserPermissions(e, r.user)
    BY <1>1, HypotheticalPermissions
<1>3. /\ e.app = "on" /\ PermissionExists(e, r.perm)
      /\ r.resource # NoResource => ResourceEnabled(e, r.resource)
    BY <1>1, HypotheticalFacts DEF PermissionExists, ResourceEnabled
<1> HIDE DEF e
<1>4. RbacDecision(e, r).code = "OK"
    BY <1>2 DEF RbacDecision, Permit, e
<1>5. Decision(e, r) \in {RbacDecision(e, r), OwnerPermit}
    BY <1>3 DEF Decision
<1> QED BY <1>4, <1>5 DEF OwnerPermit, e

LEMMA PermitsOwner ==
    ASSUME NEW d \in PolicyState, NEW s \in Simulated, NEW r \in Requests,
           PermissionExists(d, r.perm), ~Mismatch(r), r.resource # NoResource,
           ResourceEnabled(d, r.resource), OwnerShortcutEnabled(d, r.perm),
           EffectiveOwner(d, s, r.resource) = r.user
    PROVE  /\ Predicted(d, s, r) = OwnerPermit
           /\ Decision(Hypothetical(d, s), r).code = "OK"
<1>1. d.app = "on" /\ Predicted(d, s, r) = OwnerPermit
    BY DEF Predicted, PermissionExists
<1>2. PredictedByRbac(d, s, r) # OwnerPermit
    BY DEF PredictedByRbac, OwnerPermit, Permit, Denial
<1>3. Decision(Hypothetical(d, s), r) = OwnerPermit
    BY <1>1, <1>2, SameTests
<1> QED BY <1>1, <1>3 DEF OwnerPermit

-----------------------------------------------------------------------------
(* Types, and what the checks of the simulated rows establish.             *)

LEMMA SimulateKeepsHistory == Simulate => hist' = hist
BY DEF Simulate, Receive, ReceiveIncomplete, ReadApp, CheckPermission, ReadPermission,
    ReadResource, CheckSimulated, ReadRoles, ReadPermissions, ReadShortcut, ReadOwner,
    DecideByRbac, Respond

LEMMA AnswerFacts ==
    /\ NoAnswer \in SimulationAnswer /\ OwnerPermit \in SimulationAnswer
    /\ \A c \in SimulationCodes : Denial(c) \in SimulationAnswer
    /\ \A m \in SUBSET Roles : Permit(m) \in SimulationAnswer
    /\ {"APP_NOT_FOUND", "APP_DISABLED", "PERMISSION_NOT_FOUND", "PERMISSION_DENIED",
        "RESOURCE_NOT_FOUND", "USER_HAS_NO_ROLE", "INVALID_ARGUMENT", "NOT_FOUND"}
          \subseteq SimulationCodes
BY DEF NoAnswer, OwnerPermit, Denial, Permit, SimulationAnswer, SimulationCodes, Codes

\* What most steps leave alone.
Untouched == UNCHANGED <<hist, req, sim, began, roles, perms>>

LEMMA SimpleTypes ==
    ASSUME TypeOK, Untouched, pc # "idle", pc' \in Places \ {"idle"},
           pc # "done", lost' \in BOOLEAN, todo' \in Seq(Checks), answer' \in SimulationAnswer
    PROVE  TypeOK'
BY DEF TypeOK, HistoryOK, Untouched

LEMMA NothingFacts == NothingSimulated \in Simulated
<1>1. \A S : \A n \in Nat : <<>> \in Lists(S, n)
    <2> TAKE S
    <2> TAKE n \in Nat
    <2>1. <<>> \in [1 .. 0 -> S] /\ 0 \in 0 .. n
        OBVIOUS
    <2> QED BY <2>1 DEF Lists
<1> QED BY <1>1, ListsAssumption DEF NothingSimulated, Simulated

LEMMA ListedTail ==
    ASSUME NEW l \in Seq(Checks), l # <<>>
    PROVE  /\ l \in Seq(Checks) /\ Tail(l) \in Seq(Checks)
           /\ \A c \in Listed(l) : c = Head(l) \/ c \in Listed(Tail(l))
<1>1. /\ Tail(l) \in Seq(Checks) /\ Len(Tail(l)) = Len(l) - 1
      /\ \A i \in 1 .. Len(l) - 1 : Tail(l)[i] = l[i + 1]
      /\ DOMAIN l = 1 .. Len(l) /\ DOMAIN Tail(l) = 1 .. Len(l) - 1
      /\ Head(l) = l[1] /\ Len(l) \in Nat
    OBVIOUS
<1>2. ASSUME NEW i \in 1 .. Len(l), i # 1
      PROVE  l[i] \in Listed(Tail(l))
    <2>1. i - 1 \in 1 .. Len(l) - 1 /\ (i - 1) + 1 = i
        BY <1>1, <1>2
    <2>2. Tail(l)[i - 1] = l[i]
        BY <1>1, <2>1
    <2> QED BY <1>1, <2>1, <2>2 DEF Listed
<1> QED BY <1>1, <1>2 DEF Listed

LEMMA TypeStep ==
    ASSUME IInv, Simulate
    PROVE  TypeOK' /\ Input'
<1>0. TypeOK /\ Input /\ HistoryOK' /\ Len(hist) \in 1 .. Len(hist) /\ hist' = hist
    BY SimulateKeepsHistory, NowIsAState DEF IInv, TypeOK, HistoryOK
<1> USE DEF Checked, Fitting, Asked, Require
<1>1. CASE Receive
    BY <1>0, <1>1 DEF Receive, TypeOK, Input, Places
<1>2. CASE ReceiveIncomplete
    BY <1>0, <1>2, AnswerFacts DEF ReceiveIncomplete, TypeOK, Input, Places, Denial
<1>3. CASE ReadApp
    <2>1. /\ Untouched /\ pc = "app" /\ pc' \in {"exists", "done"} /\ lost' \in BOOLEAN
          /\ answer' \in SimulationAnswer /\ todo' = todo
        BY <1>0, <1>3, AnswerFacts DEF ReadApp, Untouched, TypeOK
    <2> QED BY <1>0, <2>1, SimpleTypes DEF TypeOK, Input, Untouched, Places
<1>4. CASE CheckPermission
    <2>1. /\ Untouched /\ pc = "exists" /\ pc' \in {"info", "done"} /\ lost' \in BOOLEAN
          /\ answer' \in SimulationAnswer /\ todo' = todo
        BY <1>0, <1>4, AnswerFacts DEF CheckPermission, Untouched, TypeOK
    <2> QED BY <1>0, <2>1, SimpleTypes DEF TypeOK, Input, Untouched, Places
<1>5. CASE ReadPermission
    <2>1. /\ Untouched /\ pc = "info" /\ lost' \in BOOLEAN
          /\ answer' \in SimulationAnswer /\ todo' = ChecksOf(sim)
          /\ \/ pc' = "done"
             \/ /\ ~Mismatch(req)
                /\ pc' = IF req.resource = NoResource THEN "check" ELSE "resource"
        BY <1>0, <1>5, AnswerFacts DEF ReadPermission, Untouched, TypeOK
    <2>2. todo' \in Seq(Checks) /\ pc' \in Places \ {"idle"}
        BY <1>0, <2>1, ChecksFacts DEF TypeOK, Places
    <2>3. TypeOK'
        BY <1>0, <2>1, <2>2, SimpleTypes
    <2>4. Input'
        BY <1>0, <2>1 DEF TypeOK, Input, Untouched
    <2> QED BY <2>3, <2>4
<1>6. CASE ReadResource
    <2>1. /\ Untouched /\ pc = "resource" /\ pc' \in {"check", "done"} /\ lost' \in BOOLEAN
          /\ answer' \in SimulationAnswer /\ todo' = todo
        BY <1>0, <1>6, AnswerFacts DEF ReadResource, Untouched, TypeOK
    <2> QED BY <1>0, <2>1, SimpleTypes DEF TypeOK, Input, Untouched, Places
<1>7. CASE CheckSimulated
    <2>1. /\ Untouched /\ pc = "check" /\ pc' \in {"check", "done"} /\ lost' \in BOOLEAN
          /\ answer' \in SimulationAnswer /\ todo # <<>> /\ todo' = Tail(todo)
          /\ Head(todo) = Incomplete => pc' = "done"
        BY <1>0, <1>7, AnswerFacts DEF CheckSimulated, Untouched, TypeOK
    <2>2. /\ todo \in Seq(Checks) /\ Tail(todo) \in Seq(Checks)
          /\ \A c \in Listed(todo) : c = Head(todo) \/ c \in Listed(Tail(todo))
        BY <1>0, <2>1, ListedTail DEF TypeOK
    <2>3. TypeOK'
        BY <1>0, <2>1, <2>2, SimpleTypes DEF Places
    <2>4. Input'
        BY <1>0, <2>1, <2>2 DEF TypeOK, Input, Untouched
    <2> QED BY <2>3, <2>4
<1>8. CASE ReadRoles
    <2>1. /\ UNCHANGED <<hist, req, sim, todo, began, perms, answer>> /\ pc = "check"
          /\ todo = <<>> /\ pc' = "perms" /\ lost' \in BOOLEAN
          /\ roles' \subseteq SimulatedRoles(Now, sim, req.user)
        BY <1>0, <1>8 DEF ReadRoles, Fetched, TypeOK, SimulatedRoles
    <2>2. req \in Requests /\ req.user \in Users /\ sim \in Simulated
        BY <1>0, <2>1 DEF TypeOK, Requests
    <2>3. SimulatedRoles(Now, sim, req.user) \subseteq Roles
        BY <2>2, GrantedFacts DEF SimulatedRoles, UserRoles
    <2>4. TypeOK'
        BY <1>0, <2>1, <2>3 DEF TypeOK, Places
    <2>5. Complete(sim)
        <3>1. Incomplete \notin Listed(todo)
            BY <2>1 DEF Listed
        <3> QED BY <1>0, <2>1, <2>2, <3>1, ChecksFacts DEF Input
    <2>6. Input'
        BY <1>0, <2>1, <2>5 DEF Input, Complete
    <2> QED BY <2>4, <2>6
<1>9. CASE ReadPermissions
    <2>1. /\ UNCHANGED <<hist, req, sim, todo, began, roles, answer>> /\ pc = "perms"
          /\ pc' = (IF req.resource = NoResource THEN "decide" ELSE "shortcut")
          /\ lost' \in BOOLEAN
          /\ perms' \subseteq SimulatedPermissions(Now, sim, req.user, roles)
        BY <1>0, <1>9 DEF ReadPermissions, Fetched, TypeOK, SimulatedPermissions
    <2>2. req \in Requests /\ req.perm \in Perms /\ sim \in Simulated /\ roles \in SUBSET Roles
          /\ Complete(sim)
        BY <1>0, <2>1 DEF TypeOK, Requests, Input
    <2>3. SimulatedPermissions(Now, sim, req.user, roles) \subseteq Perms
        BY <2>2, BoundFacts DEF SimulatedPermissions, UserPermissions
    <2>4. TypeOK'
        BY <1>0, <2>1, <2>3 DEF TypeOK, Places
    <2>5. Input'
        BY <1>0, <2>1 DEF Input, Complete
    <2> QED BY <2>4, <2>5
<1>10. CASE ReadShortcut
    <2>1. /\ Untouched /\ pc = "shortcut" /\ pc' \in {"owner", "decide"} /\ lost' \in BOOLEAN
          /\ answer' = answer /\ todo' = todo
        BY <1>0, <1>10 DEF ReadShortcut, Untouched, TypeOK
    <2> QED BY <1>0, <2>1, SimpleTypes DEF TypeOK, Input, Untouched, Places, Complete
<1>11. CASE ReadOwner
    <2>1. /\ Untouched /\ pc = "owner" /\ pc' \in {"done", "decide"} /\ lost' \in BOOLEAN
          /\ answer' \in SimulationAnswer /\ todo' = todo
        BY <1>0, <1>11, AnswerFacts DEF ReadOwner, Untouched, TypeOK
    <2> QED BY <1>0, <2>1, SimpleTypes DEF TypeOK, Input, Untouched, Places, Complete
<1>12. CASE DecideByRbac
    <2>1. /\ Untouched /\ pc = "decide" /\ pc' = "done" /\ lost' \in BOOLEAN /\ todo' = todo
        BY <1>0, <1>12 DEF DecideByRbac, Fetched, Untouched, TypeOK
    <2>2. \E candidates :
             answer' \in {Denial("USER_HAS_NO_ROLE"), Permit(roles \cap candidates),
                         Denial("PERMISSION_DENIED")}
        BY <1>12 DEF DecideByRbac
    <2>3. answer' \in SimulationAnswer
        BY <1>0, <2>2, AnswerFacts DEF TypeOK
    <2> QED BY <1>0, <2>1, <2>3, SimpleTypes DEF TypeOK, Input, Untouched, Places
<1>13. CASE Respond
    <2>1. <<>> \in Seq(Checks)
        OBVIOUS
    <2> QED BY <1>0, <1>13, <2>1, AnswerFacts, NothingFacts DEF Respond, TypeOK, Input, Places
<1> QED BY <1>1, <1>2, <1>3, <1>4, <1>5, <1>6, <1>7, <1>8, <1>9, <1>10, <1>11, <1>12,
           <1>13 DEF Simulate

-----------------------------------------------------------------------------
(* While rows are only added, what was seen is still so.                   *)

LEMMA CourseKept ==
    ASSUME IInv, Administer, pc' # "idle", Growing'
    PROVE  Course'
<1>0. /\ TypeOK /\ Input /\ Change /\ HistoryOK /\ pc # "idle" /\ began \in 1 .. Len(hist)
      /\ UNCHANGED <<pc, req, sim, todo, began, lost, roles, perms, answer>>
    BY DEF IInv, TypeOK, Input, Administer, workVars
<1>1. /\ Len(hist) \in Nat \ {0} /\ Len(hist') = Len(hist) + 1
      /\ \A i \in 1 .. Len(hist) : hist'[i] = hist[i]
    BY <1>0, NowIsAState, ChangeGrows, ChangeAppends DEF Grows
<1>2. OnlyAdds(Now, Now')
    <2>1. Len(hist) \in began' .. Len(hist') - 1
        BY <1>0, <1>1
    <2>2. OnlyAdds(hist'[Len(hist)], hist'[Len(hist) + 1])
        BY <2>1 DEF Growing
    <2> QED BY <1>1, <2>2 DEF Now
<1>3. Growing
    <2> SUFFICES ASSUME NEW c \in began .. Len(hist) - 1 PROVE OnlyAdds(hist[c], hist[c + 1])
        BY DEF Growing
    <2>1. c \in began' .. Len(hist') - 1 /\ c \in 1 .. Len(hist) /\ c + 1 \in 1 .. Len(hist)
        BY <1>0, <1>1
    <2>2. OnlyAdds(hist'[c], hist'[c + 1])
        BY <2>1 DEF Growing
    <2> QED BY <1>1, <2>1, <2>2
<1>4. Course
    BY <1>0, <1>3 DEF IInv
<1>5. /\ pc \notin {"idle", "done"} => req \in Requests
      /\ sim \in Simulated
    BY <1>0 DEF TypeOK
<1>6. GrantedRoles(sim, req.user) \subseteq Roles
    BY <1>5, GrantedFacts
<1>7. GrantsRegistered => GrantsRegistered'
    BY <1>0, <1>2, <1>6, OnlyAddsFacts DEF GrantsRegistered
<1>8. GrantsRegistered /\ GrantsEnabled' => GrantsEnabled
    <2> SUFFICES ASSUME NEW r \in GrantedRoles(sim, req.user),
                        Now.role[r] # "absent", Now'.role[r] = "on"
                 PROVE  Now.role[r] = "on"
        BY <1>0 DEF GrantsRegistered, GrantsEnabled, RoleRegistered
    <2> QED BY <1>2, <1>6 DEF OnlyAdds
<1>9. \A c \in Listed(ChecksOf(sim)) \ {Incomplete} : Registered(c) => Registered(c)'
    <2>1. Listed(ChecksOf(sim)) \subseteq Checks
        BY <1>5, ChecksFacts DEF Listed
    <2>2. ASSUME NEW r \in Roles, Registered(<<"role", r>>)
          PROVE  Registered(<<"role", r>>)'
        BY <1>2, <2>2, OnlyAddsFacts DEF Registered
    <2>3. ASSUME NEW p \in Perms, Registered(<<"permission", p>>)
          PROVE  Registered(<<"permission", p>>)'
        BY <1>2, <2>3, OnlyAddsFacts DEF Registered
    <2>4. \A c \in Checks \ {Incomplete} :
             \/ \E r \in Roles : c = <<"role", r>>
             \/ \E p \in Perms : c = <<"permission", p>>
        BY DEF Checks
    <2> QED BY <2>1, <2>2, <2>3, <2>4
<1>10. \A p \in perms : Held(p) => Held(p)'
    BY <1>0, <1>2, OnlyAddsFacts DEF Held
<1>11. SimulatedRoles(Now, sim, req.user) \subseteq SimulatedRoles(Now', sim, req.user)
    BY <1>2, OnlyAddsFacts DEF SimulatedRoles
<1>12. /\ Now'.app = Now.app
       /\ \A p \in Perms : Now.perm[p] = "on" =>
             Now'.perm[p] = "on" /\ (p \in Now.shortcut => p \in Now'.shortcut)
       /\ \A x \in Resources : Now.resource[x] = "on" => Now'.resource[x] = "on"
    BY <1>2 DEF OnlyAdds
<1>13. pc \notin {"idle", "done"} =>
          req.perm \in Perms /\ (req.resource # NoResource => req.resource \in Resources)
    BY <1>5 DEF Requests
<1> USE DEF Checked, Fitting, Found, Open
<1>14. /\ pc \in Open => Now'.app = "on"
       /\ pc \in Found => Now'.perm[req.perm] = "on"
       /\ pc \in Checked \cup {"check"} /\ req.resource # NoResource =>
             Now'.resource[req.resource] = "on"
       /\ pc = "owner" => req.perm \in Now'.shortcut
    BY <1>4, <1>12, <1>13 DEF Course
<1>15. pc \in {"resource", "check"} =>
          \A c \in Listed(ChecksOf(sim)) \ {Incomplete} :
             c \in Listed(todo) \/ Registered(c)'
    BY <1>4, <1>9 DEF Course
<1>16. /\ pc \in Checked => GrantsRegistered' /\ roles \subseteq SimulatedRoles(Now', sim, req.user)
       /\ pc \in Checked \ {"perms"} => \A p \in perms : Held(p)'
    BY <1>4, <1>7, <1>10, <1>11 DEF Course
<1>17. ASSUME pc = "done", answer.code = "OK"
       PROVE  /\ GrantsRegistered'
              /\ GrantsEnabled' =>
                    \E c \in began .. Len(hist') :
                       Decision(Hypothetical(hist'[c], sim), req).code = "OK"
    <2>1. /\ GrantsRegistered
          /\ GrantsEnabled =>
                \E c \in began .. Len(hist) :
                   Decision(Hypothetical(hist[c], sim), req).code = "OK"
        BY <1>4, <1>17 DEF Course
    <2>2. SUFFICES ASSUME GrantsEnabled'
                   PROVE  \E c \in began .. Len(hist') :
                             Decision(Hypothetical(hist'[c], sim), req).code = "OK"
        BY <1>7, <2>1
    <2>3. PICK c \in began .. Len(hist) :
             Decision(Hypothetical(hist[c], sim), req).code = "OK"
        BY <1>8, <2>1, <2>2
    <2>4. c \in began .. Len(hist') /\ hist'[c] = hist[c]
        BY <1>0, <1>1
    <2> QED BY <2>3, <2>4
<1> QED BY <1>0, <1>14, <1>15, <1>16, <1>17 DEF Course

LEMMA CourseStep ==
    ASSUME IInv, Simulate, pc' # "idle", Growing'
    PROVE  Course'
<1>0. /\ TypeOK /\ Input /\ HistoryOK /\ hist' = hist /\ Now' = Now
      /\ Now \in PolicyState /\ Len(hist) \in 1 .. Len(hist) /\ Now = hist[Len(hist)]
    BY SimulateKeepsHistory, NowIsAState DEF IInv, TypeOK, Now
<1> USE DEF Checked, Fitting, Found, Open
<1>1. CASE Receive
    BY <1>1 DEF Receive, Course
<1>2. CASE ReceiveIncomplete
    BY <1>2 DEF ReceiveIncomplete, Course, Denial
<1>3. SUFFICES ASSUME ~Receive, ~ReceiveIncomplete PROVE Course'
    BY <1>1, <1>2
<1>4. pc \notin {"idle", "done"} /\ UNCHANGED <<req, sim, began>>
    BY <1>3 DEF Simulate, ReadApp, CheckPermission, ReadPermission, ReadResource,
        CheckSimulated, ReadRoles, ReadPermissions, ReadShortcut, ReadOwner, DecideByRbac,
        Respond
<1>5. /\ req \in Requests /\ req.user \in Users /\ req.perm \in Perms
      /\ req.resource # NoResource => req.resource \in Resources
      /\ sim \in Simulated /\ began \in 1 .. Len(hist)
    BY <1>0, <1>4 DEF TypeOK, Requests, Input
<1>6. Course
    <2>1. Growing
        BY <1>0, <1>4 DEF Growing
    <2> QED BY <1>4, <2>1 DEF IInv
<1>7. ASSUME NEW c, pc' = "done", answer' = Denial(c), c # "OK" PROVE Course'
    BY <1>7 DEF Course, Denial
<1>8. CASE ReadApp
    <2>1. \/ /\ pc' = "exists" /\ Now.app = "on"
          \/ pc' = "done" /\ answer' \in {Denial("APP_NOT_FOUND"), Denial("APP_DISABLED")}
        BY <1>8 DEF ReadApp, Require
    <2> QED BY <1>0, <1>7, <2>1 DEF Course
<1>9. CASE CheckPermission
    <2>1. \/ /\ pc' = "info" /\ PermissionExists(Now, req.perm)
          \/ pc' = "done" /\ answer' = Denial("PERMISSION_NOT_FOUND")
        BY <1>9 DEF CheckPermission, Require, Asked
    <2> QED BY <1>0, <1>4, <1>7, <2>1 DEF Course, PermissionExists
<1>10. CASE ReadPermission
    <2>1. /\ pc = "info" /\ todo' = ChecksOf(sim)
          /\ \/ /\ pc' = (IF req.resource = NoResource THEN "check" ELSE "resource")
             \/ /\ pc' = "done"
                /\ answer' \in {Denial("PERMISSION_NOT_FOUND"), Denial("PERMISSION_DENIED")}
        BY <1>10 DEF ReadPermission, Require, Asked
    <2> QED BY <1>0, <1>4, <1>6, <1>7, <2>1 DEF Course
<1>11. CASE ReadResource
    <2>1. /\ pc = "resource" /\ todo' = todo
          /\ \/ pc' = "check" /\ ResourceEnabled(Now, req.resource)
             \/ pc' = "done" /\ answer' = Denial("RESOURCE_NOT_FOUND")
        BY <1>11 DEF ReadResource, Require, Asked
    <2> QED BY <1>0, <1>4, <1>6, <1>7, <2>1 DEF Course, ResourceEnabled, Registered
<1>12. CASE CheckSimulated
    <2>1. /\ pc = "check" /\ todo # <<>> /\ todo' = Tail(todo)
          /\ \/ pc' = "check" /\ Registered(Head(todo))
             \/ /\ pc' = "done"
                /\ answer' \in {Denial("INVALID_ARGUMENT"), Denial("NOT_FOUND")}
        BY <1>12 DEF CheckSimulated, Require, Asked
    <2>2. \A c \in Listed(todo) : c = Head(todo) \/ c \in Listed(Tail(todo))
        BY <1>0, <2>1, ListedTail DEF TypeOK
    <2>3. \A c : Registered(c)' = Registered(c)
        BY <1>0 DEF Registered
    <2> QED BY <1>0, <1>4, <1>6, <1>7, <2>1, <2>2, <2>3 DEF Course
<1>13. CASE ReadRoles
    <2>1. /\ pc = "check" /\ todo = <<>> /\ pc' = "perms"
          /\ roles' \subseteq SimulatedRoles(Now, sim, req.user)
        BY <1>13 DEF ReadRoles, SimulatedRoles
    <2>2. Listed(todo) = {}
        BY <2>1 DEF Listed
    <2>3. \A r \in GrantedRoles(sim, req.user) :
             <<"role", r>> \in Listed(ChecksOf(sim)) /\ r \in Roles
        BY <1>5, ChecksFacts, GrantedFacts
    <2>4. Incomplete \notin Listed(ChecksOf(sim))
        BY <1>0, <2>1, <2>2 DEF Input
    <2>5. \A r \in GrantedRoles(sim, req.user) : Registered(<<"role", r>>)
        BY <1>6, <2>1, <2>2, <2>3, <2>4 DEF Course
    <2>6. GrantsRegistered'
        BY <1>0, <1>4, <2>5 DEF GrantsRegistered, Registered
    <2> QED BY <1>0, <1>4, <1>6, <2>1, <2>6 DEF Course
<1>14. CASE ReadPermissions
    <2>1. /\ pc = "perms" /\ roles' = roles
          /\ pc' = (IF req.resource = NoResource THEN "decide" ELSE "shortcut")
          /\ perms' \subseteq SimulatedPermissions(Now, sim, req.user, roles)
        BY <1>14 DEF ReadPermissions, SimulatedPermissions
    <2>2. Complete(sim) /\ roles \in SUBSET Roles /\ perms' \subseteq Perms
        <3>1. Complete(sim) /\ roles \in SUBSET Roles
            BY <1>0, <2>1 DEF TypeOK, Input
        <3>2. SimulatedPermissions(Now, sim, req.user, roles) \subseteq Perms
            BY <1>5, <3>1, BoundFacts DEF SimulatedPermissions, UserPermissions
        <3> QED BY <2>1, <3>1, <3>2
    <2>3. ASSUME NEW p \in perms' PROVE Held(p)'
        <3>1. \/ p \in UserPermissions(Now, req.user)
              \/ p \in {b[2] : b \in {c \in Listed(sim.bindings) : c[1] \in roles}}
            BY <2>1, <2>3 DEF SimulatedPermissions
        <3>2. p \in UserPermissions(Now, req.user) \/
                 \E r \in roles : <<r, p>> \in Listed(sim.bindings)
            BY <1>5, <2>2, <2>3, <3>1, BoundFacts
        <3> QED BY <1>0, <1>4, <2>1, <3>2 DEF Held
    <2>4. GrantsRegistered' = GrantsRegistered
        BY <1>0, <1>4 DEF GrantsRegistered
    <2> QED BY <1>0, <1>4, <1>6, <2>1, <2>3, <2>4 DEF Course
<1>15. ASSUME pc \in {"shortcut", "owner"}, UNCHANGED <<roles, perms>>
       PROVE  /\ GrantsRegistered' /\ roles' \subseteq SimulatedRoles(Now', sim', req'.user)
              /\ \A p \in perms' : Held(p)'
              /\ Now'.app = "on" /\ Now'.perm[req'.perm] = "on"
              /\ req'.resource # NoResource => Now'.resource[req'.resource] = "on"
    <2>1. GrantsRegistered' = GrantsRegistered /\ \A p : Held(p)' = Held(p)
        BY <1>0, <1>4, <1>15 DEF GrantsRegistered, Held
    <2> QED BY <1>0, <1>4, <1>6, <1>15, <2>1 DEF Course
<1>16. CASE ReadShortcut
    <2>1. /\ pc = "shortcut" /\ UNCHANGED <<roles, perms>>
          /\ \/ pc' = "owner" /\ OwnerShortcutEnabled(Now, req.perm)
             \/ pc' = "decide"
        BY <1>16 DEF ReadShortcut, Asked
    <2> QED BY <1>0, <1>4, <1>15, <2>1 DEF Course, OwnerShortcutEnabled
<1>17. CASE ReadOwner
    <2>1. /\ pc = "owner" /\ UNCHANGED <<roles, perms>>
          /\ \/ /\ pc' = "done"
                /\ EffectiveOwner(Now, sim, req.resource) = req.user
             \/ pc' = "decide"
        BY <1>17 DEF ReadOwner, Asked, EffectiveOwner
    <2>2. CASE pc' = "decide"
        BY <1>0, <1>4, <1>15, <2>1, <2>2 DEF Course
    <2>3. CASE pc' = "done"
        <3>1. /\ PermissionExists(Now, req.perm) /\ ~Mismatch(req)
              /\ req.resource # NoResource /\ ResourceEnabled(Now, req.resource)
              /\ OwnerShortcutEnabled(Now, req.perm)
            BY <1>0, <1>6, <2>1
               DEF Course, Input, PermissionExists, ResourceEnabled, OwnerShortcutEnabled
        <3>2. Decision(Hypothetical(Now, sim), req).code = "OK"
            BY <1>0, <1>5, <2>1, <2>3, <3>1, PermitsOwner
        <3>3. Len(hist) \in began .. Len(hist)
            BY <1>5
        <3>4. \E c \in began' .. Len(hist') :
                 Decision(Hypothetical(hist'[c], sim'), req').code = "OK"
            BY <1>0, <1>4, <3>2, <3>3
        <3> QED BY <1>15, <2>1, <2>3, <3>4 DEF Course
    <2> QED BY <2>1, <2>2, <2>3
<1>18. CASE DecideByRbac
    <2>1. /\ pc = "decide" /\ pc' = "done"
          /\ \/ answer' \in {Denial("USER_HAS_NO_ROLE"), Denial("PERMISSION_DENIED")}
             \/ req.perm \in perms
        BY <1>18 DEF DecideByRbac
    <2>2. SUFFICES ASSUME req.perm \in perms PROVE Course'
        BY <1>7, <2>1
    <2>3. /\ Now.app = "on" /\ Now.perm[req.perm] = "on" /\ ~Mismatch(req)
          /\ req.resource # NoResource => Now.resource[req.resource] = "on"
          /\ GrantsRegistered /\ roles \subseteq SimulatedRoles(Now, sim, req.user)
          /\ Held(req.perm)
        BY <1>0, <1>6, <2>1, <2>2 DEF Course, Input
    <2>4. GrantsRegistered' = GrantsRegistered /\ GrantsEnabled' = GrantsEnabled
        BY <1>0, <1>4 DEF GrantsRegistered, GrantsEnabled
    <2>5. ASSUME GrantsEnabled
          PROVE  Decision(Hypothetical(Now, sim), req).code = "OK"
        <3>1. SimulatedRoles(Now, sim, req.user) \subseteq
                 UserRoles(Hypothetical(Now, sim), req.user)
            BY <1>0, <1>5, <2>3, <2>5, HypotheticalRoles DEF SimulatedRoles, GrantsEnabled
        <3>2. \E x \in UserRoles(Hypothetical(Now, sim), req.user) :
                 <<x, req.perm>> \in Now.binds \cup Listed(sim.bindings)
            <4>1. CASE req.perm \in UserPermissions(Now, req.user)
                BY <3>1, <4>1 DEF UserPermissions, SimulatedRoles
            <4>2. CASE \E r \in roles : <<r, req.perm>> \in Listed(sim.bindings)
                BY <2>3, <3>1, <4>2
            <4> QED BY <2>3, <4>1, <4>2 DEF Held
        <3> QED BY <1>0, <1>5, <2>3, <3>2, PermitsByRole
    <2>6. Len(hist) \in began .. Len(hist)
        BY <1>5
    <2>7. GrantsEnabled => \E c \in began' .. Len(hist') :
                 Decision(Hypothetical(hist'[c], sim'), req').code = "OK"
        BY <1>0, <1>4, <2>5, <2>6
    <2> QED BY <2>1, <2>3, <2>4, <2>7 DEF Course
<1>19. CASE Respond
    BY <1>19 DEF Respond
<1> QED BY <1>3, <1>8, <1>9, <1>10, <1>11, <1>12, <1>13, <1>14, <1>16, <1>17, <1>18,
           <1>19 DEF Simulate

-----------------------------------------------------------------------------
(* While nothing changes and nothing fails, one state explains it all.     *)

LEMMA ExactStep ==
    ASSUME IInv, Simulate, pc' # "idle", began' = Len(hist'), ~lost'
    PROVE  Exact'
<1>0. /\ TypeOK /\ Input /\ HistoryOK /\ hist' = hist /\ Now' = Now
      /\ Now \in PolicyState /\ Len(hist) \in Nat
    BY SimulateKeepsHistory, NowIsAState DEF IInv, TypeOK, Now
<1> USE DEF Checked, Fitting, Found, Open
<1>1. CASE Receive
    BY <1>1 DEF Receive, Exact
<1>2. CASE ReceiveIncomplete
    BY <1>2 DEF ReceiveIncomplete, Exact, Denial
<1>3. SUFFICES ASSUME ~Receive, ~ReceiveIncomplete PROVE Exact'
    BY <1>1, <1>2
<1>4. pc \notin {"idle", "done"} /\ UNCHANGED <<req, sim, began>> /\ ~lost
    <2>1. pc \notin {"idle", "done"} /\ UNCHANGED <<req, sim, began>>
        BY <1>3 DEF Simulate, ReadApp, CheckPermission, ReadPermission, ReadResource,
            CheckSimulated, ReadRoles, ReadPermissions, ReadShortcut, ReadOwner,
            DecideByRbac, Respond
    <2>2. lost' = lost
        <3>1. CASE ReadRoles
            BY <3>1 DEF ReadRoles, Fetched
        <3>2. CASE ReadPermissions
            BY <3>2 DEF ReadPermissions, Fetched
        <3>3. CASE DecideByRbac
            BY <3>3 DEF DecideByRbac, Fetched
        <3>4. CASE ReadApp \/ CheckPermission \/ ReadPermission \/ ReadResource
                   \/ CheckSimulated \/ ReadShortcut \/ ReadOwner
            BY <3>4 DEF ReadApp, CheckPermission, ReadPermission, ReadResource,
                CheckSimulated, ReadShortcut, ReadOwner, Asked
        <3> QED BY <1>3, <2>1, <3>1, <3>2, <3>3, <3>4 DEF Simulate, Respond
    <2> QED BY <2>1, <2>2
<1>5. /\ req \in Requests /\ req.perm \in Perms
      /\ req.resource # NoResource => req.resource \in Resources
      /\ Now.app \in Status
    BY <1>0, <1>4 DEF TypeOK, Requests, PolicyState
<1>6. Course /\ Exact
    <2>1. began = Len(hist)
        BY <1>0, <1>4
    <2>2. Growing
        BY <1>0, <2>1 DEF Growing
    <2> QED BY <1>4, <2>1, <2>2 DEF IInv
<1>7. ASSUME pc' = "done", answer' = Predicted(Now, sim, req) PROVE Exact'
    BY <1>0, <1>4, <1>7 DEF Exact
<1>8. CASE ReadApp
    <2>1. \/ pc' = "exists"
          \/ /\ pc' = "done" /\ Now.app # "on"
             /\ answer' = Denial(IF Now.app = "absent" THEN "APP_NOT_FOUND"
                                 ELSE "APP_DISABLED")
        BY <1>8 DEF ReadApp, Require, Asked
    <2> QED BY <1>5, <1>7, <2>1 DEF Exact, Predicted, Status
<1>9. CASE CheckPermission
    <2>1. /\ pc = "exists"
          /\ \/ pc' = "info"
             \/ /\ pc' = "done" /\ ~PermissionExists(Now, req.perm)
                /\ answer' = Denial("PERMISSION_NOT_FOUND")
        BY <1>9 DEF CheckPermission, Require, Asked
    <2> QED BY <1>6, <1>7, <2>1 DEF Exact, Course, Predicted
<1>10. CASE ReadPermission
    <2>1. /\ pc = "info"
          /\ \/ pc' \in {"check", "resource"}
             \/ /\ pc' = "done" /\ ~PermissionExists(Now, req.perm)
                /\ answer' = Denial("PERMISSION_NOT_FOUND")
             \/ /\ pc' = "done" /\ PermissionExists(Now, req.perm) /\ Mismatch(req)
                /\ answer' = Denial("PERMISSION_DENIED")
        BY <1>10 DEF ReadPermission, Require, Asked
    <2> QED BY <1>6, <1>7, <2>1 DEF Exact, Course, Predicted
<1>11. Now.app = "on" /\ pc \in Fitting => PermissionExists(Now, req.perm) /\ ~Mismatch(req)
    BY <1>0, <1>6 DEF Course, Input, PermissionExists
<1>12. CASE ReadResource
    <2>1. /\ pc = "resource"
          /\ \/ pc' = "check"
             \/ /\ pc' = "done" /\ ~ResourceEnabled(Now, req.resource)
                /\ answer' = Denial("RESOURCE_NOT_FOUND")
        BY <1>12 DEF ReadResource, Require, Asked
    <2>2. Now.app = "on" /\ req.resource # NoResource
        BY <1>0, <1>6, <2>1 DEF Course, Input
    <2> QED BY <1>7, <1>11, <2>1, <2>2 DEF Exact, Predicted
<1>13. CASE CheckSimulated
    <2>1. \/ pc' = "check"
          \/ /\ pc' = "done"
             /\ answer' \in {Denial("INVALID_ARGUMENT"), Denial("NOT_FOUND")}
        BY <1>13 DEF CheckSimulated, Require
    <2> QED BY <2>1 DEF Exact, Denial
<1>14. CASE ReadRoles
    <2>1. pc' = "perms" /\ roles' = SimulatedRoles(Now, sim, req.user)
        BY <1>14 DEF ReadRoles, Fetched, SimulatedRoles
    <2> QED BY <1>0, <1>4, <2>1 DEF Exact
<1>15. pc \in {"perms", "shortcut", "owner", "decide"} =>
          /\ Now.app = "on" /\ PermissionExists(Now, req.perm) /\ ~Mismatch(req)
          /\ req.resource # NoResource => ResourceEnabled(Now, req.resource)
          /\ roles = SimulatedRoles(Now, sim, req.user)
          /\ pc # "perms" => perms = SimulatedPermissions(Now, sim, req.user, roles)
    BY <1>6, <1>11 DEF Course, Exact, ResourceEnabled
<1>16. CASE ReadPermissions
    <2>1. /\ pc = "perms" /\ roles' = roles
          /\ pc' = (IF req.resource = NoResource THEN "decide" ELSE "shortcut")
          /\ perms' = SimulatedPermissions(Now, sim, req.user, roles)
        BY <1>16 DEF ReadPermissions, Fetched, SimulatedPermissions
    <2>2. pc' = "decide" => Predicted(Now, sim, req) = PredictedByRbac(Now, sim, req)
        BY <1>15, <2>1 DEF Predicted
    <2> QED BY <1>0, <1>4, <1>15, <2>1, <2>2 DEF Exact
<1>17. CASE ReadShortcut
    <2>1. /\ pc = "shortcut" /\ UNCHANGED <<roles, perms>>
          /\ \/ pc' = "owner"
             \/ pc' = "decide" /\ ~OwnerShortcutEnabled(Now, req.perm)
        BY <1>17 DEF ReadShortcut, Asked
    <2>2. pc' = "decide" => Predicted(Now, sim, req) = PredictedByRbac(Now, sim, req)
        BY <1>0, <1>15, <2>1 DEF Predicted, Input
    <2> QED BY <1>0, <1>4, <1>15, <2>1, <2>2 DEF Exact
<1>18. CASE ReadOwner
    <2>1. /\ pc = "owner" /\ UNCHANGED <<roles, perms>>
          /\ \/ /\ pc' = "done" /\ answer' = OwnerPermit
                /\ EffectiveOwner(Now, sim, req.resource) = req.user
             \/ pc' = "decide" /\ EffectiveOwner(Now, sim, req.resource) # req.user
        BY <1>18 DEF ReadOwner, Asked, EffectiveOwner
    <2>2. req.resource # NoResource /\ OwnerShortcutEnabled(Now, req.perm)
        BY <1>0, <1>6, <1>15, <2>1 DEF Course, Input, OwnerShortcutEnabled
    <2>3. CASE pc' = "done"
        <3>1. answer' = Predicted(Now, sim, req)
            BY <1>15, <2>1, <2>2, <2>3 DEF Predicted
        <3> QED BY <1>7, <2>3, <3>1
    <2>4. CASE pc' = "decide"
        <3>1. Predicted(Now, sim, req) = PredictedByRbac(Now, sim, req)
            BY <1>15, <2>1, <2>2, <2>4 DEF Predicted
        <3> QED BY <1>0, <1>4, <1>15, <2>1, <2>4, <3>1 DEF Exact
    <2> QED BY <2>1, <2>3, <2>4
<1>19. CASE DecideByRbac
    <2>1. /\ pc = "decide" /\ pc' = "done"
          /\ answer' = IF roles = {} THEN Denial("USER_HAS_NO_ROLE")
                       ELSE IF req.perm \in perms
                            THEN Permit(roles \cap SimulatedCandidates(Now, sim, req.perm))
                       ELSE Denial("PERMISSION_DENIED")
        BY <1>19 DEF DecideByRbac, Fetched, SimulatedCandidates
    <2>2. /\ Predicted(Now, sim, req) = PredictedByRbac(Now, sim, req)
          /\ roles = SimulatedRoles(Now, sim, req.user)
          /\ perms = SimulatedPermissions(Now, sim, req.user, roles)
        BY <1>6, <2>1 DEF Exact
    <2> QED BY <1>7, <2>1, <2>2 DEF PredictedByRbac
<1>20. CASE Respond
    BY <1>20 DEF Respond
<1> QED BY <1>3, <1>8, <1>9, <1>10, <1>12, <1>13, <1>14, <1>16, <1>17, <1>18, <1>19,
           <1>20 DEF Simulate

-----------------------------------------------------------------------------
(* The theorems.                                                           *)

\* A change of the tables leaves types alone, and cannot be overlooked.
LEMMA AdministerStep ==
    ASSUME IInv, Administer
    PROVE  IInv'
<1>1. /\ TypeOK /\ Input /\ Change /\ HistoryOK /\ HistoryOK'
      /\ UNCHANGED <<pc, req, sim, todo, began, lost, roles, perms, answer>>
    BY ChangeGrows DEF IInv, TypeOK, Administer, workVars, Grows
<1>2. Len(hist) \in Nat /\ Len(hist') = Len(hist) + 1
    BY <1>1, NowIsAState, ChangeAppends
<1>3. TypeOK' /\ Input'
    BY <1>1, <1>2 DEF TypeOK, Input, Complete
<1>4. pc' # "idle" => began' # Len(hist')
    BY <1>1, <1>2 DEF Input
<1> QED BY <1>3, <1>4, CourseKept DEF IInv

THEOREM Invariance == Spec => []IInv
<1>1. Init => IInv
    <2> SUFFICES ASSUME Init PROVE IInv
        OBVIOUS
    <2>1. HistoryOK
        BY FirstStateAssumption DEF Init, HistoryOK
    <2>2. <<>> \in Seq(Checks)
        OBVIOUS
    <2>3. TypeOK /\ Input
        BY <2>1, <2>2, AnswerFacts, NothingFacts DEF Init, TypeOK, Input, Places, Fitting, Checked
    <2> QED BY <2>3 DEF IInv, Init
<1>2. ASSUME IInv, [Next]_vars PROVE IInv'
    <2>1. CASE Simulate
        BY <1>2, <2>1, TypeStep, CourseStep, ExactStep DEF IInv
    <2>2. CASE Administer
        BY <1>2, <2>2, AdministerStep
    <2>3. CASE UNCHANGED vars
        BY <1>2, <2>3 DEF vars, workVars, IInv, TypeOK, HistoryOK, Input, Complete, Growing,
            Course, Exact, GrantsRegistered, GrantsEnabled, Held, Registered, Now
    <2> QED BY <1>2, <2>1, <2>2, <2>3 DEF Next
<1> QED BY <1>1, <1>2, PTL DEF Spec

THEOREM TypeCorrect == Spec => []TypeOK
<1>1. IInv => TypeOK
    BY DEF IInv
<1> QED BY Invariance, <1>1, PTL

\* A valid simulation that gives the user himself no role is answered as the
\* decision engine would answer on the changed tables: what tryOwnerShortcut,
\* buildEffectivePermssions and evaluateByRbac compute from the real rows and the
\* simulated ones is the same, matched roles and owner flag included.
THEOREM PredictionsAreExact == Spec => []PredictionExact
<1>1. ASSUME IInv, Undisturbed
      PROVE  /\ Now \in PolicyState /\ sim \in Simulated /\ Complete(sim)
             /\ req \in Requests /\ answer = Predicted(Now, sim, req)
    BY <1>1, NowIsAState DEF IInv, TypeOK, Input, Exact, Undisturbed, Complete
<1>2. IInv => PredictionExact
    BY <1>1, PredictsExactly DEF PredictionExact
<1> QED BY Invariance, <1>2, PTL

\* The only denial that the changed tables contradict is one that misses a
\* permission of a role granted by the simulation.
THEOREM WrongDenialsExplained == Spec => []DenialOnlyMissesGrantedRoles
<1>1. ASSUME IInv, Undisturbed
      PROVE  /\ Now \in PolicyState /\ sim \in Simulated /\ Complete(sim)
             /\ req \in Requests /\ answer = Predicted(Now, sim, req)
    BY <1>1, NowIsAState DEF IInv, TypeOK, Input, Exact, Undisturbed, Complete
<1>2. IInv => DenialOnlyMissesGrantedRoles
    BY <1>1, DeniesTooMuch DEF DenialOnlyMissesGrantedRoles
<1> QED BY Invariance, <1>2, PTL

\* While only the AdminService writes, a simulated permit is a permit of the
\* changed tables of some moment of the simulation, whatever fails.
THEOREM PermitsHold == Spec => []PermitHolds
<1>1. IInv => PermitHolds
    BY DEF IInv, Course, Growing, PermitHolds
<1> QED BY Invariance, <1>1, PTL

\* While only the AdminService writes, rows are only added, so a simulated
\* permit of enabled roles needs no further condition: in one state of the
\* simulation's lifetime the decision engine would permit the same.
THEOREM PermitsHoldForService ==
    ASSUME Edits \subseteq ApiEdits
    PROVE  Spec => [](pc = "done" /\ answer.code = "OK" /\ GrantsEnabled =>
                         \E c \in began .. Len(hist) :
                             Decision(Hypothetical(hist[c], sim), req).code = "OK")
<1> DEFINE Permitted ==
        pc = "done" /\ answer.code = "OK" /\ GrantsEnabled =>
            \E c \in began .. Len(hist) :
                Decision(Hypothetical(hist[c], sim), req).code = "OK"
<1>1. Init => Adding
    BY OnlyAddsRefl DEF Init, Adding
<1>2. IInv /\ Adding /\ [Next]_vars => Adding'
    <2> SUFFICES ASSUME IInv, Adding, [Next]_vars PROVE Adding'
        OBVIOUS
    <2>1. CASE UNCHANGED hist
        BY <2>1 DEF Adding
    <2>2. CASE Administer
        BY <2>2, ServiceKeepsAdding DEF Administer, IInv, TypeOK
    <2>3. CASE UNCHANGED vars
        BY <2>1, <2>3 DEF vars
    <2>4. Simulate => UNCHANGED hist
        BY SimulateKeepsHistory
    <2> QED BY <2>1, <2>2, <2>3, <2>4 DEF Next
<1>3. IInv /\ Adding /\ PermitHolds => Permitted
    <2> SUFFICES ASSUME IInv, Adding, PermitHolds, pc = "done"
                 PROVE  \A c \in began .. Len(hist) - 1 : OnlyAdds(hist[c], hist[c + 1])
        BY DEF PermitHolds
    <2>1. began \in 1 .. Len(hist) /\ Len(hist) \in Nat
        BY DEF IInv, TypeOK, Input, HistoryOK
    <2> QED BY <2>1 DEF Adding
<1> QED BY <1>1, <1>2, <1>3, Invariance, PermitsHold, PTL DEF Spec
=============================================================================
