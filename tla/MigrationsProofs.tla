-------------------------- MODULE MigrationsProofs --------------------------
(***************************************************************************)
(* Theorems about Migrations, for any number of containers, scripts and    *)
(* starts, whatever the scripts add, drop, need and clash with.            *)
(***************************************************************************)
EXTENDS Migrations, WellFoundedInduction, TLAPS

-----------------------------------------------------------------------------
(* The next script, and the types. *)

\* The script that apply_one takes is the first of those left.
LEMMA NextScriptIsFirst ==
    ASSUME NEW d, containers[d].pending \subseteq Scripts,
           containers[d].pending # {}
    PROVE  /\ NextScript(d) \in containers[d].pending
           /\ \A v \in containers[d].pending : NextScript(d) <= v
<1> DEFINE S == containers[d].pending
<1>1. S \subseteq Nat /\ S # {}
  BY MigrationAssumption DEF Scripts
<1> HIDE DEF S
<1>2. \E n \in S : \A m \in S : n <= m
  <2> DEFINE R == OpToRel(<, Nat)
  <2>1. IsWellFoundedOn(R, Nat)
    BY NatLessThanWellFounded
  <2>2. \A x, y \in Nat : x < y => <<x, y>> \in R
    BY DEF OpToRel
  <2> HIDE DEF R
  <2>3. PICK x \in S : \A y \in S : <<y, x>> \notin R
    BY <1>1, <2>1, WFMin
  <2>4. ASSUME NEW y \in S PROVE x <= y
    <3>1. x \in Nat /\ y \in Nat /\ <<y, x>> \notin R
      BY <1>1, <2>3
    <3>2. ~(y < x)
      BY <2>2, <3>1
    <3>. QED
      BY <3>1, <3>2
  <2>. QED
    BY <2>4
<1>3. Min(S) \in S /\ \A m \in S : Min(S) <= m
  BY <1>2 DEF Min
<1>. QED
  BY <1>3 DEF NextScript, S

\* The first file is a script, and every script comes after it.
LEMMA InitialIsFirst ==
    Initial \in Scripts /\ \A v \in Scripts : v \in Nat /\ Initial <= v
BY MigrationAssumption DEF Initial, Scripts

\* More scripts add and drop no less.
LEMMA MoreIsAdded ==
    ASSUME NEW vs, NEW ws, vs \subseteq ws
    PROVE  AddedBy(vs) \subseteq AddedBy(ws) /\ DroppedBy(vs) \subseteq DroppedBy(ws)
BY DEF AddedBy, DroppedBy

\* A container has a script left that it is about to record.
MigrationTypeInv ==
    /\ MigrationTypeOK
    /\ \A d \in Containers :
          containers[d].at = "recording" => containers[d].pending # {}

\* Nothing has started.
LEMMA MigrationInitTypes == MigrationInit => MigrationTypeInv
<1> SUFFICES ASSUME MigrationInit PROVE MigrationTypeInv
  OBVIOUS
<1>1. Down \in Container /\ Down.at = "down"
  BY DEF Down, Container
<1>2. recorded \subseteq Scripts /\ ran \subseteq Scripts
  BY InitialIsFirst DEF MigrationInit
<1>3. starts \in 0..MaxStarts
  BY MigrationAssumption DEF MigrationInit
<1>4. cut \in BOOLEAN /\ together \in BOOLEAN
  BY Zenon DEF MigrationInit
<1>5. schema \subseteq Platform \cup AddedBy(Scripts)
  BY <1>2, MoreIsAdded DEF MigrationInit
<1>. QED
  BY <1>1, <1>2, <1>3, <1>4, <1>5 DEF MigrationInit, MigrationTypeInv, MigrationTypeOK

\* A step of one container keeps the types when the container keeps its own.
LEMMA TypesOfOne ==
    ASSUME MigrationTypeInv, NEW d \in Containers, NEW new \in Container,
           containers' = [containers EXCEPT ![d] = new],
           new.at = "recording" => new.pending # {},
           recorded' \subseteq Scripts, ran' \subseteq Scripts,
           schema' \subseteq Platform \cup AddedBy(Scripts),
           starts' \in 0..MaxStarts, cut' \in BOOLEAN, together' \in BOOLEAN
    PROVE  MigrationTypeInv'
<1>1. containers' \in [Containers -> Container]
  BY DEF MigrationTypeInv, MigrationTypeOK
<1>2. ASSUME NEW e \in Containers, containers'[e].at = "recording"
      PROVE  containers'[e].pending # {}
  BY <1>2 DEF MigrationTypeInv, MigrationTypeOK
<1>. QED
  BY <1>1, <1>2 DEF MigrationTypeInv, MigrationTypeOK

\* What LookForSchema keeps of the schema.
LEMMA SchemaSeen ==
    ASSUME NEW d \in Containers, containers \in [Containers -> Container],
           LookForSchema(d)
    PROVE  containers'[d].tenants = (Adds[Initial] \subseteq schema)
<1>1. PICK b : b = (Adds[Initial] \subseteq schema)
  BY Zenon
<1>2. containers' = [containers EXCEPT ![d].at = "applying", ![d].tenants = b]
  BY <1>1, Zenon DEF LookForSchema
<1>3. containers'[d].tenants = b
  BY <1>2 DEF Container
<1>. QED
  BY <1>1, <1>3, Zenon

-----------------------------------------------------------------------------
(* The schema has all that a prefix of the files leaves. *)

\* What a container believes of the schema is so: the scripts it has put behind it
\* ran, and it saw the first one only if it ran.
Sound(d) ==
    /\ containers[d].at \in {"looking", "applying", "recording"}
          => Scripts \ containers[d].pending \subseteq ran
    /\ containers[d].tenants => Initial \in ran
    /\ containers[d].at = "recording" => NextScript(d) \in ran
    /\ containers[d].at = "serving" => ran = Scripts

SchemaInv ==
    /\ \A v, w \in Scripts : v <= w /\ w \in ran => v \in ran
    /\ recorded \subseteq ran
    /\ Left(ran) \subseteq schema
    /\ schema \subseteq Platform \cup AddedBy(ran)
    /\ \A d \in Containers : Sound(d)

\* A container that rests stays sound while scripts are only added.
LEMMA SoundRests ==
    ASSUME MigrationTypeInv, NEW d \in Containers, Sound(d),
           containers'[d] = containers[d], ran \subseteq ran', ran' \subseteq Scripts
    PROVE  Sound(d)'
<1>1. NextScript(d)' = NextScript(d)
  BY DEF NextScript
<1>. QED
  BY <1>1 DEF Sound, MigrationTypeInv, MigrationTypeOK

\* A step of one container that leaves the schema and the record alone.
LEMMA SchemaRests ==
    ASSUME MigrationTypeInv, SchemaInv, NEW d \in Containers,
           \A e \in Containers \ {d} : containers'[e] = containers[e],
           ran' = ran, schema' = schema, recorded' \subseteq ran, Sound(d)'
    PROVE  SchemaInv'
<1>1. ASSUME NEW e \in Containers PROVE Sound(e)'
  <2>1. CASE e # d
    BY <2>1, SoundRests DEF SchemaInv, MigrationTypeInv, MigrationTypeOK
  <2>. QED
    BY <2>1
<1>2. Left(ran)' = Left(ran) /\ AddedBy(ran)' = AddedBy(ran)
  BY DEF Left, AddedBy, DroppedBy
<1>. QED
  BY <1>1, <1>2 DEF SchemaInv

\* A schema that has what the first script makes has had a script run on it.
LEMMA TenantsTell ==
    ASSUME SchemaInv, ran \subseteq Scripts, Adds[Initial] \subseteq schema
    PROVE  Initial \in ran
<1>1. Adds[Initial] # {} /\ Adds[Initial] \cap Platform = {} /\ Initial \in Scripts
  BY MigrationAssumption, InitialIsFirst
<1>2. PICK x : x \in Adds[Initial] /\ x \in AddedBy(ran)
  BY <1>1 DEF SchemaInv
<1>3. PICK v \in ran : x \in Adds[v]
  BY <1>2 DEF AddedBy
<1>. QED
  BY <1>1, <1>3, InitialIsFirst DEF SchemaInv

\* One more script keeps what the others leave, whether it has run before or not.
LEMMA RunAgain ==
    ASSUME NEW vs, NEW v, NEW before, Left(vs) \subseteq before,
           before \subseteq Platform \cup AddedBy(vs)
    PROVE  LET after == (before \cup Adds[v]) \ Drops[v]
           IN  /\ Left(vs \cup {v}) \subseteq after
               /\ after \subseteq Platform \cup AddedBy(vs \cup {v})
<1>1. /\ AddedBy(vs \cup {v}) = AddedBy(vs) \cup Adds[v]
      /\ DroppedBy(vs \cup {v}) = DroppedBy(vs) \cup Drops[v]
  BY DEF AddedBy, DroppedBy
<1>. QED
  BY <1>1 DEF Left

\* The database is new or holds the first script.
LEMMA SchemaInitially == MigrationInit => SchemaInv
<1> SUFFICES ASSUME MigrationInit PROVE SchemaInv
  OBVIOUS
<1>1. \A v, w \in Scripts : v <= w /\ w \in ran => v \in ran
  BY InitialIsFirst DEF MigrationInit
<1>2. recorded \subseteq ran
  BY DEF MigrationInit
<1>3. \A d \in Containers : Sound(d)
  BY DEF MigrationInit, Sound, Down
<1>4. Left(ran) \subseteq schema /\ schema \subseteq Platform \cup AddedBy(ran)
  BY DEF MigrationInit, Left
<1>. QED
  BY <1>1, <1>2, <1>3, <1>4 DEF SchemaInv

\* Every step of a container keeps the types and the schema: the script it runs is
\* the first it has not put behind it, and what it has put behind it ran.
LEMMA StepKeepsSchema ==
    ASSUME MigrationTypeInv, SchemaInv, NEW d \in Containers,
           \/ StartContainer(d) \/ DatabaseReady(d) \/ List(d) \/ LookForSchema(d)
           \/ AdoptSchema(d) \/ Execute(d) \/ Stamp(d) \/ Serve(d) \/ Stop(d)
    PROVE  MigrationTypeInv' /\ SchemaInv'
<1>0. PICK c \in Container : c = containers[d]
  BY DEF MigrationTypeInv, MigrationTypeOK
<1>1. /\ c.pending \in SUBSET Scripts /\ c.tenants \in BOOLEAN
      /\ recorded \subseteq Scripts /\ ran \subseteq Scripts
      /\ starts \in 0..MaxStarts /\ cut \in BOOLEAN /\ together \in BOOLEAN
      /\ schema \subseteq Platform \cup AddedBy(Scripts)
      /\ Down \in Container
  BY DEF MigrationTypeInv, MigrationTypeOK, Container, Down
<1>2. Initial \in Scripts
  BY InitialIsFirst
<1>3. Sound(d)
  BY DEF SchemaInv
<1>4. ASSUME NEW x \in Container, containers' = [containers EXCEPT ![d] = x],
             x.at = "recording" => x.pending # {},
             recorded' \subseteq Scripts, ran' \subseteq Scripts,
             schema' \subseteq Platform \cup AddedBy(Scripts),
             starts' \in 0..MaxStarts, cut' \in BOOLEAN, together' \in BOOLEAN
      PROVE  /\ MigrationTypeInv'
             /\ containers'[d] = x
             /\ \A e \in Containers \ {d} : containers'[e] = containers[e]
  BY <1>4, TypesOfOne DEF MigrationTypeInv, MigrationTypeOK
<1>5. CASE StartContainer(d)
  <2>1. PICK x \in Container : x = [Down EXCEPT !.at = "waiting"]
    BY <1>0, <1>1 DEF Container
  <2>2. x.at = "waiting" /\ ~x.tenants
    BY <2>1 DEF Down
  <2>3. starts' \in 0..MaxStarts
    BY <1>0, <1>1, <1>5, MigrationAssumption DEF StartContainer
  <2>4. MigrationTypeInv' /\ containers'[d] = x
        /\ \A e \in Containers \ {d} : containers'[e] = containers[e]
    BY <1>0, <1>1, <1>4, <1>5, <2>1, <2>2, <2>3 DEF StartContainer
  <2>5. Sound(d)'
    BY <2>2, <2>4 DEF Sound
  <2>. QED
    BY <1>5, <2>4, <2>5, SchemaRests DEF StartContainer, SchemaInv
<1>6. CASE DatabaseReady(d)
  <2>1. PICK x \in Container : x = [c EXCEPT !.at = "listing"]
    BY <1>0, <1>1 DEF Container
  <2>2. x.at = "listing" /\ x.tenants = c.tenants
    BY <1>0, <1>1, <2>1 DEF Container
  <2>3. together' \in BOOLEAN /\ cut' = cut
    BY <1>6 DEF DatabaseReady
  <2>4. MigrationTypeInv' /\ containers'[d] = x
        /\ \A e \in Containers \ {d} : containers'[e] = containers[e]
    BY <1>0, <1>1, <1>4, <1>6, <2>1, <2>2, <2>3 DEF DatabaseReady, Goes
  <2>5. Sound(d)'
    BY <1>0, <1>3, <1>6, <2>2, <2>4 DEF Sound, DatabaseReady
  <2>. QED
    BY <1>6, <2>4, <2>5, SchemaRests DEF DatabaseReady, SchemaInv
<1>7. CASE List(d)
  <2>1. PICK x \in Container :
           x = [at |-> "looking", pending |-> Scripts \ recorded, tenants |-> FALSE]
    BY <1>0, <1>1 DEF Container
  <2>2. MigrationTypeInv' /\ containers'[d] = x
        /\ \A e \in Containers \ {d} : containers'[e] = containers[e]
    BY <1>0, <1>1, <1>4, <1>7, <2>1 DEF List
  <2>3. Sound(d)'
    BY <1>0, <1>1, <1>7, <2>1, <2>2 DEF Sound, List, SchemaInv
  <2>. QED
    BY <1>7, <2>2, <2>3, SchemaRests DEF List, SchemaInv
<1>8. CASE LookForSchema(d)
  <2>0. PICK b \in BOOLEAN : b = (Adds[Initial] \subseteq schema)
    <3>1. CASE Adds[Initial] \subseteq schema
      <4>1. TRUE = (Adds[Initial] \subseteq schema)
        BY <3>1, Zenon
      <4>. QED
        BY <4>1, Zenon
    <3>2. CASE ~(Adds[Initial] \subseteq schema)
      <4>1. (Adds[Initial] \subseteq schema) = FALSE
        BY <3>2
      <4>. QED
        BY <4>1, Zenon
    <3>. QED
      BY <3>1, <3>2, Zenon
  <2>1. PICK x \in Container : x = [c EXCEPT !.at = "applying", !.tenants = b]
    BY <1>0, <1>1 DEF Container
  <2>2. x.at = "applying" /\ x.tenants = b /\ x.pending = c.pending
    BY <1>0, <1>1, <2>1 DEF Container
  <2>5. containers' = [containers EXCEPT ![d] = [c EXCEPT !.at = "applying",
                                                          !.tenants = b]]
    <3>1. containers' = [containers EXCEPT ![d].at = "applying", ![d].tenants = b]
      BY <1>8, <2>0, Zenon DEF LookForSchema
    <3>. QED
      BY <1>0, <3>1 DEF MigrationTypeInv, MigrationTypeOK, Container
  <2>3. MigrationTypeInv' /\ containers'[d] = x
        /\ \A e \in Containers \ {d} : containers'[e] = containers[e]
    BY <1>1, <1>4, <1>8, <2>1, <2>2, <2>5 DEF LookForSchema
  <2>4. Sound(d)'
    <3>1. b => Initial \in ran
      BY <1>1, <2>0, TenantsTell
    <3>. QED
      BY <1>0, <1>3, <1>8, <2>2, <2>3, <3>1 DEF Sound, LookForSchema
  <2>. QED
    BY <1>8, <2>3, <2>4, SchemaRests DEF LookForSchema, SchemaInv
<1>9. CASE AdoptSchema(d)
  <2>1. PICK x \in Container : x = [c EXCEPT !.pending = c.pending \ {Initial}]
    BY <1>0, <1>1 DEF Container
  <2>2. /\ x.at = c.at /\ x.tenants = c.tenants /\ c.at = "applying" /\ c.tenants
        /\ x.pending = c.pending \ {Initial}
    BY <1>0, <1>1, <1>9, <2>1 DEF Container, AdoptSchema
  <2>3. recorded' = recorded \cup {Initial} /\ Initial \in ran
    BY <1>0, <1>3, <1>9, <2>2 DEF AdoptSchema, Record, Sound
  <2>4. MigrationTypeInv' /\ containers'[d] = x
        /\ \A e \in Containers \ {d} : containers'[e] = containers[e]
    BY <1>0, <1>1, <1>2, <1>4, <1>9, <2>1, <2>2, <2>3 DEF AdoptSchema
  <2>5. Sound(d)'
    BY <1>0, <1>3, <1>9, <2>2, <2>3, <2>4 DEF Sound, AdoptSchema
  <2>. QED
    BY <1>9, <2>3, <2>4, <2>5, SchemaRests DEF AdoptSchema, SchemaInv
<1>10. CASE Execute(d)
  <2>1. /\ NextScript(d) \in c.pending /\ \A v \in c.pending : NextScript(d) <= v
        /\ c.at = "applying"
    BY <1>0, <1>1, <1>10, NextScriptIsFirst DEF Execute
  <2>2. PICK n \in Scripts : n = NextScript(d)
    BY <1>0, <1>1, <2>1
  <2>3. CASE ~RunsOn(n)
    <3>1. PICK x \in Container : x = [c EXCEPT !.at = "refused"]
      BY <1>0, <1>1 DEF Container
    <3>2. x.at = "refused" /\ x.tenants = c.tenants
      BY <1>0, <1>1, <3>1 DEF Container
    <3>3. /\ MigrationTypeInv' /\ containers'[d] = x
          /\ \A e \in Containers \ {d} : containers'[e] = containers[e]
      BY <1>0, <1>1, <1>4, <1>10, <2>2, <2>3, <3>1, <3>2 DEF Execute, Goes
    <3>4. ran' = ran /\ schema' = schema /\ recorded' = recorded
      BY <1>10, <2>2, <2>3 DEF Execute
    <3>5. Sound(d)'
      BY <1>0, <1>3, <3>2, <3>3, <3>4 DEF Sound
    <3>. QED
      BY <3>3, <3>4, <3>5, SchemaRests DEF SchemaInv
  <2>4. CASE RunsOn(n)
    <3>1. PICK x \in Container : x = [c EXCEPT !.at = "recording"]
      BY <1>0, <1>1 DEF Container
    <3>2. x.at = "recording" /\ x.tenants = c.tenants /\ x.pending = c.pending
      BY <1>0, <1>1, <3>1 DEF Container
    <3>3. /\ ran' = ran \cup {n} /\ recorded' = recorded
          /\ schema' = (schema \cup Adds[n]) \ Drops[n]
      BY <1>10, <2>2, <2>4 DEF Execute
    <3>9. Left(ran') \subseteq schema' /\ schema' \subseteq Platform \cup AddedBy(ran')
      <4> DEFINE before == schema
      <4>1. Left(ran) \subseteq before /\ before \subseteq Platform \cup AddedBy(ran)
        BY DEF SchemaInv
      <4> HIDE DEF before
      <4>2. LET after == (before \cup Adds[n]) \ Drops[n]
            IN  /\ Left(ran \cup {n}) \subseteq after
                /\ after \subseteq Platform \cup AddedBy(ran \cup {n})
        BY <4>1, RunAgain
      <4>. QED
        BY <3>3, <4>2 DEF before
    <3>10. schema' \subseteq Platform \cup AddedBy(Scripts)
      BY <1>1, <3>3, <3>9, MoreIsAdded
    <3>4. /\ MigrationTypeInv' /\ containers'[d] = x
          /\ \A e \in Containers \ {d} : containers'[e] = containers[e]
      BY <1>0, <1>1, <1>4, <1>10, <2>1, <2>2, <2>4, <3>1, <3>2, <3>3, <3>10
         DEF Execute, Goes
    <3>5. NextScript(d)' = n
      BY <1>0, <2>2, <3>2, <3>4 DEF NextScript
    <3>6. Sound(d)'
      BY <1>0, <1>3, <2>1, <3>2, <3>3, <3>4, <3>5 DEF Sound
    <3>7. ASSUME NEW v \in Scripts, NEW w \in Scripts, v <= w, w \in ran'
          PROVE  v \in ran'
      <4>1. CASE w \in ran
        BY <3>3, <3>7, <4>1 DEF SchemaInv
      <4>2. CASE w = n /\ v # n
        <5>1. v \notin c.pending
          BY <2>1, <2>2, <3>7, <4>2, InitialIsFirst
        <5>. QED
          BY <1>0, <1>3, <2>1, <3>3, <5>1 DEF Sound
      <4>. QED
        BY <3>3, <3>7, <4>1, <4>2
    <3>8. ASSUME NEW e \in Containers PROVE Sound(e)'
      <4>1. CASE e # d
        BY <1>0, <1>1, <3>3, <3>4, <4>1, SoundRests DEF SchemaInv
      <4>. QED
        BY <3>6, <4>1
    <3>11. Left(ran)' = Left(ran') /\ AddedBy(ran)' = AddedBy(ran')
      BY DEF Left, AddedBy, DroppedBy
    <3>. QED
      BY <3>3, <3>4, <3>7, <3>8, <3>9, <3>11 DEF SchemaInv
  <2>. QED
    BY <2>3, <2>4
<1>11. CASE Stamp(d)
  <2>1. PICK n \in Scripts : n = NextScript(d)
    BY <1>0, <1>1, <1>11, NextScriptIsFirst DEF Stamp, MigrationTypeInv
  <2>2. PICK x \in Container : x = [c EXCEPT !.at = "applying",
                                            !.pending = c.pending \ {n}]
    BY <1>0, <1>1 DEF Container
  <2>3. /\ x.at = "applying" /\ x.tenants = c.tenants /\ x.pending = c.pending \ {n}
        /\ c.at = "recording"
    BY <1>0, <1>1, <1>11, <2>2 DEF Container, Stamp
  <2>4. /\ recorded' = recorded \cup {n} /\ n \in ran
        /\ ran' = ran /\ schema' = schema
    BY <1>0, <1>3, <1>11, <2>1 DEF Stamp, Record, Sound
  <2>5. MigrationTypeInv' /\ containers'[d] = x
        /\ \A e \in Containers \ {d} : containers'[e] = containers[e]
    <3>1. containers' = [containers EXCEPT ![d].at = "applying",
                                           ![d].pending = @ \ {n}]
      BY <1>11, <2>1, Zenon DEF Stamp
    <3>2. containers' = [containers EXCEPT ![d] = x]
      BY <1>0, <2>2, <3>1 DEF MigrationTypeInv, MigrationTypeOK, Container
    <3>3. /\ recorded' \subseteq Scripts /\ ran' \subseteq Scripts
          /\ schema' \subseteq Platform \cup AddedBy(Scripts)
      BY <1>1, <2>4
    <3>4. starts' \in 0..MaxStarts /\ cut' \in BOOLEAN /\ together' \in BOOLEAN
      BY <1>1, <1>11 DEF Stamp
    <3>. QED
      BY <1>4, <2>3, <3>2, <3>3, <3>4
  <2>6. Sound(d)'
    BY <1>0, <1>3, <2>3, <2>4, <2>5 DEF Sound
  <2>. QED
    BY <2>4, <2>5, <2>6, SchemaRests DEF SchemaInv
<1>12. CASE Serve(d)
  <2>1. PICK x \in Container : x = [c EXCEPT !.at = "serving"]
    BY <1>0, <1>1 DEF Container
  <2>2. x.at = "serving" /\ x.tenants = c.tenants
    BY <1>0, <1>1, <2>1 DEF Container
  <2>3. MigrationTypeInv' /\ containers'[d] = x
        /\ \A e \in Containers \ {d} : containers'[e] = containers[e]
    BY <1>0, <1>1, <1>4, <1>12, <2>1, <2>2 DEF Serve, Goes
  <2>4. Sound(d)'
    BY <1>0, <1>1, <1>3, <1>12, <2>2, <2>3 DEF Sound, Serve
  <2>. QED
    BY <1>12, <2>3, <2>4, SchemaRests DEF Serve, SchemaInv
<1>13. CASE Stop(d)
  <2>1. cut' \in BOOLEAN /\ together' = together
    BY <1>13 DEF Stop
  <2>2. MigrationTypeInv' /\ containers'[d] = Down
        /\ \A e \in Containers \ {d} : containers'[e] = containers[e]
    <3>1. Down.at = "down"
      BY DEF Down
    <3>. QED
      BY <1>0, <1>1, <1>4, <1>13, <2>1, <3>1 DEF Stop
  <2>3. Sound(d)'
    BY <2>2 DEF Sound, Down
  <2>. QED
    BY <1>13, <2>2, <2>3, SchemaRests DEF Stop, SchemaInv
<1>. QED
  BY <1>5, <1>6, <1>7, <1>8, <1>9, <1>10, <1>11, <1>12, <1>13

\* The types and the schema are kept by every step.
LEMMA SchemaIsInductive ==
    MigrationTypeInv /\ SchemaInv /\ [MigrationStep]_migrationVars
      => MigrationTypeInv' /\ SchemaInv'
<1> SUFFICES ASSUME MigrationTypeInv, SchemaInv, [MigrationStep]_migrationVars
             PROVE  MigrationTypeInv' /\ SchemaInv'
  OBVIOUS
<1>1. CASE MigrationStep
  BY <1>1, StepKeepsSchema DEF MigrationStep
<1>2. CASE UNCHANGED migrationVars
  <2>1. MigrationTypeInv'
    BY <1>2 DEF migrationVars, MigrationTypeInv, MigrationTypeOK
  <2>2. \A d \in Containers : Sound(d)'
    BY <1>2, SoundRests DEF migrationVars, SchemaInv, MigrationTypeInv,
                            MigrationTypeOK
  <2>3. Left(ran)' = Left(ran) /\ AddedBy(ran)' = AddedBy(ran)
    BY <1>2 DEF migrationVars, Left, AddedBy, DroppedBy
  <2>. QED
    BY <1>2, <2>1, <2>2, <2>3 DEF migrationVars, SchemaInv
<1>. QED
  BY <1>1, <1>2

-----------------------------------------------------------------------------
(* One container at a time. *)

\* What a container that migrates alone knows: it has put behind it exactly what is
\* recorded.
InStep(d) ==
    containers[d].at \in {"looking", "applying", "recording"}
        => containers[d].pending = Scripts \ recorded

\* With no two containers migrating, the record is the first scripts as well, what
\* ran beyond it is at most the next one, and the schema is what those that ran
\* leave.
AloneInv ==
    ~together =>
        /\ \A d, e \in Containers : Migrating(d) /\ Migrating(e) => d = e
        /\ \A v, w \in Scripts : v <= w /\ w \in recorded => v \in recorded
        /\ \A v \in ran \ recorded, w \in Scripts \ recorded : v <= w
        /\ \A d \in Containers : InStep(d)
        /\ schema \ Platform = Left(ran)

\* The first script alone leaves all it adds.
LEMMA LeftByInitial ==
    Left({Initial}) = Adds[Initial] /\ Left({}) = {}
    /\ Adds[Initial] \cap Platform = {}
<1>1. /\ Drops[Initial] = {} /\ Adds[Initial] \cap Platform = {}
  BY MigrationAssumption, InitialIsFirst
<1>2. AddedBy({Initial}) = Adds[Initial] /\ DroppedBy({Initial}) = Drops[Initial]
      /\ AddedBy({}) = {}
  BY DEF AddedBy, DroppedBy
<1>. QED
  BY <1>1, <1>2 DEF Left

LEMMA AloneInitially == MigrationInit => AloneInv
<1> SUFFICES ASSUME MigrationInit PROVE AloneInv
  OBVIOUS
<1>1. \A d \in Containers : containers[d].at = "down"
  BY DEF MigrationInit, Down
<1>2. \A v \in ran \ recorded, w \in Scripts \ recorded : v <= w
  BY InitialIsFirst DEF MigrationInit
<1>3. schema \ Platform = Left(ran)
  <2>1. PICK offered \in SUBSET Platform : schema = offered \cup AddedBy(ran)
    BY DEF MigrationInit
  <2>2. AddedBy(ran) \cap Platform = {} /\ AddedBy(ran) = Left(ran)
    <3>1. ran = {} \/ ran = {Initial}
      BY DEF MigrationInit
    <3>2. AddedBy({}) = {} /\ AddedBy({Initial}) = Adds[Initial]
      BY DEF AddedBy
    <3>. QED
      BY <3>1, <3>2, LeftByInitial
  <2>. QED
    BY <2>1, <2>2
<1>4. recorded = {}
  BY DEF MigrationInit
<1>. QED
  BY <1>1, <1>2, <1>3, <1>4 DEF AloneInv, InStep, Migrating

\* What the last script of some adds, none of them drops.
LEMMA RunNext ==
    ASSUME NEW v \in Scripts, NEW vs \in SUBSET Scripts, \A w \in vs : w <= v,
           NEW before, before \ Platform = Left(vs)
    PROVE  LET after == (before \cup Adds[v]) \ Drops[v]
           IN  after \ Platform = Left(vs \cup {v})
<1>1. /\ AddedBy(vs \cup {v}) = AddedBy(vs) \cup Adds[v]
      /\ DroppedBy(vs \cup {v}) = DroppedBy(vs) \cup Drops[v]
  BY DEF AddedBy, DroppedBy
<1>2. Adds[v] \cap DroppedBy(vs) = {} /\ Adds[v] \cap Drops[v] = {}
  <2>1. \A w \in vs \cup {v} : Drops[w] \cap Adds[v] = {}
    <3>1. v <= v
      BY InitialIsFirst
    <3>. QED
      BY <3>1, MigrationAssumption
  <2>. QED
    BY <2>1 DEF DroppedBy
<1>3. Adds[v] \cap Platform = {}
  BY MigrationAssumption
<1>. QED
  BY <1>1, <1>2, <1>3 DEF Left

\* The script a container takes alone: it comes after what is recorded and not
\* before what has run.
LEMMA NextAlone ==
    ASSUME MigrationTypeInv, SchemaInv, AloneInv, ~together, NEW d \in Containers,
           containers[d].at \in {"applying", "recording"}, containers[d].pending # {}
    PROVE  /\ NextScript(d) \in Scripts \ recorded
           /\ \A w \in Scripts \ recorded : NextScript(d) <= w
           /\ \A w \in recorded : w <= NextScript(d) /\ w # NextScript(d)
           /\ \A w \in ran : w <= NextScript(d)
           /\ recorded \cup {NextScript(d)} =
                 {w \in Scripts : w <= NextScript(d)}
<1> DEFINE n == NextScript(d)
<1>1. containers[d].pending = Scripts \ recorded
  BY DEF AloneInv, InStep
<1>2. n \in Scripts \ recorded /\ \A w \in Scripts \ recorded : n <= w
  BY <1>1, NextScriptIsFirst
<1>3. recorded \subseteq ran /\ ran \subseteq Scripts
      /\ \A v, w \in Scripts : v <= w /\ w \in recorded => v \in recorded
  BY DEF SchemaInv, AloneInv, MigrationTypeInv, MigrationTypeOK
<1>8. ASSUME NEW v \in ran \ recorded, NEW x \in Scripts \ recorded PROVE v <= x
  BY <1>8 DEF AloneInv
<1> HIDE DEF n
<1>4. \A w \in recorded : w <= n /\ w # n
  <2>1. ASSUME NEW w \in recorded PROVE w <= n
    <3>1. w \in Nat /\ n \in Nat /\ ~(n <= w)
      BY <1>2, <1>3, InitialIsFirst
    <3>. QED
      BY <3>1
  <2>. QED
    BY <1>2, <2>1
<1>5. \A w \in ran : w <= n
  <2>1. ASSUME NEW w \in ran PROVE w <= n
    <3>1. CASE w \in recorded
      BY <1>4, <3>1
    <3>2. CASE w \notin recorded
      BY <1>2, <1>8, <3>2
    <3>. QED
      BY <3>1, <3>2
  <2>. QED
    BY <2>1
<1>6. \A w \in Scripts : w <= n => w \in recorded \/ w = n
  <2>1. ASSUME NEW w \in Scripts, w <= n, w \notin recorded PROVE w = n
    <3>1. w \in Nat /\ n \in Nat /\ n <= w
      BY <1>2, <2>1, InitialIsFirst
    <3>. QED
      BY <2>1, <3>1
  <2>. QED
    BY <2>1
<1>7. recorded \cup {n} = {w \in Scripts : w <= n}
  <2>1. n <= n
    BY <1>2, InitialIsFirst
  <2>. QED
    BY <1>2, <1>3, <1>4, <1>6, <2>1
<1>. QED
  BY <1>2, <1>4, <1>5, <1>7 DEF n

\* A step of one container keeps this when the container stays in step, is the only
\* one at work or leaves the record alone, and keeps the rest.
LEMMA AloneOfOne ==
    ASSUME AloneInv, ~together, NEW d \in Containers,
           \A e \in Containers \ {d} : containers'[e] = containers[e],
           Migrating(d)' => \A e \in Containers \ {d} : ~Migrating(e),
           (\A e \in Containers \ {d} : ~Migrating(e)) \/ recorded' = recorded,
           InStep(d)',
           \A v, w \in Scripts : v <= w /\ w \in recorded' => v \in recorded',
           \A v \in ran' \ recorded', w \in Scripts \ recorded' : v <= w,
           schema' \ Platform = Left(ran')
    PROVE  AloneInv'
<1>1. ASSUME NEW e \in Containers PROVE InStep(e)'
  <2>1. CASE e # d
    BY <2>1 DEF AloneInv, InStep, Migrating
  <2>. QED
    BY <2>1
<1>2. ASSUME NEW e \in Containers \ {d} PROVE Migrating(e)' <=> Migrating(e)
  BY DEF Migrating
<1>3. ASSUME NEW e \in Containers, NEW f \in Containers, Migrating(e)', Migrating(f)'
      PROVE  e = f
  BY <1>2, <1>3 DEF AloneInv
<1>4. Left(ran)' = Left(ran')
  BY DEF Left, AddedBy, DroppedBy
<1>. QED
  BY <1>1, <1>3, <1>4 DEF AloneInv

\* So does one that leaves the database alone.
LEMMA AloneRests ==
    ASSUME AloneInv, ~together, NEW d \in Containers,
           \A e \in Containers \ {d} : containers'[e] = containers[e],
           Migrating(d)' => \A e \in Containers \ {d} : ~Migrating(e),
           ran' = ran, recorded' = recorded, schema' = schema, InStep(d)'
    PROVE  AloneInv'
BY AloneOfOne DEF AloneInv

\* A step of one container leaves the others where they are.
LEMMA OthersRest ==
    ASSUME NEW d \in Containers, containers \in [Containers -> Container],
           \/ StartContainer(d) \/ DatabaseReady(d) \/ List(d) \/ LookForSchema(d)
           \/ AdoptSchema(d) \/ Execute(d) \/ Stamp(d) \/ Serve(d) \/ Stop(d)
    PROVE  \A e \in Containers \ {d} : containers'[e] = containers[e]
BY DEF StartContainer, DatabaseReady, List, LookForSchema, AdoptSchema, Execute,
       Stamp, Serve, Stop, Goes

\* Every step of a container keeps what holds of one that migrates alone.
LEMMA StepKeepsAlone ==
    ASSUME MigrationTypeInv, SchemaInv, AloneInv, NEW d \in Containers,
           \/ StartContainer(d) \/ DatabaseReady(d) \/ List(d) \/ LookForSchema(d)
           \/ AdoptSchema(d) \/ Execute(d) \/ Stamp(d) \/ Serve(d) \/ Stop(d)
    PROVE  AloneInv'
<1> SUFFICES ASSUME ~together' PROVE AloneInv'
  BY DEF AloneInv
<1>1. ~together
  BY DEF StartContainer, DatabaseReady, List, LookForSchema, AdoptSchema, Execute,
         Stamp, Serve, Stop
<1>2. /\ InStep(d)
      /\ Migrating(d) => \A e \in Containers \ {d} : ~Migrating(e)
      /\ \A v, w \in Scripts : v <= w /\ w \in recorded => v \in recorded
      /\ \A v \in ran \ recorded, w \in Scripts \ recorded : v <= w
      /\ schema \ Platform = Left(ran)
  BY <1>1 DEF AloneInv
<1>3. /\ containers[d] \in Container /\ containers \in [Containers -> Container]
      /\ containers[d].pending \subseteq Scripts
      /\ recorded \subseteq Scripts /\ ran \subseteq Scripts /\ recorded \subseteq ran
  BY DEF MigrationTypeInv, MigrationTypeOK, Container, SchemaInv
<1>4. \A e \in Containers \ {d} : containers'[e] = containers[e]
  BY <1>3, OthersRest
<1>5. CASE StartContainer(d) \/ Stop(d) \/ Serve(d)
  <2>1. containers'[d].at \in {"waiting", "down", "serving"}
    <3>1. ASSUME StartContainer(d) PROVE containers'[d].at = "waiting"
      BY <1>3, <3>1 DEF StartContainer, Down
    <3>2. ASSUME Stop(d) PROVE containers'[d].at = "down"
      BY <1>3, <3>2 DEF Stop, Down
    <3>3. ASSUME Serve(d) PROVE containers'[d].at = "serving"
      BY <1>3, <3>3 DEF Serve, Goes
    <3>. QED
      BY <1>5, <3>1, <3>2, <3>3
  <2>2. ran' = ran /\ recorded' = recorded /\ schema' = schema
    BY <1>5 DEF StartContainer, Stop, Serve
  <2>3. InStep(d)' /\ ~Migrating(d)'
    BY <2>1 DEF InStep, Migrating
  <2>. QED
    BY <1>1, <1>4, <2>2, <2>3, AloneRests
<1>6. CASE DatabaseReady(d)
  <2>1. /\ containers'[d].at = "listing"
        /\ ran' = ran /\ recorded' = recorded /\ schema' = schema
    BY <1>3, <1>6 DEF DatabaseReady, Goes
  <2>2. \A e \in Containers \ {d} : ~Migrating(e)
    <3>1. together' = (together \/ \E e \in Containers \ {d} : Migrating(e))
      BY <1>6, Zenon DEF DatabaseReady
    <3>. QED
      BY <3>1, Zenon
  <2>3. InStep(d)'
    BY <2>1 DEF InStep
  <2>. QED
    BY <1>1, <1>4, <2>1, <2>2, <2>3, AloneRests
<1>7. CASE List(d)
  <2>1. /\ containers[d].at = "listing"
        /\ containers'[d].pending = Scripts \ recorded
        /\ ran' = ran /\ recorded' = recorded /\ schema' = schema
    BY <1>3, <1>7 DEF List
  <2>2. InStep(d)' /\ Migrating(d)
    BY <2>1 DEF InStep, Migrating
  <2>. QED
    BY <1>1, <1>2, <1>4, <2>1, <2>2, AloneRests
<1>8. CASE LookForSchema(d)
  <2>1. /\ containers[d].at = "looking"
        /\ containers'[d].pending = containers[d].pending
        /\ ran' = ran /\ recorded' = recorded /\ schema' = schema
    BY <1>3, <1>8 DEF LookForSchema, Container
  <2>2. InStep(d)' /\ Migrating(d)
    BY <1>2, <2>1 DEF InStep, Migrating
  <2>. QED
    BY <1>1, <1>2, <1>4, <2>1, <2>2, AloneRests
<1>9. CASE AdoptSchema(d)
  <2>1. /\ containers'[d].at = "applying" /\ containers[d].at = "applying"
        /\ containers'[d].pending = containers[d].pending \ {Initial}
        /\ NextScript(d) = Initial /\ containers[d].pending # {}
        /\ ran' = ran /\ schema' = schema /\ recorded' = recorded \cup {Initial}
    BY <1>3, <1>9 DEF AdoptSchema, Record, Container
  <2>2. InStep(d)' /\ Migrating(d)
    BY <1>2, <2>1 DEF InStep, Migrating
  <2>3. recorded' = {w \in Scripts : w <= Initial} /\ \A w \in ran : w <= Initial
    BY <1>1, <2>1, NextAlone
  <2>4. \A v, w \in Scripts : v <= w /\ w \in recorded' => v \in recorded'
    BY <2>3, InitialIsFirst
  <2>5. ran' \subseteq recorded'
    BY <1>3, <2>1, <2>3
  <2>. QED
    BY <1>1, <1>2, <1>4, <2>1, <2>2, <2>4, <2>5, AloneOfOne
<1>10. CASE Execute(d)
  <2> DEFINE n == NextScript(d)
  <2>1. /\ containers[d].at = "applying" /\ containers[d].pending # {}
        /\ recorded' = recorded /\ containers'[d].pending = containers[d].pending
    BY <1>3, <1>10 DEF Execute, Goes, Container
  <2>2. InStep(d)' /\ Migrating(d)
    BY <1>2, <2>1 DEF InStep, Migrating
  <2>3. /\ n \in Scripts \ recorded /\ \A w \in Scripts \ recorded : n <= w
        /\ \A w \in ran : w <= n
    BY <1>1, <2>1, NextAlone
  <2> HIDE DEF n
  <2>4. CASE ran' = ran /\ schema' = schema
    BY <1>1, <1>2, <1>4, <2>1, <2>2, <2>4, AloneRests
  <2>5. CASE ran' = ran \cup {n} /\ schema' = (schema \cup Adds[n]) \ Drops[n]
    <3>1. schema' \ Platform = Left(ran')
      <4> DEFINE before == schema
      <4>1. before \ Platform = Left(ran)
        BY <1>2
      <4> HIDE DEF before
      <4>2. LET after == (before \cup Adds[n]) \ Drops[n]
            IN  after \ Platform = Left(ran \cup {n})
        BY <1>3, <2>3, <4>1, RunNext
      <4>. QED
        BY <2>5, <4>2 DEF before
    <3>2. \A v \in ran' \ recorded', w \in Scripts \ recorded' : v <= w
      BY <1>2, <2>1, <2>3, <2>5
    <3>. QED
      BY <1>1, <1>2, <1>4, <2>1, <2>2, <3>1, <3>2, AloneOfOne
  <2>. QED
    BY <1>10, <2>4, <2>5 DEF Execute, n
<1>11. CASE Stamp(d)
  <2> DEFINE n == NextScript(d)
  <2>0. containers[d].pending # {} /\ containers[d].at = "recording"
    BY <1>11 DEF Stamp, MigrationTypeInv
  <2>1. /\ containers'[d].at = "applying"
        /\ containers'[d].pending = containers[d].pending \ {n}
        /\ ran' = ran /\ schema' = schema /\ recorded' = recorded \cup {n}
    BY <1>3, <1>11 DEF Stamp, Record, Container
  <2>2. InStep(d)' /\ Migrating(d)
    BY <1>2, <2>0, <2>1 DEF InStep, Migrating
  <2>3. /\ n \in Scripts /\ recorded \cup {n} = {w \in Scripts : w <= n}
        /\ \A w \in ran : w <= n
    BY <1>1, <2>0, NextAlone
  <2> HIDE DEF n
  <2>4. \A v, w \in Scripts : v <= w /\ w \in recorded' => v \in recorded'
    BY <2>1, <2>3, InitialIsFirst
  <2>5. ran' \subseteq recorded'
    BY <1>3, <2>1, <2>3
  <2>. QED
    BY <1>1, <1>2, <1>4, <2>1, <2>2, <2>4, <2>5, AloneOfOne
<1>. QED
  BY <1>5, <1>6, <1>7, <1>8, <1>9, <1>10, <1>11

\* What holds of a container that migrates alone is kept by every step.
LEMMA AloneIsInductive ==
    MigrationTypeInv /\ SchemaInv /\ AloneInv /\ [MigrationStep]_migrationVars
      => AloneInv'
<1> SUFFICES ASSUME MigrationTypeInv, SchemaInv, AloneInv,
                    [MigrationStep]_migrationVars
             PROVE  AloneInv'
  OBVIOUS
<1>1. CASE MigrationStep
  BY <1>1, StepKeepsAlone DEF MigrationStep
<1>2. CASE UNCHANGED migrationVars
  <2>1. Left(ran)' = Left(ran)
    BY <1>2 DEF migrationVars, Left, AddedBy, DroppedBy
  <2>. QED
    BY <1>2, <2>1 DEF migrationVars, AloneInv, InStep, Migrating
<1>. QED
  BY <1>1, <1>2

\* Whatever crashes and whoever migrates beside it, the scripts that have run are
\* the first ones, the record never runs ahead of them, a container serves only
\* when all have run, and nothing is missing of what they leave; without two
\* containers migrating at once, nothing else is there (main, apply_one).
THEOREM SchemaKept == MigrationSpec => []SchemaIsWhole
<1>1. SchemaInv /\ AloneInv => SchemaIsWhole
  BY DEF SchemaInv, AloneInv, SchemaIsWhole, Sound
<1>. QED
  BY <1>1, MigrationInitTypes, SchemaInitially, SchemaIsInductive, AloneInitially,
     AloneIsInductive, PTL
     DEF MigrationSpec

-----------------------------------------------------------------------------
(* A refusal has a cause. *)

\* The platform lacks what a script needs.
Lacks(v) == (Needs[v] \cap Platform) \ schema # {}

\* What a container at work knows while no run was cut and none met another: it saw
\* the first schema if that is all that ran unrecorded, and it ran at most the
\* script it is about to record.
Clean(d) ==
    /\ containers[d].at = "refused" => Lacks(NextScript(d))
    /\ containers[d].at = "applying" /\ Initial \in ran \ recorded
          => containers[d].tenants
    /\ containers[d].at = "recording" => ran \ recorded \subseteq {NextScript(d)}

NoneRecords == \A d \in Containers : containers[d].at # "recording"

CauseInv ==
    ~together /\ ~cut =>
        /\ \A d \in Containers : Clean(d)
        /\ NoneRecords => ran \ recorded \subseteq {Initial}

\* Nothing has started, and only the first schema can be there unrecorded.
LEMMA CauseInitially == MigrationInit => CauseInv
BY DEF MigrationInit, CauseInv, Clean, NoneRecords, Down

\* No script makes or takes away what the platform offers.
LEMMA PlatformStays ==
    ASSUME NEW d, containers[d].pending \subseteq Scripts, Execute(d)
    PROVE  schema' \cap Platform = schema \cap Platform
<1>1. CASE schema' = schema
  BY <1>1
<1>2. CASE schema' # schema
  <2>1. containers[d].pending # {} /\ NextScript(d) \in Scripts
    BY NextScriptIsFirst DEF Execute
  <2>2. schema' = (schema \cup Adds[NextScript(d)]) \ Drops[NextScript(d)]
    BY <1>2 DEF Execute
  <2>3. (Adds[NextScript(d)] \cup Drops[NextScript(d)]) \cap Platform = {}
    BY <2>1, MigrationAssumption
  <2>. QED
    BY <2>2, <2>3
<1>. QED
  BY <1>1, <1>2

\* A container that rests stays clean while the platform rests, and the record and
\* the schema do or the container is not at work.
LEMMA CleanRests ==
    ASSUME NEW e \in Containers, Clean(e), containers'[e] = containers[e],
           schema' \cap Platform = schema \cap Platform,
           ~Migrating(e) \/ (ran' = ran /\ recorded' = recorded)
    PROVE  Clean(e)'
<1>1. NextScript(e)' = NextScript(e)
  BY DEF NextScript
<1>2. Lacks(NextScript(e)) => Lacks(NextScript(e))'
  <2> DEFINE v == NextScript(e)
  <2>1. v' = v
    BY <1>1
  <2> HIDE DEF v
  <2>2. Lacks(v) => (Needs[v] \cap Platform) \ schema' # {}
    BY DEF Lacks
  <2>. QED
    BY <2>1, <2>2 DEF Lacks, v
<1>3. containers[e].at = "refused" => ~Migrating(e)
  BY DEF Migrating
<1>. QED
  BY <1>1, <1>2 DEF Clean, Migrating

\* A step of one container keeps the cause when it stays clean and either is the
\* only one at work or leaves the record and the schema alone.
LEMMA CauseOfOne ==
    ASSUME CauseInv, ~together, ~cut, NEW d \in Containers,
           \A e \in Containers \ {d} : containers'[e] = containers[e],
           Clean(d)', schema' \cap Platform = schema \cap Platform,
           \/ \A e \in Containers \ {d} : ~Migrating(e)
           \/ ran' = ran /\ recorded' = recorded,
           NoneRecords' => ran' \ recorded' \subseteq {Initial}
    PROVE  CauseInv'
<1>1. ASSUME NEW e \in Containers PROVE Clean(e)'
  <2>1. CASE e # d
    BY <2>1, CleanRests DEF CauseInv
  <2>. QED
    BY <2>1
<1>. QED
  BY <1>1 DEF CauseInv

\* A script that comes after exactly those that ran is refused only by the platform.
LEMMA OnlyThePlatform ==
    ASSUME NEW v \in Scripts, ran = {w \in Scripts : w <= v /\ w # v},
           schema \subseteq Platform \cup Left(ran), Left(ran) \subseteq schema,
           ~RunsOn(v)
    PROVE  Lacks(v)
<1>1. ran = 1..(v - 1)
  <2>1. Scripts = 1..LastScript /\ LastScript \in Nat /\ v \in Nat /\ v <= LastScript
    BY MigrationAssumption DEF Scripts
  <2>. QED
    BY <2>1
<1>2. /\ Needs[v] \subseteq Platform \cup Left(ran)
      /\ Clashes[v] \cap (Platform \cup Left(ran)) = {}
  BY <1>1, MigrationAssumption
<1>3. ~(Needs[v] \subseteq schema)
  BY <1>2 DEF RunsOn
<1>. QED
  BY <1>2, <1>3 DEF Lacks

\* Every step of a container keeps the cause: with no run cut or met, the script it
\* takes is not recorded and so did not run, or is the first and is adopted.
LEMMA StepKeepsCause ==
    ASSUME MigrationTypeInv, SchemaInv, AloneInv, CauseInv, NEW d \in Containers,
           \/ StartContainer(d) \/ DatabaseReady(d) \/ List(d) \/ LookForSchema(d)
           \/ AdoptSchema(d) \/ Execute(d) \/ Stamp(d) \/ Serve(d) \/ Stop(d)
    PROVE  CauseInv'
<1> SUFFICES ASSUME ~together', ~cut' PROVE CauseInv'
  BY DEF CauseInv
<1>1. ~together /\ ~cut
  <2>1. together' = together \/ DatabaseReady(d)
    BY DEF StartContainer, List, LookForSchema, AdoptSchema, Execute, Stamp, Serve,
           Stop
  <2>2. cut' = cut \/ Stop(d)
    BY DEF StartContainer, DatabaseReady, List, LookForSchema, AdoptSchema, Execute,
           Stamp, Serve
  <2>3. DatabaseReady(d) /\ together => together'
    BY Zenon DEF DatabaseReady
  <2>4. Stop(d) /\ cut => cut'
    BY Zenon DEF Stop
  <2>. QED
    BY <2>1, <2>2, <2>3, <2>4
<1>2. /\ Clean(d)
      /\ NoneRecords => ran \ recorded \subseteq {Initial}
      /\ Migrating(d) => \A e \in Containers \ {d} : ~Migrating(e)
      /\ InStep(d) /\ schema \ Platform = Left(ran)
  BY <1>1 DEF CauseInv, AloneInv
<1>3. /\ containers[d] \in Container /\ containers \in [Containers -> Container]
      /\ containers[d].pending \subseteq Scripts
      /\ recorded \subseteq Scripts /\ ran \subseteq Scripts /\ recorded \subseteq ran
  BY DEF MigrationTypeInv, MigrationTypeOK, Container, SchemaInv
<1>4. \A e \in Containers \ {d} : containers'[e] = containers[e]
  BY <1>3, OthersRest
<1>5. ASSUME ran' = ran, recorded' = recorded, containers[d].at # "recording",
             NoneRecords'
      PROVE  ran' \ recorded' \subseteq {Initial}
  <2>1. NoneRecords
    BY <1>4, <1>5 DEF NoneRecords
  <2>. QED
    BY <1>2, <1>5, <2>1
<1>14. ASSUME NEW v \in Scripts, NEW w \in recorded, v <= w PROVE v \in recorded
  BY <1>1, <1>3, <1>14 DEF AloneInv
<1>15. ASSUME NEW v \in ran \ recorded, NEW w \in Scripts \ recorded PROVE v <= w
  BY <1>1, <1>15 DEF AloneInv
<1>6. CASE StartContainer(d) \/ Stop(d)
  <2>1. containers'[d].at \in {"waiting", "down"}
    BY <1>3, <1>6 DEF StartContainer, Stop, Down
  <2>2. ran' = ran /\ recorded' = recorded /\ schema' = schema
    BY <1>6 DEF StartContainer, Stop
  <2>3. containers[d].at # "recording"
    BY <1>1, <1>6 DEF StartContainer, Stop
  <2>4. Clean(d)' /\ ~Migrating(d)'
    BY <2>1 DEF Clean, Migrating
  <2>. QED
    BY <1>1, <1>4, <1>5, <2>2, <2>3, <2>4, CauseOfOne
<1>7. CASE DatabaseReady(d)
  <2>1. /\ containers'[d].at = "listing" /\ containers[d].at = "waiting"
        /\ ran' = ran /\ recorded' = recorded /\ schema' = schema
    BY <1>3, <1>7 DEF DatabaseReady, Goes
  <2>3. \A e \in Containers \ {d} : ~Migrating(e)
    <3>1. together' = (together \/ \E e \in Containers \ {d} : Migrating(e))
      BY <1>7, Zenon DEF DatabaseReady
    <3>. QED
      BY <3>1, Zenon
  <2>2. Clean(d)'
    BY <2>1 DEF Clean
  <2>. QED
    BY <1>1, <1>4, <1>5, <2>1, <2>2, <2>3, CauseOfOne
<1>8. CASE List(d)
  <2>1. /\ containers'[d].at = "looking" /\ containers[d].at = "listing"
        /\ containers'[d].pending = Scripts \ recorded
        /\ ran' = ran /\ recorded' = recorded /\ schema' = schema
    BY <1>3, <1>8 DEF List
  <2>2. Clean(d)' /\ Migrating(d)
    BY <2>1 DEF Clean, Migrating
  <2>. QED
    BY <1>1, <1>2, <1>4, <1>5, <2>1, <2>2, CauseOfOne
<1>9. CASE LookForSchema(d)
  <2>1. /\ containers'[d].at = "applying" /\ containers[d].at = "looking"
        /\ containers'[d].pending = containers[d].pending
        /\ ran' = ran /\ recorded' = recorded /\ schema' = schema
    BY <1>3, <1>9 DEF LookForSchema, Container
  <2>2. ASSUME Initial \in ran \ recorded PROVE containers'[d].tenants
    <3>1. containers'[d].tenants = (Adds[Initial] \subseteq schema)
      BY <1>3, <1>9, SchemaSeen
    <3>2. ran = {Initial}
      <4>1. ASSUME NEW w \in ran PROVE w = Initial
        <5>1. w \in Nat /\ Initial \in Scripts /\ Initial <= w
          BY <1>3, InitialIsFirst
        <5>2. w \notin recorded
          BY <1>3, <2>2, <5>1, <1>14
        <5>3. w <= Initial
          BY <2>2, <4>1, <5>1, <5>2, <1>15
        <5>. QED
          BY <5>1, <5>3 DEF Initial
      <4>. QED
        BY <2>2, <4>1
    <3>. QED
      BY <1>2, <3>1, <3>2, LeftByInitial
  <2>3. Clean(d)' /\ Migrating(d)
    BY <1>2, <2>1, <2>2 DEF Clean, Migrating
  <2>. QED
    BY <1>1, <1>2, <1>4, <1>5, <2>1, <2>3, CauseOfOne
<1>10. CASE AdoptSchema(d)
  <2>1. /\ containers'[d].at = "applying" /\ containers[d].at = "applying"
        /\ containers'[d].pending = containers[d].pending \ {Initial}
        /\ ran' = ran /\ recorded' = recorded \cup {Initial}
        /\ schema' = schema
    BY <1>3, <1>10 DEF AdoptSchema, Record, Container
  <2>2. Clean(d)' /\ Migrating(d)
    BY <1>2, <2>1 DEF Clean, Migrating
  <2>3. NoneRecords
    BY <1>2, <2>1, <2>2 DEF NoneRecords, Migrating
  <2>. QED
    BY <1>1, <1>2, <1>4, <2>1, <2>2, <2>3, CauseOfOne
<1>11. CASE Execute(d)
  <2> DEFINE n == NextScript(d)
  <2>1. /\ containers[d].at = "applying" /\ containers[d].pending # {}
        /\ containers[d].pending = Scripts \ recorded
        /\ ~(n = Initial /\ containers[d].tenants)
    BY <1>2, <1>11 DEF Execute, InStep
  <2>2. Migrating(d) /\ NoneRecords
    BY <1>2, <2>1 DEF NoneRecords, Migrating
  <2>3. /\ n \in Scripts \ recorded
        /\ \A w \in recorded : w <= n /\ w # n
        /\ recorded \cup {n} = {w \in Scripts : w <= n}
        /\ \A w \in Scripts \ recorded : n <= w
    BY <1>1, <2>1, NextAlone
  <2>4. ran = recorded
    <3>1. CASE Initial \in ran \ recorded
      <4>1. containers[d].tenants
        BY <1>2, <2>1, <3>1 DEF Clean
      <4>2. n <= Initial /\ Initial <= n /\ n \in Nat
        BY <1>3, <2>3, <3>1, InitialIsFirst
      <4>3. n = Initial
        BY <4>2 DEF Initial
      <4>. QED
        BY <2>1, <4>1, <4>3
    <3>. QED
      BY <1>2, <1>3, <2>2, <3>1
  <2>5. schema' \cap Platform = schema \cap Platform
    BY <1>3, <1>11, PlatformStays
  <2>6. /\ containers'[d].pending = containers[d].pending /\ recorded' = recorded
    BY <1>3, <1>11 DEF Execute, Goes, Container
  <2>7. NextScript(d)' = n
    BY <2>6 DEF NextScript
  <2> HIDE DEF n
  <2>8. CASE RunsOn(n)
    <3>1. containers'[d].at = "recording" /\ ran' = ran \cup {n}
      BY <1>3, <1>11, <2>8 DEF Execute, Goes, Container, n
    <3>2. Clean(d)'
      BY <2>4, <2>6, <2>7, <3>1 DEF Clean
    <3>3. ~NoneRecords'
      BY <3>1 DEF NoneRecords
    <3>. QED
      BY <1>1, <1>2, <1>4, <2>2, <2>5, <3>2, <3>3, CauseOfOne
  <2>9. CASE ~RunsOn(n)
    <3>1. /\ containers'[d].at = "refused" /\ ran' = ran /\ schema' = schema
      BY <1>3, <1>11, <2>9 DEF Execute, Goes, Container, n
    <3>2. Lacks(n)
      <4>1. ran = {w \in Scripts : w <= n /\ w # n}
        BY <1>3, <2>3, <2>4
      <4>2. schema \subseteq Platform \cup Left(ran) /\ Left(ran) \subseteq schema
        BY <1>2
      <4>. QED
        BY <2>3, <2>9, <4>1, <4>2, OnlyThePlatform
    <3>3. Clean(d)'
      <4>1. (Needs[n] \cap Platform) \ schema' # {}
        BY <3>1, <3>2 DEF Lacks
      <4>. QED
        BY <2>7, <3>1, <4>1 DEF Clean, Lacks
    <3>4. ran' \ recorded' \subseteq {Initial}
      BY <2>4, <2>6, <3>1
    <3>. QED
      BY <1>1, <1>2, <1>4, <2>2, <2>5, <3>3, <3>4, CauseOfOne
  <2>. QED
    BY <2>8, <2>9
<1>12. CASE Stamp(d)
  <2>1. /\ containers'[d].at = "applying" /\ containers[d].at = "recording"
        /\ containers'[d].pending = containers[d].pending \ {NextScript(d)}
        /\ ran' = ran /\ recorded' = recorded \cup {NextScript(d)}
        /\ schema' = schema
    BY <1>3, <1>12 DEF Stamp, Record, Container
  <2>2. ran' \subseteq recorded'
    BY <1>2, <2>1 DEF Clean
  <2>3. Clean(d)' /\ Migrating(d)
    BY <1>2, <2>1, <2>2 DEF Clean, Migrating
  <2>. QED
    BY <1>1, <1>2, <1>4, <2>1, <2>2, <2>3, CauseOfOne
<1>13. CASE Serve(d)
  <2>1. /\ containers'[d].at = "serving" /\ containers[d].at = "applying"
        /\ ran' = ran /\ recorded' = recorded /\ schema' = schema
    BY <1>3, <1>13 DEF Serve, Goes
  <2>2. Clean(d)' /\ ~Migrating(d)'
    BY <2>1 DEF Clean, Migrating
  <2>. QED
    BY <1>1, <1>4, <1>5, <2>1, <2>2, CauseOfOne
<1>. QED
  BY <1>6, <1>7, <1>8, <1>9, <1>10, <1>11, <1>12, <1>13

\* The cause is kept by every step.
LEMMA CauseIsInductive ==
    MigrationTypeInv /\ SchemaInv /\ AloneInv /\ CauseInv /\ [MigrationStep]_migrationVars
      => CauseInv'
<1> SUFFICES ASSUME MigrationTypeInv, SchemaInv, AloneInv, CauseInv,
                    [MigrationStep]_migrationVars
             PROVE  CauseInv'
  OBVIOUS
<1>1. CASE MigrationStep
  BY <1>1, StepKeepsCause DEF MigrationStep
<1>2. CASE UNCHANGED migrationVars
  <2>1. ASSUME NEW e \in Containers, Clean(e) PROVE Clean(e)'
    BY <1>2, <2>1, CleanRests DEF migrationVars
  <2>. QED
    BY <1>2, <2>1 DEF migrationVars, CauseInv, NoneRecords
<1>. QED
  BY <1>1, <1>2

\* A start is refused a script only where the platform lacks what the script needs,
\* as the plain database of docker-compose.yml lacks storage.buckets, or after a run
\* was cut between a script and its record, or beside another run (apply_one).
THEOREM RefusalExplained == MigrationSpec => []RefusalHasACause
<1>1. CauseInv => RefusalHasACause
  BY DEF CauseInv, RefusalHasACause, Clean, Lacks
<1>. QED
  BY <1>1, MigrationInitTypes, SchemaInitially, SchemaIsInductive, AloneInitially,
     AloneIsInductive, CauseInitially, CauseIsInductive, PTL
     DEF MigrationSpec
=============================================================================
