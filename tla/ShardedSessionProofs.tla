------------------------- MODULE ShardedSessionProofs -------------------------
(***************************************************************************)
(* What holds of DDL and of statements over the shards, for any number of  *)
(* shards, tables, keys and threads, and any partition policies.           *)
(***************************************************************************)
EXTENDS ShardedSession, FiniteSetTheorems, WellFoundedInduction, TLAPS

-----------------------------------------------------------------------------
(* DDL.  DdlInv says where a call is, as long as none has overlapped       *)
(* another: the shards before the one it is at have its result, the others *)
(* what the first of them had, and the registry and the policies follow in *)
(* the order of the code.  A call is refused by the first shard or by none.*)

AnySchema == Schema \cup {NoSchema}
Catalog == [Table -> AnySchema]
DdlCall == [pc : {"child", "policy", "registry"}, op : Ops, table : Table, arg : Policies,
            to : {"-"}, shard : Shard]

DdlTypes ==
    /\ children \in [Shard -> Catalog]
    /\ registry \in Catalog
    /\ policies = [tb \in Table |-> policies[tb]]
    /\ ddl \in [DdlThread -> DdlCall \cup {NoDdl}]
    /\ past \in {"orderly", "moved", "overlapped"}
    /\ past = "orderly" => opened

\* What a call makes of a catalog.
Made(f, c) == [f EXCEPT ![c.table] = Result(@, c.op, c.arg)]

\* The policy the engine should route by.
PolicyOf(schema) == IF schema = NoSchema THEN Unpartitioned ELSE schema.policy
RoutesBy(f) == \A tb \in Table : policies[tb] = PolicyOf(f[tb])

Alike == \A s \in Shard : children[s] = children[0]

AtChild(c) ==
    LET old == children[c.shard]
    IN  /\ \A s \in Shard : children[s] = IF s < c.shard THEN Made(old, c) ELSE old
        /\ c.shard > 0 => Accepts(old[c.table], c.op)
        /\ past = "orderly" => registry = old /\ RoutesBy(old)

\* All shards have the result, and the provider not yet.
AtProvider(c) ==
    /\ Alike
    /\ past = "orderly" =>
          /\ Accepts(registry[c.table], c.op)
          /\ children[0] = Made(registry, c)
          /\ RoutesBy(IF c.op = "create" /\ c.pc = "registry" THEN children[0] ELSE registry)

\* dropTable's last step.
AtClear(c) ==
    /\ Alike
    /\ past = "orderly" =>
          /\ registry = children[0]
          /\ registry[c.table] = NoSchema
          /\ \A tb \in Table \ {c.table} : policies[tb] = PolicyOf(registry[tb])

CallInv(c) ==
    /\ c.pc = "child" => AtChild(c)
    /\ c.pc = "registry" \/ (c.pc = "policy" /\ c.op = "create") => AtProvider(c)
    /\ c.pc = "policy" => c.op \in {"create", "drop"}
    /\ c.pc = "policy" /\ c.op = "drop" => AtClear(c)
    /\ c.pc # "child" /\ c.op = "create" /\ c.arg = Unpartitioned => c.pc = "registry"

Settled == Alike /\ (past = "orderly" => registry = children[0] /\ RoutesBy(registry))

DdlInv ==
    past # "overlapped" =>
        /\ \A d, e \in DdlThread : ddl[d] # NoDdl /\ ddl[e] # NoDdl => d = e
        /\ \A d \in DdlThread : ddl[d] # NoDdl => CallInv(ddl[d])
        /\ DdlQuiet => Settled

LEMMA ShardNumbers ==
    /\ 0 \in Shard /\ Shard \subseteq Nat /\ ShardCount \in Nat
    /\ \A s \in Shard : s < ShardCount /\ (s + 1 \notin Shard => s + 1 = ShardCount)
BY ShardAssumption DEF Shard

LEMMA NoSchemaIsNone == NoSchema \notin Schema
<1> SUFFICES ASSUME NoSchema \in Schema PROVE FALSE
  OBVIOUS
<1>1. DOMAIN NoSchema = {"policy", "extra"}
  BY DEF Schema
<1>2. "gone" \in DOMAIN NoSchema
  BY DEF NoSchema
<1>3. QED BY <1>1, <1>2

LEMMA NoDdlIsNone == NoDdl \notin DdlCall /\ NoDdl.pc = "idle"
BY DEF NoDdl, DdlCall

\* What an accepted call makes of an entry.
LEMMA ResultEffect ==
    ASSUME NEW old \in AnySchema, NEW op \in Ops, NEW p \in Policies, Accepts(old, op)
    PROVE  /\ Result(old, op, p) \in AnySchema
           /\ op = "create" => PolicyOf(old) = Unpartitioned /\ PolicyOf(Result(old, op, p)) = p
           /\ op = "drop" => Result(old, op, p) = NoSchema
           /\ op \notin {"create", "drop"} => PolicyOf(Result(old, op, p)) = PolicyOf(old)
<1>1. CASE op = "create"
  <2>1. old = NoSchema /\ Result(old, op, p) = [policy |-> p, extra |-> FALSE]
    BY <1>1 DEF Accepts, Result
  <2>2. Result(old, op, p) \in Schema /\ Result(old, op, p).policy = p
    BY <2>1 DEF Schema
  <2>3. QED BY <1>1, <2>1, <2>2, NoSchemaIsNone DEF AnySchema, PolicyOf
<1>2. CASE op = "drop"
  <2>1. Result(old, op, p) = NoSchema
    BY <1>2 DEF Result
  <2>2. QED BY <1>2, <2>1 DEF AnySchema
<1>3. CASE op \in {"addColumn", "dropColumn"}
  <2>1. old \in Schema
    BY <1>3 DEF Accepts, AnySchema
  <2>2. PICK b \in BOOLEAN : Result(old, op, p) = [old EXCEPT !.extra = b]
    BY <1>3 DEF Result
  <2>3. Result(old, op, p) \in Schema /\ Result(old, op, p).policy = old.policy
    BY <2>1, <2>2 DEF Schema
  <2>4. QED BY <1>3, <2>1, <2>3, NoSchemaIsNone DEF AnySchema, PolicyOf
<1>4. QED BY <1>1, <1>2, <1>3 DEF Ops

LEMMA MadeEffect ==
    ASSUME NEW f \in Catalog, NEW c \in DdlCall, Accepts(f[c.table], c.op)
    PROVE  /\ Made(f, c) \in Catalog
           /\ Made(f, c)[c.table] = Result(f[c.table], c.op, c.arg)
           /\ \A tb \in Table \ {c.table} : Made(f, c)[tb] = f[tb]
<1>1. c.op \in Ops /\ c.arg \in Policies /\ c.table \in Table
  BY DEF DdlCall
<1>2. f[c.table] \in AnySchema
  BY <1>1 DEF Catalog
<1>3. Result(f[c.table], c.op, c.arg) \in AnySchema
  BY <1>1, <1>2, ResultEffect
<1>4. QED BY <1>1, <1>3 DEF Made, Catalog

\* The only call under way, and what remains to be shown of its step.
LEMMA OneCall ==
    ASSUME NEW d \in DdlThread, \A e \in DdlThread \ {d} : ddl'[e] = NoDdl,
           ddl'[d] # NoDdl => CallInv(ddl[d])',
           ddl'[d] = NoDdl => Settled'
    PROVE  DdlInv'
BY DEF DdlInv, DdlQuiet

LEMMA Alone ==
    ASSUME DdlInv, past # "overlapped", NEW d \in DdlThread, ddl[d] # NoDdl
    PROVE  CallInv(ddl[d]) /\ \A e \in DdlThread \ {d} : ddl[e] = NoDdl
BY DEF DdlInv

DdlFields(c) ==
    /\ c \in DdlCall /\ c # NoDdl
    /\ c.op \in Ops /\ c.arg \in Policies /\ c.table \in Table /\ c.shard \in Shard
    /\ c.pc \in {"child", "policy", "registry"}

LEMMA CallFields ==
    ASSUME DdlTypes, NEW d \in DdlThread, ddl[d].pc # "idle"
    PROVE  DdlFields(ddl[d])
<1>1. ddl[d] \in DdlCall /\ ddl[d] # NoDdl
  BY NoDdlIsNone DEF DdlTypes
<1>2. QED BY <1>1 DEF DdlFields, DdlCall

LEMMA BeginDdlKeeps ==
    ASSUME DdlTypes, DdlInv, NEW d \in DdlThread, NEW op \in Ops, NEW tb \in Table,
           NEW p \in Policies, BeginDdl(d, op, tb, p)
    PROVE  DdlTypes' /\ DdlInv'
<1> DEFINE c == [pc |-> "child", op |-> op, table |-> tb, arg |-> p, to |-> "-", shard |-> 0]
<1>1. /\ ddl[d] = NoDdl /\ opened /\ ddl' = [ddl EXCEPT ![d] = c]
      /\ past' = IF DdlQuiet THEN past ELSE "overlapped"
      /\ UNCHANGED <<children, registry, opened, policies>>
  BY DEF BeginDdl, Start, engineVars
<1>2. c \in DdlCall /\ c.pc = "child" /\ c.shard = 0
  BY ShardNumbers DEF DdlCall
<1> HIDE DEF c
<1>3. DdlTypes'
  BY <1>1, <1>2 DEF DdlTypes
<1>4. ASSUME past' # "overlapped"
      PROVE  DdlInv'
  <2>1. DdlQuiet /\ past' = past /\ Settled
    BY <1>1, <1>4 DEF DdlInv
  <2>2. ddl'[d] = c /\ \A e \in DdlThread \ {d} : ddl'[e] = NoDdl
    BY <1>1, <2>1 DEF DdlQuiet, DdlTypes
  <2>3. CallInv(c)'
    <3>1. AtChild(c)'
      BY <1>1, <1>2, <2>1, ShardNumbers DEF AtChild, Settled, Alike, RoutesBy
    <3>2. QED BY <1>2, <3>1 DEF CallInv
  <2>4. c # NoDdl
    BY <1>2, NoDdlIsNone
  <2>5. QED BY <2>2, <2>3, <2>4, OneCall
<1>5. QED BY <1>3, <1>4 DEF DdlInv

\* A step of a call leaves the other threads out of it.
LEMMA CallStep ==
    ASSUME DdlTypes, DdlInv, NEW d \in DdlThread, ddl[d] # NoDdl, NEW n,
           ddl' = [ddl EXCEPT ![d] = n], past' = past, past # "overlapped",
           n # NoDdl => CallInv(n)', n = NoDdl => Settled'
    PROVE  DdlInv'
<1>1. ddl'[d] = n /\ \A e \in DdlThread \ {d} : ddl'[e] = NoDdl
  BY Alone DEF DdlTypes
<1>2. QED BY <1>1, OneCall

LEMMA DdlChildKeeps ==
    ASSUME DdlTypes, DdlInv, NEW d \in DdlThread, DdlChild(d)
    PROVE  DdlTypes' /\ DdlInv'
<1>1. ddl[d].pc = "child" /\ UNCHANGED <<registry, opened, past, policies>>
  BY DEF DdlChild, engineVars
<1>c. PICK c : c = ddl[d]
  OBVIOUS
<1>2. DdlFields(c) /\ c.pc = "child"
  BY <1>c, <1>1, CallFields
<1>3. /\ c \in DdlCall /\ c # NoDdl /\ c.shard \in Shard /\ c.table \in Table
      /\ c.op \in Ops /\ c.arg \in Policies
  BY <1>2 DEF DdlFields
<1>s. c.shard \in Nat /\ \A s \in Shard : s \in Nat
  BY <1>3, ShardNumbers
<1>o. PICK old \in Catalog : old = children[c.shard]
  BY <1>3 DEF DdlTypes
<1>4. CASE ~Accepts(old[c.table], c.op)
  <2>1. ddl' = [ddl EXCEPT ![d] = NoDdl] /\ UNCHANGED children
    BY <1>c, <1>o, <1>4 DEF DdlChild
  <2>2. DdlTypes'
    BY <1>1, <2>1 DEF DdlTypes
  <2>3. ASSUME past # "overlapped"
        PROVE  DdlInv'
    <3>1. AtChild(c)
      BY <1>c, <1>2, <1>3, <2>3, Alone DEF CallInv
    <3>2. c.shard = 0
      BY <1>s, <1>o, <1>4, <3>1 DEF AtChild
    <3>3. Settled
      BY <3>1, <3>2, ShardNumbers DEF AtChild, Settled, Alike
    <3>4. Settled'
      BY <1>1, <2>1, <3>3 DEF Settled, Alike, RoutesBy
    <3>5. QED BY <1>c, <1>1, <1>3, <2>1, <2>3, <3>4, CallStep
  <2>4. QED BY <1>1, <2>2, <2>3 DEF DdlInv
<1>5. CASE Accepts(old[c.table], c.op)
  <2> DEFINE q == IF c.op = "create" /\ c.arg # Unpartitioned THEN "policy" ELSE "registry"
             n == IF c.shard + 1 \in Shard THEN [c EXCEPT !.shard = @ + 1] ELSE [c EXCEPT !.pc = q]
  <2>0. children' = [children EXCEPT ![c.shard] =
                          [children[c.shard] EXCEPT ![c.table] = Result(old[c.table], c.op, c.arg)]]
    BY <1>c, <1>o, <1>5 DEF DdlChild
  <2>1. ddl' = [ddl EXCEPT ![d] = n]
    BY <1>c, <1>o, <1>5 DEF DdlChild
  <2>m. PICK new \in Catalog : new = Made(old, c)
    BY <1>3, <1>5, MadeEffect
  <2>2. children' = [children EXCEPT ![c.shard] = new]
    BY <1>o, <2>m, <2>0 DEF Made
  <2>3. /\ n \in DdlCall /\ n.op = c.op /\ n.table = c.table /\ n.arg = c.arg
        /\ c.shard + 1 \in Shard => n.pc = "child" /\ n.shard = c.shard + 1
        /\ c.shard + 1 \notin Shard => n.pc = q
    BY <1>2, <1>3 DEF DdlCall
  <2> HIDE DEF n
  <2>4. DdlTypes'
    BY <1>1, <1>3, <2>1, <2>2, <2>3 DEF DdlTypes
  <2>5. children'[c.shard] = new /\ \A s \in Shard \ {c.shard} : children'[s] = children[s]
    BY <1>3, <2>2 DEF DdlTypes
  <2>6. ASSUME past # "overlapped"
        PROVE  DdlInv'
    <3>1. AtChild(c)
      BY <1>c, <1>2, <1>3, <2>6, Alone DEF CallInv
    <3>2. \A s \in Shard : children[s] = IF s < c.shard THEN new ELSE old
      BY <1>o, <2>m, <3>1 DEF AtChild
    <3>3. past = "orderly" => registry = old /\ RoutesBy(old)
      BY <1>o, <3>1 DEF AtChild
    <3>4. \A s \in Shard : children'[s] = IF s < c.shard + 1 THEN new ELSE old
      BY <1>s, <2>5, <3>2
    <3>5. CallInv(n)'
      <4>1. CASE c.shard + 1 \in Shard
        <5>1. children'[n.shard] = old
          BY <1>s, <2>3, <3>4, <4>1
        <5>2. Made(old, n) = new
          BY <2>m, <2>3 DEF Made
        <5>3. AtChild(n)'
          BY <1>1, <1>5, <2>3, <3>3, <3>4, <4>1, <5>1, <5>2 DEF AtChild, RoutesBy, Made
        <5>4. QED BY <2>3, <4>1, <5>3 DEF CallInv
      <4>2. CASE c.shard + 1 \notin Shard
        <5>1. \A s \in Shard : children'[s] = new
          BY <3>4, <4>2, <1>3, ShardNumbers
        <5>2. Alike' /\ children'[0] = new
          BY <5>1, ShardNumbers DEF Alike
        <5>3. Made(old, n) = new
          BY <2>m, <2>3 DEF Made
        <5>4. ASSUME past = "orderly", c.op = "create", c.arg = Unpartitioned
              PROVE  RoutesBy(new)
          <6>1. new[c.table] = Result(old[c.table], c.op, c.arg)
                /\ \A tb \in Table \ {c.table} : new[tb] = old[tb]
            BY <1>3, <1>5, <2>m, MadeEffect
          <6>2. PolicyOf(new[c.table]) = PolicyOf(old[c.table])
            <7>1. old[c.table] \in AnySchema
              BY <1>3 DEF Catalog
            <7>2. QED BY <1>3, <1>5, <5>4, <6>1, <7>1, ResultEffect
          <6>3. QED BY <3>3, <5>4, <6>1, <6>2 DEF RoutesBy
        <5>5. ASSUME past = "orderly"
              PROVE  RoutesBy(IF n.op = "create" /\ n.pc = "registry" THEN new ELSE old)
          BY <2>3, <3>3, <4>2, <5>4, <5>5
        <5>6. AtProvider(n)'
          <6>1. past = "orderly" => Accepts(registry[n.table], n.op)
            BY <1>5, <2>3, <3>3
          <6>2. QED BY <1>1, <3>3, <5>2, <5>3, <5>5, <6>1 DEF AtProvider, RoutesBy, Made
        <5>7. QED BY <2>3, <4>2, <5>6 DEF CallInv
      <4>3. QED BY <4>1, <4>2
    <3>6. n # NoDdl
      BY <2>3, NoDdlIsNone
    <3>7. QED BY <1>c, <1>1, <1>3, <2>1, <2>6, <3>5, <3>6, CallStep
  <2>7. QED BY <1>1, <2>4, <2>6 DEF DdlInv
<1>6. QED BY <1>4, <1>5

LEMMA DdlPolicyKeeps ==
    ASSUME DdlTypes, DdlInv, NEW d \in DdlThread, DdlPolicy(d)
    PROVE  DdlTypes' /\ DdlInv'
<1>1. ddl[d].pc = "policy" /\ UNCHANGED <<children, registry, opened, past>>
  BY DEF DdlPolicy
<1>c. PICK c : c = ddl[d]
  OBVIOUS
<1>2. DdlFields(c) /\ c.pc = "policy"
  BY <1>c, <1>1, CallFields
<1>3. /\ c \in DdlCall /\ c # NoDdl /\ c.table \in Table /\ c.op \in Ops /\ c.arg \in Policies
  BY <1>2 DEF DdlFields
<1>4. CASE c.op = "create"
  <2> DEFINE n == [c EXCEPT !.pc = "registry"]
  <2>1. ddl' = [ddl EXCEPT ![d] = n] /\ policies' = [policies EXCEPT ![c.table] = c.arg]
    BY <1>c, <1>4 DEF DdlPolicy, installPartitionPolicy
  <2>2. /\ n \in DdlCall /\ n.op = c.op /\ n.table = c.table /\ n.arg = c.arg /\ n.pc = "registry"
    BY <1>3 DEF DdlCall
  <2> HIDE DEF n
  <2>3. DdlTypes'
    BY <1>1, <2>1, <2>2 DEF DdlTypes
  <2>4. ASSUME past # "overlapped"
        PROVE  DdlInv'
    <3>1. AtProvider(c)
      BY <1>c, <1>2, <1>3, <1>4, <2>4, Alone DEF CallInv
    <3>2. ASSUME past = "orderly"
          PROVE  /\ Accepts(registry[n.table], n.op) /\ children[0] = Made(registry, n)
                 /\ RoutesBy(children[0])'
      <4>1. /\ Accepts(registry[c.table], c.op) /\ children[0] = Made(registry, c)
            /\ RoutesBy(registry)
        BY <1>2, <3>1, <3>2 DEF AtProvider
      <4>2. registry \in Catalog /\ registry[c.table] \in AnySchema
        BY <1>3 DEF DdlTypes, Catalog
      <4>3. /\ children[0][c.table] = Result(registry[c.table], c.op, c.arg)
            /\ \A tb \in Table \ {c.table} : children[0][tb] = registry[tb]
        BY <1>3, <4>1, <4>2, MadeEffect
      <4>4. PolicyOf(children[0][c.table]) = c.arg
        BY <1>3, <1>4, <4>1, <4>2, <4>3, ResultEffect
      <4>5. policies'[c.table] = c.arg /\ \A tb \in Table \ {c.table} : policies'[tb] = policies[tb]
        BY <1>3, <2>1 DEF DdlTypes
      <4>6. RoutesBy(children[0])'
        BY <1>1, <4>1, <4>3, <4>4, <4>5 DEF RoutesBy
      <4>7. Made(registry, n) = Made(registry, c)
        BY <2>2 DEF Made
      <4>8. QED BY <2>2, <4>1, <4>6, <4>7
    <3>3. AtProvider(n)'
      <4>1. Alike'
        BY <1>1, <3>1 DEF AtProvider, Alike
      <4>2. ASSUME past' = "orderly"
            PROVE  /\ Accepts(registry'[n.table], n.op) /\ children'[0] = Made(registry, n)'
        BY <1>1, <3>2, <4>2 DEF Made
      <4>3. QED BY <1>1, <1>4, <2>2, <3>2, <4>1, <4>2 DEF AtProvider
    <3>4. CallInv(n)' /\ n # NoDdl
      BY <2>2, <3>3, NoDdlIsNone DEF CallInv
    <3>5. QED BY <1>c, <1>1, <1>3, <2>1, <2>4, <3>4, CallStep
  <2>5. QED BY <1>1, <2>3, <2>4 DEF DdlInv
<1>5. CASE c.op # "create"
  <2>1. ddl' = [ddl EXCEPT ![d] = NoDdl] /\ policies' = [policies EXCEPT ![c.table] = Unpartitioned]
    BY <1>c, <1>5 DEF DdlPolicy, clearPartitionPolicy, installPartitionPolicy
  <2>2. DdlTypes'
    BY <1>1, <2>1 DEF DdlTypes
  <2>3. ASSUME past # "overlapped"
        PROVE  DdlInv'
    <3>1. AtClear(c)
      BY <1>c, <1>2, <1>3, <1>5, <2>3, Alone DEF CallInv
    <3>2. /\ policies'[c.table] = Unpartitioned
          /\ \A tb \in Table \ {c.table} : policies'[tb] = policies[tb]
      BY <1>3, <2>1 DEF DdlTypes
    <3>3. ASSUME past = "orderly"
          PROVE  registry' = children'[0] /\ RoutesBy(registry)'
      BY <1>1, <3>1, <3>2, <3>3 DEF AtClear, RoutesBy, PolicyOf
    <3>4. Settled'
      BY <1>1, <3>1, <3>3 DEF AtClear, Settled, Alike
    <3>5. QED BY <1>c, <1>1, <1>3, <2>1, <2>3, <3>4, CallStep
  <2>4. QED BY <1>1, <2>2, <2>3 DEF DdlInv
<1>6. QED BY <1>4, <1>5

LEMMA DdlRegistryKeeps ==
    ASSUME DdlTypes, DdlInv, NEW d \in DdlThread, DdlRegistry(d)
    PROVE  DdlTypes' /\ DdlInv'
<1>1. ddl[d].pc = "registry" /\ UNCHANGED <<children, opened, past, policies>>
  BY DEF DdlRegistry, engineVars
<1>c. PICK c : c = ddl[d]
  OBVIOUS
<1>2. DdlFields(c) /\ c.pc = "registry"
  BY <1>c, <1>1, CallFields
<1>3. /\ c \in DdlCall /\ c # NoDdl /\ c.table \in Table /\ c.op \in Ops /\ c.arg \in Policies
  BY <1>2 DEF DdlFields
<1>o. PICK old \in AnySchema : old = registry[c.table]
  BY <1>3 DEF DdlTypes, Catalog
<1> DEFINE e == IF c.op \in {"create", "drop"} \/ Accepts(old, c.op)
                THEN Result(old, c.op, c.arg) ELSE old
           m == [c EXCEPT !.pc = "policy"]
           n == IF c.op = "drop" THEN m ELSE NoDdl
<1>4. registry' = [registry EXCEPT ![c.table] = e] /\ ddl' = [ddl EXCEPT ![d] = n]
  BY <1>c, <1>o DEF DdlRegistry
<1>5. e \in AnySchema
  <2>1. CASE c.op = "create"
    BY <1>3, <2>1 DEF Result, AnySchema, Schema
  <2>2. CASE c.op = "drop"
    BY <2>2 DEF Result, AnySchema
  <2>3. CASE c.op \notin {"create", "drop"}
    BY <1>3, <2>3, ResultEffect
  <2>4. QED BY <2>1, <2>2, <2>3
<1>6. /\ m \in DdlCall /\ m.op = c.op /\ m.table = c.table /\ m.arg = c.arg /\ m.pc = "policy"
  BY <1>3 DEF DdlCall
<1>7. Accepts(old, c.op) => e = Result(old, c.op, c.arg)
  OBVIOUS
<1> HIDE DEF e, m
<1>8. DdlTypes'
  BY <1>1, <1>3, <1>4, <1>5, <1>6 DEF DdlTypes, Catalog
<1>9. ASSUME past # "overlapped"
      PROVE  DdlInv'
  <2>1. AtProvider(c)
    BY <1>c, <1>2, <1>3, <1>9, Alone DEF CallInv
  <2>2. Alike'
    BY <1>1, <2>1 DEF AtProvider, Alike
  <2>3. ASSUME past = "orderly"
        PROVE  /\ registry' = children[0] /\ Accepts(old, c.op)
               /\ registry'[c.table] = Result(old, c.op, c.arg)
               /\ \A tb \in Table \ {c.table} : registry'[tb] = registry[tb]
               /\ RoutesBy(IF c.op = "create" THEN children[0] ELSE registry)
    <3>1. Accepts(old, c.op) /\ children[0] = Made(registry, c)
      BY <1>o, <2>1, <2>3 DEF AtProvider
    <3>2. registry' = Made(registry, c)
      BY <1>o, <1>4, <1>7, <3>1 DEF Made
    <3>3. RoutesBy(IF c.op = "create" THEN children[0] ELSE registry)
      BY <1>2, <2>1, <2>3 DEF AtProvider
    <3>4. registry \in Catalog
      BY DEF DdlTypes
    <3>5. QED BY <1>o, <1>3, <3>1, <3>2, <3>3, <3>4, MadeEffect
  <2>4. CASE c.op = "drop"
    <3>1. ASSUME past = "orderly"
          PROVE  /\ registry' = children'[0] /\ registry'[c.table] = NoSchema
                 /\ \A tb \in Table \ {c.table} : policies'[tb] = PolicyOf(registry'[tb])
      <4>1. Result(old, c.op, c.arg) = NoSchema
        BY <2>4 DEF Result
      <4>2. \A tb \in Table \ {c.table} : policies'[tb] = PolicyOf(registry[tb])
        BY <1>1, <2>3, <2>4, <3>1 DEF RoutesBy
      <4>3. QED BY <1>1, <2>3, <3>1, <4>1, <4>2
    <3>2. AtClear(m)'
      BY <1>1, <1>6, <2>2, <3>1 DEF AtClear
    <3>3. CallInv(m)' /\ m # NoDdl
      BY <1>6, <2>4, <3>2, NoDdlIsNone DEF CallInv
    <3>4. QED BY <1>c, <1>1, <1>3, <1>4, <1>9, <2>4, <3>3, CallStep
  <2>5. CASE c.op # "drop"
    <3>1. ASSUME past = "orderly"
          PROVE  RoutesBy(registry)'
      <4>1. CASE c.op = "create"
        BY <1>1, <2>3, <3>1, <4>1 DEF RoutesBy
      <4>2. CASE c.op # "create"
        <5>1. PolicyOf(registry'[c.table]) = PolicyOf(registry[c.table])
          BY <1>o, <1>3, <2>3, <2>5, <3>1, <4>2, ResultEffect
        <5>2. QED BY <1>1, <2>3, <3>1, <4>2, <5>1 DEF RoutesBy
      <4>3. QED BY <4>1, <4>2
    <3>2. Settled'
      BY <1>1, <2>2, <2>3, <3>1 DEF Settled
    <3>3. QED BY <1>c, <1>1, <1>3, <1>4, <1>9, <2>5, <3>2, CallStep
  <2>6. QED BY <2>4, <2>5
<1>10. QED BY <1>1, <1>8, <1>9 DEF DdlInv

LEMMA RenameTableKeeps ==
    ASSUME DdlTypes, DdlInv, NEW d \in DdlThread, NEW tb \in Table, NEW new \in Table,
           RenameTable(d, tb, new)
    PROVE  DdlTypes' /\ DdlInv'
<1>1. /\ registry' = [registry EXCEPT ![tb] = NoSchema, ![new] = registry[tb]]
      /\ past' = IF DdlQuiet THEN PastWith("moved") ELSE "overlapped"
      /\ UNCHANGED <<children, opened, ddl, policies>> /\ opened
  BY DEF RenameTable, engineVars
<1>2. registry' \in Catalog
  BY <1>1 DEF DdlTypes, Catalog, AnySchema
<1>3. past' \in {"moved", "overlapped"} /\ (past' = "moved" => DdlQuiet /\ past # "overlapped")
  BY <1>1 DEF PastWith
<1>4. DdlTypes'
  BY <1>1, <1>2, <1>3 DEF DdlTypes
<1>5. ASSUME past' # "overlapped"
      PROVE  DdlInv'
  <2>1. DdlQuiet /\ Settled
    BY <1>3, <1>5 DEF DdlInv
  <2>2. Settled'
    BY <1>1, <1>3, <2>1 DEF Settled, Alike
  <2>3. QED BY <1>1, <2>1, <2>2 DEF DdlInv, DdlQuiet
<1>6. QED BY <1>4, <1>5 DEF DdlInv

LEMMA CloseKeeps == ASSUME DdlTypes, DdlInv, close PROVE DdlTypes' /\ DdlInv'
<1>1. /\ children' = [s \in Shard |-> [tb \in Table |-> NoSchema]]
      /\ past' = PastWith("moved") /\ DdlQuiet
      /\ UNCHANGED <<registry, ddl, policies>>
  BY DEF close, engineVars
<1>2. past' \in {"moved", "overlapped"}
  BY <1>1 DEF PastWith
<1>3. DdlTypes'
  BY <1>1, <1>2 DEF DdlTypes, Catalog, AnySchema
<1>4. Settled'
  BY <1>1, <1>2, ShardNumbers DEF Settled, Alike
<1>5. QED BY <1>1, <1>3, <1>4 DEF DdlInv, DdlQuiet

\* A set of numbers has a least one; below a bound it has a greatest.
LEMMA LeastOfNats ==
    ASSUME NEW S, S \subseteq Nat, S # {}
    PROVE  \E m \in S : \A y \in S : m <= y
<1>1. PICK R : R = OpToRel(<, Nat)
  OBVIOUS
<1>2. IsWellFoundedOn(R, Nat)
  BY <1>1, NatLessThanWellFounded
<1>3. PICK m \in S : \A y \in S : ~(<<y, m>> \in R)
  BY <1>2, WFMin
<1>4. \A y \in S : <<y, m>> \in R <=> y < m
  <2>1. R = {ss \in Nat \X Nat : ss[1] < ss[2]}
    BY <1>1 DEF OpToRel
  <2>2. QED BY <2>1
<1>5. m \in Nat /\ \A y \in S : y \in Nat /\ ~(y < m)
  BY <1>3, <1>4
<1>6. QED BY <1>5

LEMMA MaxOfNats ==
    ASSUME NEW n \in Nat, NEW S, S \subseteq 0 .. n, S # {}
    PROVE  Max(S) \in S /\ \A y \in S : Max(S) >= y
<1>1. PICK m \in {n - s : s \in S} : \A y \in {n - s : s \in S} : m <= y
  <2>1. \A s \in S : n - s \in Nat
    OBVIOUS
  <2>2. {n - s : s \in S} \subseteq Nat
    BY <2>1
  <2>3. {n - s : s \in S} # {}
    OBVIOUS
  <2>4. QED BY <2>2, <2>3, LeastOfNats
<1>2. PICK x \in S : m = n - x
  BY <1>1
<1>3. \A y \in S : n - x <= n - y
  BY <1>1, <1>2
<1>4. \A y \in S : x >= y
  BY <1>3
<1>5. QED BY <1>4 DEF Max

LEMMA OpenKeeps == ASSUME DdlTypes, DdlInv, open PROVE DdlTypes' /\ DdlInv'
<1> DEFINE have(tb) == {s \in Shard : children[s][tb] # NoSchema}
           declares(tb) == {s \in have(tb) : children[s][tb].policy # Unpartitioned}
<1>1. /\ registry' = [tb \in Table |-> IF have(tb) = {} THEN NoSchema
                                       ELSE children[Max(have(tb))][tb]]
      /\ policies' = [tb \in Table |-> IF declares(tb) = {} THEN policies[tb]
                                       ELSE children[Max(declares(tb))][tb].policy]
      /\ UNCHANGED <<children, ddl, past>> /\ ~opened /\ DdlQuiet
  BY DEF open
<1>2. past # "orderly"
  BY <1>1 DEF DdlTypes
<1>3. registry' \in Catalog
  <2>1. ASSUME NEW tb \in Table
        PROVE  (IF have(tb) = {} THEN NoSchema ELSE children[Max(have(tb))][tb]) \in AnySchema
    <3>1. CASE have(tb) = {}
      BY <3>1 DEF AnySchema
    <3>2. CASE have(tb) # {}
      <4>1. have(tb) \subseteq 0 .. ShardCount
        BY ShardAssumption DEF Shard
      <4>2. Max(have(tb)) \in have(tb)
        BY <3>2, <4>1, ShardNumbers, MaxOfNats
      <4>3. QED BY <3>2, <4>2 DEF DdlTypes, Catalog
    <3>3. QED BY <3>1, <3>2
  <2> HIDE DEF have
  <2>2. QED BY <1>1, <2>1 DEF Catalog
<1>4. policies' = [tb \in Table |-> policies'[tb]]
  <2> HIDE DEF have, declares
  <2>1. QED BY <1>1
<1>5. DdlTypes'
  BY <1>1, <1>2, <1>3, <1>4 DEF DdlTypes
<1>6. past # "overlapped" => Settled /\ Settled'
  BY <1>1, <1>2 DEF DdlInv, Settled, Alike
<1>7. QED BY <1>1, <1>5, <1>6 DEF DdlInv, DdlQuiet

LEMMA DdlInit == ASSUME ProviderInit PROVE DdlTypes /\ DdlInv
<1>p. PICK p \in Policies :
        /\ children = [s \in Shard |-> [tb \in Table |-> [policy |-> p, extra |-> FALSE]]]
        /\ registry = [tb \in Table |-> [policy |-> p, extra |-> FALSE]]
        /\ policies = [tb \in Table |-> p]
  BY DEF ProviderInit
<1>1. PICK tables :
        /\ tables = [tb \in Table |-> [policy |-> p, extra |-> FALSE]]
        /\ children = [s \in Shard |-> tables] /\ registry = tables
        /\ policies = [tb \in Table |-> p]
  BY <1>p
<1>2. opened = TRUE /\ ddl = [d \in DdlThread |-> NoDdl] /\ past = "orderly"
  BY DEF ProviderInit
<1>3. \A tb \in Table : tables[tb] \in Schema /\ tables[tb].policy = p
  BY <1>1 DEF Schema
<1>4. tables \in Catalog
  BY <1>1, <1>3 DEF Catalog, AnySchema
<1>5. DdlTypes
  BY <1>1, <1>2, <1>4 DEF DdlTypes
<1>6. RoutesBy(tables)
  BY <1>1, <1>3, NoSchemaIsNone DEF RoutesBy, PolicyOf
<1>7. Settled
  BY <1>1, <1>6, ShardNumbers DEF Settled, Alike
<1>8. QED BY <1>2, <1>5, <1>7 DEF DdlInv, DdlQuiet

LEMMA DdlUntouched ==
    ASSUME DdlTypes, DdlInv, UNCHANGED <<providerVars, policies>>
    PROVE  DdlTypes' /\ DdlInv'
<1>1. UNCHANGED <<children, registry, opened, ddl, past, policies>>
  BY DEF providerVars
<1>2. DdlTypes'
  BY <1>1 DEF DdlTypes
<1>3. DdlInv'
  BY <1>1 DEF DdlInv, DdlQuiet, Settled, Alike, RoutesBy, CallInv, AtChild, AtProvider, AtClear, Made
<1>4. QED BY <1>2, <1>3

\* Statements and reads change no schema and no policy.
LEMMA SessionLeavesDdl ==
    ASSUME SessionNext \/ ReaderNext
    PROVE  UNCHANGED <<providerVars, policies>>
<1>1. CASE ReaderNext
  BY <1>1 DEF ReaderNext, engineVars
<1>2. CASE SessionNext
  <2>1. ASSUME NEW tb \in Table, NEW st \in Statement,
               Begin(tb, st) /\ UNCHANGED <<engineVars, cacheVars, providerVars>>
        PROVE  UNCHANGED <<providerVars, policies>>
    BY <2>1 DEF engineVars
  <2>2. ASSUME NEW x \in Txn, OutsideSession
        PROVE  UNCHANGED <<providerVars, policies>>
    BY <2>2 DEF OutsideSession, engineVars
  <2>3. ASSUME NEW x \in Txn, NEW k \in Key \cup {NullKey}, WriteRow(x, k), UNCHANGED providerVars
        PROVE  UNCHANGED <<providerVars, policies>>
    BY <2>3 DEF WriteRow, put, remove
  <2>4. ASSUME NEW x \in Txn, Invalidate(x), UNCHANGED <<engineVars, providerVars>>
        PROVE  UNCHANGED <<providerVars, policies>>
    BY <2>4 DEF engineVars
  <2>5. ASSUME NEW x \in Txn, StampShard(x), OutsideEngine
        PROVE  UNCHANGED <<providerVars, policies>>
    BY <2>5 DEF StampShard, commitChild, OutsideEngine
  <2>6. ASSUME NEW x \in Txn, AbortShard(x), OutsideEngine
        PROVE  UNCHANGED <<providerVars, policies>>
    BY <2>6 DEF AbortShard, abortChild, OutsideEngine
  <2>7. QED BY <1>2, <2>1, <2>2, <2>3, <2>4, <2>5, <2>6 DEF SessionNext
<1>3. QED BY <1>1, <1>2

LEMMA DdlStep ==
    ASSUME DdlTypes, DdlInv, [Next]_vars
    PROVE  DdlTypes' /\ DdlInv'
<1>1. CASE UNCHANGED vars
  BY <1>1, DdlUntouched DEF vars, engineVars
<1>2. CASE SessionNext \/ ReaderNext
  BY <1>2, SessionLeavesDdl, DdlUntouched
<1>3. CASE DdlNext
  <2>1. CASE \E d \in DdlThread, tb \in Table, op \in Ops, p \in Policies : BeginDdl(d, op, tb, p)
    BY <2>1, BeginDdlKeeps
  <2>2. CASE \E d \in DdlThread, tb, new \in Table : RenameTable(d, tb, new)
    BY <2>2, RenameTableKeeps
  <2>3. CASE \E d \in DdlThread : DdlChild(d) \/ DdlPolicy(d) \/ DdlRegistry(d)
    BY <2>3, DdlChildKeeps, DdlPolicyKeeps, DdlRegistryKeeps
  <2>4. CASE close \/ open
    BY <2>4, CloseKeeps, OpenKeeps
  <2>5. QED BY <1>3, <2>1, <2>2, <2>3, <2>4 DEF DdlNext
<1>4. QED BY <1>1, <1>2, <1>3 DEF Next

(* The shards hold the same schemas whenever DDL is quiet and no two calls *)
(* have overlapped, and until a rename or a close the registry and the     *)
(* routing agree with them, for any number of shards and any policies      *)
(* (ShardedStorageProvider::createTable, dropTable, alterTable, open,      *)
(* close).                                                                 *)
THEOREM ShardsAlikeHolds == Spec => []ShardsAlike
<1>1. Init => DdlTypes /\ DdlInv
  BY DdlInit DEF Init
<1>2. DdlTypes /\ DdlInv /\ [Next]_vars => (DdlTypes /\ DdlInv)'
  BY DdlStep
<1>3. DdlTypes /\ DdlInv => ShardsAlike
  <2> SUFFICES ASSUME DdlInv, DdlQuiet, past # "overlapped"
               PROVE  ShardsAlike
    BY DEF ShardsAlike
  <2>1. Settled
    BY DEF DdlInv
  <2>2. QED BY <2>1, ShardNumbers DEF ShardsAlike, Settled, Alike, RoutesBy, PolicyOf
<1>4. QED BY <1>1, <1>2, <1>3, PTL DEF Spec

-----------------------------------------------------------------------------
(* Statements.  StoreInv says on which shards a transaction may still have *)
(* staged versions at each step of its statement, and that a shard that is *)
(* ahead of another is so because of a commit that has still to reach the  *)
(* other: its sequence is at least what the first shows.                   *)

AnyVersion == [txn : Txn \cup {1}, seq : Nat, tombstone : BOOLEAN, c : {0, 1, MaxCol}]
Rows == [Shard -> [Table -> [Key -> Seq(AnyVersion)]]]

StoreTypes ==
    /\ shards \in Rows
    /\ visible_seq \in [Shard -> Nat]
    /\ next_id \in Nat \ {0} /\ commit_seq \in Nat \ {0}

JobShape(j) ==
    j = [pc |-> j.pc, table |-> j.table, stmt |-> j.stmt, next |-> j.next,
         keys |-> j.keys, rows |-> j.rows, erase |-> j.erase, seq |-> j.seq]

JobOK(j) ==
    /\ JobShape(j)
    /\ j.next \in Shard /\ j.seq \in Nat /\ j.stmt.c \in {0, 1, MaxCol}
    /\ keyed => j.stmt.ids \subseteq Key /\ j.keys \subseteq Key
    /\ \A k, l \in j.erase : k = l
    /\ j.pc = "seq" => j.next = 0
    /\ j.pc = "stamp" => j.seq > 0
    /\ j.erase # {} => j.pc = "write"

Jobs ==
    /\ job = [x \in Txn |-> job[x]]
    /\ \A x \in Txn : JobOK(job[x])
    /\ \A x \in Txn \ (1..next_id) : job[x].pc = "idle"

\* Where a statement may still have staged versions.
MayStage(j, s) ==
    \/ j.pc \in {"write", "seq"}
    \/ j.pc \in {"stamp", "abort"} /\ s >= j.next

VersionOK(s, v) ==
    /\ v.txn \in 1..next_id
    /\ v.seq <= visible_seq[s]
    /\ v.seq = 0 => v.txn \in Txn /\ MayStage(job[v.txn], s)

AllVersions ==
    \A s \in Shard, tb \in Table, k \in Key :
        \A i \in DOMAIN shards[s][tb][k] : VersionOK(s, shards[s][tb][k][i])

\* A shard that x has visited shows its commit.
Stamped == \A x \in Txn : job[x].pc = "stamp" =>
    \A s \in Shard : s < job[x].next => visible_seq[s] >= job[x].seq

Reaches(j, s, v) == j.pc = "stamp" /\ j.next <= s /\ j.seq >= v
Behind == \A s1, s2 \in Shard :
    visible_seq[s1] > visible_seq[s2] => \E x \in Txn : Reaches(job[x], s2, visible_seq[s1])

StoreInv == StoreTypes /\ Jobs /\ AllVersions /\ Stamped /\ Behind

LEMMA MaxOfTwo ==
    ASSUME NEW a \in Nat, NEW b \in Nat
    PROVE  Max({a, b}) = IF a < b THEN b ELSE a
<1>1. Max({a, b}) = CHOOSE m \in {a, b} : \A y \in {a, b} : m >= y
  BY DEF Max
<1>2. \E m \in {a, b} : \A y \in {a, b} : m >= y
  OBVIOUS
<1>3. Max({a, b}) \in {a, b} /\ \A y \in {a, b} : Max({a, b}) >= y
  BY <1>1, <1>2
<1>4. QED BY <1>3

LEMMA KeyHashes ==
    ASSUME NEW k \in Key
    PROVE  k \in Nat /\ k # NullKey /\ routeByKey(k) \in Shard
<1>1. Max({MaxKey, MaxCol}) \in Nat /\ Max({MaxKey, MaxCol}) >= MaxKey
  BY BoundAssumption, MaxOfTwo
<1>2. k \in Value /\ k \in Nat /\ k # NullKey
  BY <1>1, BoundAssumption DEF Key, Value, NullKey
<1>3. QED BY <1>2, ShardAssumption DEF routeByKey

-----------------------------------------------------------------------------
(* What the engine's methods do to the versions of a key.                  *)

NewVersion(x, dead, c) == [txn |-> x, seq |-> 0, tombstone |-> dead, c |-> c]

LEMMA VersionsTyped ==
    ASSUME StoreTypes, NEW s \in Shard, NEW tb \in Table, NEW k \in Key
    PROVE  shards[s][tb][k] \in Seq(AnyVersion)
BY DEF StoreTypes, Rows

\* A version is added to one key of one shard at most.
Adds(tb, id, v) ==
    /\ shards' \in Rows
    /\ \A s1 \in Shard, tb1 \in Table, k1 \in Key :
          \/ shards'[s1][tb1][k1] = shards[s1][tb1][k1]
          \/ /\ tb1 = tb /\ k1 = id
             /\ shards'[s1][tb1][k1] = Append(shards[s1][tb1][k1], v)

\* put and remove append to one key.
LEMMA StageEffect ==
    ASSUME StoreTypes, NEW s, NEW x \in Txn, NEW tb, NEW id, NEW dead \in BOOLEAN,
           NEW c \in {0, 1, MaxCol}, Stage(s, x, tb, id, dead, c)
    PROVE  Adds(tb, id, NewVersion(x, dead, c))
<1>1. NewVersion(x, dead, c) \in AnyVersion
  BY DEF NewVersion, AnyVersion
<1> DEFINE q == Append(shards[s][tb][id], NewVersion(x, dead, c))
           row == [shards[s][tb] EXCEPT ![id] = q]
           t == [shards[s] EXCEPT ![tb] = row]
<1>2. shards' = [shards EXCEPT ![s] = t]
  BY DEF Stage, NewVersion
<1>3. ASSUME NEW s1 \in Shard, NEW tb1 \in Table, NEW k1 \in Key
      PROVE  /\ shards'[s1][tb1][k1] \in Seq(AnyVersion)
             /\ \/ shards'[s1][tb1][k1] = shards[s1][tb1][k1]
                \/ /\ tb1 = tb /\ k1 = id
                   /\ shards'[s1][tb1][k1] = Append(shards[s1][tb1][k1], NewVersion(x, dead, c))
  <2>1. CASE s1 = s /\ tb1 = tb /\ k1 = id
    <3>1. shards'[s1][tb1][k1] = q
      BY <1>2, <2>1 DEF StoreTypes, Rows
    <3>2. QED BY <1>1, <2>1, <3>1, VersionsTyped
  <2>2. CASE ~(s1 = s /\ tb1 = tb /\ k1 = id)
    <3>1. shards'[s1][tb1][k1] = shards[s1][tb1][k1]
      BY <1>2, <2>2 DEF StoreTypes, Rows
    <3>2. QED BY <3>1, VersionsTyped
  <2>3. QED BY <2>1, <2>2
<1>4. shards' \in Rows
  <2> HIDE DEF q
  <2>1. shards' = [s1 \in Shard |-> shards'[s1]]
    BY <1>2 DEF StoreTypes, Rows
  <2>2. \A s1 \in Shard : shards'[s1] = [tb1 \in Table |-> shards'[s1][tb1]]
    BY <1>2 DEF StoreTypes, Rows
  <2>3. ASSUME NEW s1 \in Shard, NEW tb1 \in Table
        PROVE  shards'[s1][tb1] = [k1 \in Key |-> shards'[s1][tb1][k1]]
    <3>1. PICK f \in [Key -> Seq(AnyVersion)] : f = shards[s1][tb1]
      BY DEF StoreTypes, Rows
    <3>2. shards'[s1][tb1] = IF s1 = s /\ tb1 = tb THEN row ELSE f
      <4> HIDE DEF row
      <4>1. QED BY <1>2, <3>1 DEF StoreTypes, Rows
    <3>3. CASE s1 = s /\ tb1 = tb
      BY <3>1, <3>2, <3>3
    <3>4. CASE ~(s1 = s /\ tb1 = tb)
      BY <3>1, <3>2, <3>4
    <3>5. QED BY <3>3, <3>4
  <2>4. QED BY <1>3, <2>1, <2>2, <2>3 DEF Rows
<1>5. QED BY <1>3, <1>4 DEF Adds

StampedList(x, seq, vs) ==
    [i \in DOMAIN vs |-> IF Staged(x, vs[i]) THEN [vs[i] EXCEPT !.seq = seq] ELSE vs[i]]

\* commit stamps one shard.
LEMMA CommitEffect ==
    ASSUME StoreTypes, NEW n \in Shard, NEW x, NEW seq \in Nat, commitChild(n, x, seq)
    PROVE  /\ shards' \in Rows /\ visible_seq' \in [Shard -> Nat]
           /\ visible_seq' = [visible_seq EXCEPT ![n] = IF @ < seq THEN seq ELSE @]
           /\ \A s \in Shard, tb \in Table, k \in Key :
                 shards'[s][tb][k] = IF s = n THEN StampedList(x, seq, shards[s][tb][k])
                                              ELSE shards[s][tb][k]
<1> DEFINE t == [tb \in Table |-> [k \in Key |-> StampedList(x, seq, shards[n][tb][k])]]
<1>1. shards' = [shards EXCEPT ![n] = t]
  BY DEF commitChild, StampedList
<1>2. ASSUME NEW s \in Shard, NEW tb \in Table, NEW k \in Key
      PROVE  StampedList(x, seq, shards[s][tb][k]) \in Seq(AnyVersion)
  <2>1. PICK vs \in Seq(AnyVersion) : vs = shards[s][tb][k]
    BY VersionsTyped
  <2>2. ASSUME NEW i \in DOMAIN vs
        PROVE  StampedList(x, seq, vs)[i] \in AnyVersion
    <3>1. PICK v \in AnyVersion : v = vs[i]
      OBVIOUS
    <3>2. [v EXCEPT !.seq = seq] \in AnyVersion
      BY DEF AnyVersion
    <3>3. StampedList(x, seq, vs)[i] = IF Staged(x, v) THEN [v EXCEPT !.seq = seq] ELSE v
      BY <3>1 DEF StampedList
    <3>4. QED BY <3>2, <3>3
  <2>3. DOMAIN StampedList(x, seq, vs) = 1..Len(vs)
    BY DEF StampedList
  <2>4. StampedList(x, seq, vs) = [i \in 1..Len(vs) |-> StampedList(x, seq, vs)[i]]
    BY DEF StampedList
  <2>5. QED BY <2>1, <2>2, <2>3, <2>4
<1>3. t \in [Table -> [Key -> Seq(AnyVersion)]]
  BY <1>2
<1>4. shards' \in Rows
  BY <1>1, <1>3 DEF StoreTypes, Rows
<1>5. ASSUME NEW s \in Shard, NEW tb \in Table, NEW k \in Key
      PROVE  shards'[s][tb][k] = IF s = n THEN StampedList(x, seq, shards[s][tb][k])
                                          ELSE shards[s][tb][k]
  BY <1>1 DEF StoreTypes, Rows
<1>6. /\ visible_seq' \in [Shard -> Nat]
      /\ visible_seq' = [visible_seq EXCEPT ![n] = IF @ < seq THEN seq ELSE @]
  <2>1. visible_seq[n] \in Nat
    BY DEF StoreTypes
  <2>2. visible_seq' = [visible_seq EXCEPT ![n] = IF @ < seq THEN seq ELSE @]
    BY <2>1, MaxOfTwo DEF commitChild
  <2>3. QED BY <2>1, <2>2 DEF StoreTypes
<1>7. QED BY <1>4, <1>5, <1>6

LEMMA CountUpTo == ASSUME NEW n \in Nat PROVE Cardinality(1..n) = n
BY FS_Interval

\* What abort leaves of a key's versions; all of them when x has staged none.
LEMMA UnstagedIsLeft ==
    ASSUME NEW x, NEW s \in Seq(AnyVersion)
    PROVE  /\ Unstaged(x, s) \in Seq(AnyVersion)
           /\ \A n \in DOMAIN Unstaged(x, s) :
                 \E i \in DOMAIN s : ~Staged(x, s[i]) /\ Unstaged(x, s)[n] = s[i]
           /\ (\A i \in DOMAIN s : ~Staged(x, s[i])) => Unstaged(x, s) = s
<1> DEFINE left == {i \in DOMAIN s : ~Staged(x, s[i])}
           UpTo(i) == {j \in left : j <= i}
           m == Cardinality(left)
           Is(n, i) == Cardinality(UpTo(i)) = n
<1>1. left \subseteq 1..Len(s) /\ left \subseteq DOMAIN s /\ Len(s) \in Nat
  OBVIOUS
<1>2. IsFiniteSet(left) /\ m \in Nat
  <2>1. IsFiniteSet(1..Len(s))
    BY <1>1, FS_Interval
  <2>2. left \in SUBSET (1..Len(s))
    BY <1>1
  <2> HIDE DEF left
  <2>3. IsFiniteSet(left)
    BY <2>1, <2>2, FS_Subset
  <2>4. QED BY <2>3, FS_CardinalityType
<1>3. left \subseteq Nat
  BY <1>1
<1>4. \A i \in left : ~Staged(x, s[i])
  OBVIOUS
<1> HIDE DEF left, m
<1>5. ASSUME NEW i \in left
      PROVE  IsFiniteSet(UpTo(i)) /\ Cardinality(UpTo(i)) \in 1..m
  <2>1. UpTo(i) \in SUBSET left /\ i \in UpTo(i)
    BY <1>3
  <2>2. IsFiniteSet(UpTo(i)) /\ Cardinality(UpTo(i)) <= m /\ Cardinality(UpTo(i)) \in Nat
    BY <1>2, <2>1, FS_Subset, FS_CardinalityType DEF m
  <2>3. Cardinality(UpTo(i)) # 0
    BY <2>1, <2>2, FS_EmptySet
  <2>4. QED BY <1>2, <2>2, <2>3
<1>6. ASSUME NEW i \in left, NEW j \in left, i < j
      PROVE  Cardinality(UpTo(i)) # Cardinality(UpTo(j))
  <2>0. i \in Nat /\ j \in Nat
    BY <1>3
  <2>1. UpTo(i) \in SUBSET UpTo(j) /\ j \in UpTo(j) /\ j \notin UpTo(i)
    <3>1. \A l \in Nat : l <= i => l <= j
      BY <1>6, <2>0
    <3>2. UpTo(i) \in SUBSET UpTo(j)
      BY <1>3, <3>1
    <3>3. j <= j /\ ~(j <= i)
      BY <1>6, <2>0
    <3>4. QED BY <3>2, <3>3
  <2>2. QED BY <1>5, <2>1, FS_Subset
<1>7. ASSUME NEW n \in 1..m
      PROVE  \E i \in left : Is(n, i)
  <2> SUFFICES ASSUME \A i \in left : ~Is(n, i)
               PROVE  FALSE
    OBVIOUS
  <2> DEFINE f == [i \in left |-> Cardinality(UpTo(i))]
             T == (1..m) \ {n}
  <2>1. f \in [left -> T]
    BY <1>5
  <2>2. IsFiniteSet(1..m) /\ Cardinality(1..m) = m
    BY <1>2, FS_Interval
  <2>3. IsFiniteSet(T) /\ Cardinality(T) < Cardinality(left)
    <3>1. IsFiniteSet(T) /\ Cardinality(T) = m - 1
      BY <2>2, FS_RemoveElement
    <3>2. QED BY <1>2, <3>1 DEF m
  <2> HIDE DEF T, f
  <2>4. PICK i \in left, j \in left : i # j /\ f[i] = f[j]
    BY <1>2, <2>1, <2>3, FS_PigeonHole
  <2>5. i < j \/ j < i
    BY <1>3, <2>4
  <2>6. QED BY <1>6, <2>4, <2>5 DEF f
<1> DEFINE Place(n) == CHOOSE i \in left : Is(n, i)
<1>8. ASSUME NEW n \in 1..m
      PROVE  Place(n) \in left /\ Is(n, Place(n))
  BY <1>7
<1> DEFINE u == [n \in 1..m |-> s[Place(n)]]
<1>9. Unstaged(x, s) = u
  BY DEF Unstaged, left, m
<1> HIDE DEF UpTo, Is, Place
<1>10. u \in Seq(AnyVersion)
  BY <1>1, <1>2, <1>8
<1>11. ASSUME NEW n \in DOMAIN u
       PROVE  \E i \in DOMAIN s : ~Staged(x, s[i]) /\ u[n] = s[i]
  BY <1>1, <1>4, <1>8
<1>12. ASSUME \A i \in DOMAIN s : ~Staged(x, s[i])
       PROVE  u = s
  <2>1. left = 1..Len(s)
    BY <1>12 DEF left
  <2>2. m = Len(s)
    <3>1. Len(s) \in Nat
      OBVIOUS
    <3>2. Cardinality(1..Len(s)) = Len(s)
      BY <3>1, CountUpTo
    <3>3. QED BY <2>1, <3>2 DEF m
  <2>3. ASSUME NEW i \in 1..Len(s)
        PROVE  Cardinality(UpTo(i)) = i
    <3>1. i \in Nat /\ i <= Len(s) /\ Len(s) \in Nat
      BY <1>1
    <3>2. UpTo(i) = {j \in 1..Len(s) : j <= i}
      BY <2>1 DEF UpTo
    <3>3. {j \in 1..Len(s) : j <= i} = 1..i
      BY <3>1
    <3>4. QED BY <3>1, <3>2, <3>3, CountUpTo
  <2>4. \A n \in 1..Len(s) : Place(n) = n
    BY <1>8, <2>1, <2>2, <2>3 DEF Is
  <2>5. QED BY <1>1, <2>2, <2>4
<1>13. QED BY <1>9, <1>10, <1>11, <1>12

\* abort empties one shard of what x has staged.
LEMMA AbortEffect ==
    ASSUME StoreTypes, NEW n \in Shard, NEW x, abortChild(n, x)
    PROVE  /\ shards' \in Rows /\ visible_seq' = visible_seq
           /\ \A s \in Shard, tb \in Table, k \in Key :
                 shards'[s][tb][k] = IF s = n THEN Unstaged(x, shards[s][tb][k])
                                              ELSE shards[s][tb][k]
<1> DEFINE t == [tb \in Table |-> [k \in Key |-> Unstaged(x, shards[n][tb][k])]]
<1>1. shards' = [shards EXCEPT ![n] = t] /\ visible_seq' = visible_seq
  BY DEF abortChild
<1>2. t \in [Table -> [Key -> Seq(AnyVersion)]]
  BY VersionsTyped, UnstagedIsLeft
<1>3. shards' \in Rows
  BY <1>1, <1>2 DEF StoreTypes, Rows
<1>4. ASSUME NEW s \in Shard, NEW tb \in Table, NEW k \in Key
      PROVE  shards'[s][tb][k] = IF s = n THEN Unstaged(x, shards[s][tb][k])
                                          ELSE shards[s][tb][k]
  BY <1>1 DEF StoreTypes, Rows
<1>5. QED BY <1>1, <1>3, <1>4

-----------------------------------------------------------------------------
(* The steps of a statement.                                               *)

\* The statement of x moves on, and is not at its commit's loop.
JobMoves(x, j) ==
    /\ job' = [job EXCEPT ![x] = j]
    /\ JobOK(j) /\ UNCHANGED <<program, visible_seq>>
    /\ next_id' \in Nat /\ next_id' >= next_id /\ commit_seq' \in Nat \ {0}
    /\ x \in 1..next_id'
    /\ job[x].pc # "stamp" /\ (j.pc = "stamp" => j.next = 0)

LEMMA JobMovesKeeps ==
    ASSUME StoreInv, NEW x \in Txn, NEW j, JobMoves(x, j)
    PROVE  Jobs' /\ Stamped' /\ Behind'
<1>1. job'[x] = j /\ \A y \in Txn \ {x} : job'[y] = job[y]
  BY DEF JobMoves, StoreInv, Jobs
<1>2. \A y \in Txn : JobOK(job[y])'
  <2>1. \A y \in Txn : JobOK(job'[y])
    BY <1>1 DEF JobMoves, StoreInv, Jobs
  <2>2. QED BY <2>1 DEF JobMoves, JobOK, keyed
<1>3. Jobs'
  <2>1. job' = [y \in Txn |-> job'[y]]
    BY DEF JobMoves, StoreInv, Jobs
  <2>4. ASSUME NEW y \in Txn, y \notin 1..next_id'
        PROVE  job'[y].pc = "idle"
    <3>1. y # x /\ y \notin 1..next_id
      BY <2>4 DEF JobMoves, StoreInv, StoreTypes
    <3>2. QED BY <1>1, <3>1 DEF StoreInv, Jobs
  <2>5. QED BY <1>2, <2>1, <2>4 DEF Jobs
<1>4. 0 \in Shard /\ \A s \in Shard : ~(s < 0)
  BY ShardNumbers
<1>5. Stamped'
  <2> SUFFICES ASSUME NEW y \in Txn, job'[y].pc = "stamp",
                      NEW s \in Shard, s < job'[y].next
               PROVE  visible_seq'[s] >= job'[y].seq
    BY DEF Stamped
  <2>1. y # x
    BY <1>1, <1>4 DEF JobMoves
  <2>2. QED BY <1>1, <2>1 DEF JobMoves, StoreInv, Stamped
<1>6. Behind'
  <2> SUFFICES ASSUME NEW s1 \in Shard, NEW s2 \in Shard, visible_seq'[s1] > visible_seq'[s2]
               PROVE  \E y \in Txn : Reaches(job[y], s2, visible_seq[s1])'
    BY DEF Behind
  <2>1. PICK y \in Txn : Reaches(job[y], s2, visible_seq[s1])
    BY DEF JobMoves, StoreInv, Behind
  <2>2. y # x
    BY <2>1 DEF JobMoves, Reaches
  <2>3. QED BY <1>1, <2>1, <2>2 DEF JobMoves, Reaches
<1>7. QED BY <1>3, <1>5, <1>6

\* Nothing was written, and x may have staged where it might before.
LEMMA StoreJobKeeps ==
    ASSUME StoreInv, NEW x \in Txn, NEW j, JobMoves(x, j), shards' = shards,
           \A s \in Shard : MayStage(job[x], s) => MayStage(j, s)
    PROVE  StoreInv'
<1>1. Jobs' /\ Stamped' /\ Behind'
  BY JobMovesKeeps
<1>2. job'[x] = j /\ \A y \in Txn \ {x} : job'[y] = job[y]
  BY DEF JobMoves, StoreInv, Jobs
<1>3. \A y \in Txn, s \in Shard : MayStage(job[y], s) => MayStage(job'[y], s)
  BY <1>2
<1>4. ASSUME NEW s \in Shard, NEW v, VersionOK(s, v)
      PROVE  VersionOK(s, v)'
  <2>1. v.txn \in 1..next_id'
    BY <1>4 DEF VersionOK, JobMoves, StoreInv, StoreTypes
  <2>2. v.seq <= visible_seq'[s]
    BY <1>4 DEF VersionOK, JobMoves
  <2>3. v.seq = 0 => v.txn \in Txn /\ MayStage(job'[v.txn], s)
    BY <1>3, <1>4 DEF VersionOK
  <2>4. QED BY <2>1, <2>2, <2>3 DEF VersionOK, MayStage
<1>5. AllVersions'
  BY <1>4 DEF AllVersions, StoreInv
<1>6. StoreTypes'
  BY DEF JobMoves, StoreInv, StoreTypes
<1>7. QED BY <1>1, <1>5, <1>6 DEF StoreInv

\* A step of a statement that leaves the engine and the cache alone.
QuietStep(x) ==
    \E j : /\ JobMoves(x, j) /\ job[x].erase = {}
           /\ UNCHANGED <<shards, cache, lookup>>
           /\ \A s \in Shard : MayStage(job[x], s) => MayStage(j, s)

OutsideAll == OutsideSession /\ UNCHANGED program

LEMMA OutsideFacts ==
    ASSUME OutsideAll
    PROVE  UNCHANGED <<shards, visible_seq, cache, lookup, program>>
BY DEF OutsideAll, OutsideSession, engineVars, cacheVars

\* The transaction of a statement that has begun was begun.
LEMMA JobBegun ==
    ASSUME StoreInv, NEW x \in Txn, job[x].pc # "idle"
    PROVE  x \in 1..next_id /\ JobOK(job[x]) /\ next_id \in Nat /\ commit_seq \in Nat \ {0}
BY DEF StoreInv, StoreTypes, Jobs

LEMMA StatementFields ==
    ASSUME NEW st \in Statement, keyed => st.ids # {NullKey}
    PROVE  st.c \in {0, 1, MaxCol} /\ (keyed => st.ids \subseteq Key)
BY DEF Statement

LEMMA IdleOK == JobOK(Idle) /\ Idle.pc = "idle" /\ Idle.erase = {} /\ Idle.keys = {}
BY ShardNumbers DEF JobOK, JobShape, Idle

\* A statement keeps its fields.
LEMMA ShapeKept ==
    ASSUME NEW r, JobShape(r), NEW v
    PROVE  /\ JobShape([r EXCEPT !.pc = v]) /\ JobShape([r EXCEPT !.table = v])
           /\ JobShape([r EXCEPT !.stmt = v]) /\ JobShape([r EXCEPT !.next = v])
           /\ JobShape([r EXCEPT !.keys = v]) /\ JobShape([r EXCEPT !.rows = v])
           /\ JobShape([r EXCEPT !.erase = v]) /\ JobShape([r EXCEPT !.seq = v])
BY DEF JobShape

LEMMA BeginQuiet ==
    ASSUME StoreInv, NEW tb, NEW st \in Statement, Begin(tb, st),
           UNCHANGED <<engineVars, cacheVars, program>>
    PROVE  NewTxn \in Txn /\ QuietStep(NewTxn)
<1> DEFINE j == [Idle EXCEPT !.pc = "lock", !.table = tb, !.stmt = st]
<1>1. /\ job' = [job EXCEPT ![NewTxn] = j] /\ next_id < MaxTxn /\ next_id' = NewTxn
      /\ commit_seq' = commit_seq /\ (keyed => st.ids # {NullKey})
  BY DEF Begin, beginTxn
<1>2. next_id \in Nat \ {0} /\ commit_seq \in Nat \ {0}
  BY DEF StoreInv, StoreTypes
<1>3. NewTxn \in Txn /\ NewTxn \notin 1..next_id /\ NewTxn \in 1..next_id' /\ next_id' >= next_id
  BY <1>1, <1>2, TxnAssumption DEF NewTxn
<1>4. job[NewTxn].pc = "idle" /\ job[NewTxn].erase = {}
  BY <1>3 DEF StoreInv, Jobs, JobOK
<1>5. JobOK(j) /\ j.pc = "lock"
  <2>1. /\ j.pc = "lock" /\ j.stmt = st /\ j.next = Idle.next /\ j.seq = Idle.seq
        /\ j.keys = {} /\ j.erase = {}
    BY IdleOK DEF JobOK
  <2>2. JobShape(j)
    BY IdleOK, ShapeKept DEF JobOK
  <2>3. j.next \in Shard /\ j.seq \in Nat
    BY <2>1, IdleOK DEF JobOK
  <2> HIDE DEF j
  <2>4. QED BY <1>1, <2>1, <2>2, <2>3, StatementFields DEF JobOK
<1>6. JobMoves(NewTxn, j)
  BY <1>1, <1>2, <1>3, <1>4, <1>5 DEF JobMoves, engineVars, NewTxn
<1>7. \A s \in Shard : ~MayStage(job[NewTxn], s)
  BY <1>4 DEF MayStage
<1>8. QED BY <1>3, <1>4, <1>6, <1>7 DEF QuietStep, engineVars, cacheVars

LEMMA LockTableQuiet ==
    ASSUME StoreInv, NEW x \in Txn, LockTable(x), OutsideAll PROVE QuietStep(x)
<1> DEFINE j == IF job[x].stmt.op = "insert"
                THEN [job[x] EXCEPT !.pc = "write", !.keys = job[x].stmt.ids]
                ELSE [job[x] EXCEPT !.pc = "scan", !.next = 0]
<1>1. job[x].pc = "lock" /\ job' = [job EXCEPT ![x] = j] /\ UNCHANGED <<next_id, commit_seq>>
  BY DEF LockTable, Go, txnVars
<1>2. x \in 1..next_id /\ JobOK(job[x]) /\ next_id \in Nat /\ commit_seq \in Nat \ {0}
  BY <1>1, JobBegun
<1>3. job[x].erase = {}
  BY <1>1, <1>2 DEF JobOK
<1>4. JobOK(j) /\ j.pc # "stamp"
  <2>1. CASE job[x].stmt.op = "insert"
    <3>1. JobShape(j)
      BY <2>1, <1>2, ShapeKept DEF JobOK
    <3>2. /\ j.pc = "write" /\ j.keys = job[x].stmt.ids /\ j.stmt = job[x].stmt
          /\ j.next = job[x].next /\ j.erase = job[x].erase /\ j.seq = job[x].seq
      BY <2>1
    <3> HIDE DEF j
    <3>3. QED BY <1>2, <1>3, <3>1, <3>2, ShardNumbers DEF JobOK
  <2>2. CASE job[x].stmt.op # "insert"
    <3>1. JobShape(j)
      BY <2>2, <1>2, ShapeKept DEF JobOK
    <3>2. /\ j.pc = "scan" /\ j.next = 0 /\ j.stmt = job[x].stmt
          /\ j.keys = job[x].keys /\ j.erase = job[x].erase /\ j.seq = job[x].seq
      BY <2>2
    <3> HIDE DEF j
    <3>3. QED BY <1>2, <1>3, <3>1, <3>2, ShardNumbers DEF JobOK
  <2>3. QED BY <2>1, <2>2
<1>5. JobMoves(x, j)
  BY <1>1, <1>2, <1>4, OutsideFacts DEF JobMoves
<1>6. \A s \in Shard : ~MayStage(job[x], s)
  BY <1>1 DEF MayStage
<1>7. QED BY <1>3, <1>5, <1>6, OutsideFacts DEF QuietStep

LEMMA ScanShardQuiet ==
    ASSUME StoreInv, NEW x \in Txn, ScanShard(x), OutsideAll PROVE QuietStep(x)
<1> DEFINE found == job[x].rows \cup childScan(job[x].next, x, job[x].table)
           picked == {r.id : r \in found} \cap job[x].stmt.ids
<1> DEFINE j == IF job[x].next + 1 \in Shard
                THEN [job[x] EXCEPT !.rows = found, !.next = @ + 1]
                ELSE [job[x] EXCEPT
                         !.pc = IF job[x].stmt.op = "select" THEN "commitTxn" ELSE "write",
                         !.rows = {}, !.keys = picked, !.next = 0]
<1>1. picked \subseteq job[x].stmt.ids
  OBVIOUS
<1> HIDE DEF found, picked
<1>2. job[x].pc = "scan" /\ job' = [job EXCEPT ![x] = j] /\ UNCHANGED <<next_id, commit_seq>>
  BY DEF ScanShard, txnVars, found, picked
<1>3. x \in 1..next_id /\ JobOK(job[x]) /\ next_id \in Nat /\ commit_seq \in Nat \ {0}
  BY <1>2, JobBegun
<1>4. job[x].erase = {}
  BY <1>2, <1>3 DEF JobOK
<1>5. JobOK(j) /\ j.pc # "stamp"
  <2>1. CASE job[x].next + 1 \in Shard
    <3>1. JobShape(j)
      BY <2>1, <1>3, ShapeKept DEF JobOK
    <3>2. /\ j.next = job[x].next + 1 /\ j.pc = job[x].pc /\ j.stmt = job[x].stmt
          /\ j.keys = job[x].keys /\ j.erase = job[x].erase /\ j.seq = job[x].seq
      BY <2>1
    <3> HIDE DEF j
    <3>3. QED BY <1>2, <1>3, <1>4, <2>1, <3>1, <3>2, ShardNumbers DEF JobOK
  <2>2. CASE job[x].next + 1 \notin Shard
    <3>1. JobShape(j)
      BY <2>2, <1>3, ShapeKept DEF JobOK
    <3>2. /\ j.pc = (IF job[x].stmt.op = "select" THEN "commitTxn" ELSE "write")
          /\ j.next = 0 /\ j.keys = picked /\ j.stmt = job[x].stmt
          /\ j.erase = job[x].erase /\ j.seq = job[x].seq
      BY <2>2
    <3> HIDE DEF j
    <3>3. QED BY <1>1, <1>3, <1>4, <3>1, <3>2, ShardNumbers DEF JobOK
  <2>3. QED BY <2>1, <2>2
<1>6. JobMoves(x, j)
  BY <1>2, <1>3, <1>5, OutsideFacts DEF JobMoves
<1>7. \A s \in Shard : ~MayStage(job[x], s)
  BY <1>2 DEF MayStage
<1>8. QED BY <1>4, <1>6, <1>7, OutsideFacts DEF QuietStep

LEMMA CommitTxnQuiet ==
    ASSUME StoreInv, NEW x \in Txn, CommitTxn(x), OutsideAll PROVE QuietStep(x)
<1> DEFINE j == [job[x] EXCEPT !.pc = "seq", !.next = 0]
<1>1. /\ job[x].pc = "commitTxn" \/ (job[x].pc = "write" /\ job[x].erase = {})
      /\ job' = [job EXCEPT ![x] = j] /\ next_id' = next_id
  BY DEF CommitTxn, Written, Go, commitTxn, txnVars
<1>2. x \in 1..next_id /\ JobOK(job[x]) /\ next_id \in Nat /\ commit_seq \in Nat \ {0}
  BY <1>1, JobBegun
<1>3. commit_seq' \in Nat \ {0}
  BY <1>2 DEF CommitTxn, commitTxn, txnVars
<1>4. job[x].erase = {}
  BY <1>1, <1>2 DEF JobOK
<1>5. JobOK(j) /\ j.pc = "seq"
  <2>1. JobShape(j)
    BY <1>2, ShapeKept DEF JobOK
  <2>2. /\ j.pc = "seq" /\ j.next = 0 /\ j.stmt = job[x].stmt /\ j.keys = job[x].keys
        /\ j.erase = job[x].erase /\ j.seq = job[x].seq
    OBVIOUS
  <2> HIDE DEF j
  <2>3. QED BY <1>2, <1>4, <2>1, <2>2, ShardNumbers DEF JobOK
<1>6. JobMoves(x, j)
  BY <1>1, <1>2, <1>3, <1>5, OutsideFacts DEF JobMoves
<1>7. \A s \in Shard : MayStage(j, s)
  BY <1>5 DEF MayStage
<1>8. QED BY <1>4, <1>6, <1>7, OutsideFacts DEF QuietStep

LEMMA ReadSeqQuiet ==
    ASSUME StoreInv, NEW x \in Txn, ReadSeq(x), OutsideAll PROVE QuietStep(x)
<1> DEFINE j == [job[x] EXCEPT !.pc = "stamp", !.seq = commit_seq]
<1>1. /\ job[x].pc = "seq" /\ job' = [job EXCEPT ![x] = j] /\ UNCHANGED <<next_id, commit_seq>>
  BY DEF ReadSeq, visibleSeq, txnVars
<1>2. x \in 1..next_id /\ JobOK(job[x]) /\ next_id \in Nat /\ commit_seq \in Nat \ {0}
  BY <1>1, JobBegun
<1>3. job[x].erase = {} /\ job[x].next = 0
  BY <1>1, <1>2 DEF JobOK
<1>4. JobOK(j) /\ j.pc = "stamp" /\ j.next = 0
  <2>1. JobShape(j)
    BY <1>2, ShapeKept DEF JobOK
  <2>2. /\ j.pc = "stamp" /\ j.seq = commit_seq /\ j.stmt = job[x].stmt
        /\ j.next = job[x].next /\ j.keys = job[x].keys /\ j.erase = job[x].erase
    OBVIOUS
  <2> HIDE DEF j
  <2>3. QED BY <1>2, <1>3, <2>1, <2>2, ShardNumbers DEF JobOK
<1>5. JobMoves(x, j)
  BY <1>1, <1>2, <1>4, OutsideFacts DEF JobMoves
<1>6. \A s \in Shard : MayStage(j, s)
  BY <1>4, ShardNumbers DEF MayStage
<1>7. QED BY <1>3, <1>5, <1>6, OutsideFacts DEF QuietStep

LEMMA RollbackQuiet ==
    ASSUME StoreInv, NEW x \in Txn, Rollback(x), OutsideAll PROVE QuietStep(x)
<1> DEFINE j == [job[x] EXCEPT !.pc = "abort", !.next = 0]
<1>1. /\ job[x].pc = "write" /\ job[x].erase = {}
      /\ job' = [job EXCEPT ![x] = j] /\ UNCHANGED <<next_id, commit_seq>>
  BY DEF Rollback, Written, Go, txnVars
<1>2. x \in 1..next_id /\ JobOK(job[x]) /\ next_id \in Nat /\ commit_seq \in Nat \ {0}
  BY <1>1, JobBegun
<1>4. JobOK(j) /\ j.pc = "abort" /\ j.next = 0
  <2>1. JobShape(j)
    BY <1>2, ShapeKept DEF JobOK
  <2>2. /\ j.pc = "abort" /\ j.next = 0 /\ j.stmt = job[x].stmt
        /\ j.keys = job[x].keys /\ j.erase = job[x].erase /\ j.seq = job[x].seq
    OBVIOUS
  <2> HIDE DEF j
  <2>3. QED BY <1>1, <1>2, <2>1, <2>2, ShardNumbers DEF JobOK
<1>5. JobMoves(x, j)
  BY <1>1, <1>2, <1>4, OutsideFacts DEF JobMoves
<1>6. \A s \in Shard : MayStage(j, s)
  BY <1>4, ShardNumbers DEF MayStage
<1>7. QED BY <1>1, <1>5, <1>6, OutsideFacts DEF QuietStep

LEMMA ReleaseQuiet ==
    ASSUME StoreInv, NEW x \in Txn, Release(x), OutsideAll PROVE QuietStep(x)
<1> DEFINE j == [Idle EXCEPT !.pc = "done"]
<1>1. /\ job[x].pc = "release" /\ job' = [job EXCEPT ![x] = j] /\ UNCHANGED <<next_id, commit_seq>>
  BY DEF Release, txnVars
<1>2. x \in 1..next_id /\ JobOK(job[x]) /\ next_id \in Nat /\ commit_seq \in Nat \ {0}
  BY <1>1, JobBegun
<1>3. job[x].erase = {}
  BY <1>1, <1>2 DEF JobOK
<1>4. JobOK(j) /\ j.pc = "done"
  <2>1. JobShape(j)
    BY IdleOK, ShapeKept DEF JobOK
  <2>2. /\ j.pc = "done" /\ j.stmt = Idle.stmt /\ j.next = Idle.next
        /\ j.keys = Idle.keys /\ j.erase = Idle.erase /\ j.seq = Idle.seq
    OBVIOUS
  <2> HIDE DEF j
  <2>3. QED BY IdleOK, <2>1, <2>2, ShardNumbers DEF JobOK
<1>5. JobMoves(x, j)
  BY <1>1, <1>2, <1>4, OutsideFacts DEF JobMoves
<1>6. \A s \in Shard : ~MayStage(job[x], s)
  BY <1>1 DEF MayStage
<1>7. QED BY <1>3, <1>5, <1>6, OutsideFacts DEF QuietStep

LEMMA QuietStepKeeps ==
    ASSUME StoreInv, NEW x \in Txn, QuietStep(x)
    PROVE  StoreInv'
BY StoreJobKeeps DEF QuietStep

LEMMA InvalidateStore ==
    ASSUME StoreInv, NEW x \in Txn, Invalidate(x), UNCHANGED <<engineVars, program>>
    PROVE  StoreInv'
<1> DEFINE j == [job[x] EXCEPT !.erase = {}]
<1>1. job[x].erase # {} /\ job' = [job EXCEPT ![x] = j] /\ UNCHANGED <<next_id, commit_seq>>
  BY DEF Invalidate, txnVars
<1>2. job[x].pc = "write"
  BY <1>1 DEF StoreInv, Jobs, JobOK
<1>3. x \in 1..next_id /\ JobOK(job[x]) /\ next_id \in Nat /\ commit_seq \in Nat \ {0}
  BY <1>2, JobBegun
<1>4. JobOK(j) /\ j.pc = "write"
  <2>1. JobShape(j)
    BY <1>3, ShapeKept DEF JobOK
  <2>2. /\ j.erase = {} /\ j.pc = job[x].pc /\ j.stmt = job[x].stmt
        /\ j.next = job[x].next /\ j.keys = job[x].keys /\ j.seq = job[x].seq
    OBVIOUS
  <2> HIDE DEF j
  <2>3. QED BY <1>2, <1>3, <2>1, <2>2, ShardNumbers DEF JobOK
<1>5. JobMoves(x, j)
  BY <1>1, <1>2, <1>3, <1>4 DEF JobMoves, engineVars
<1>6. \A s \in Shard : MayStage(j, s)
  BY <1>4 DEF MayStage
<1>7. QED BY <1>5, <1>6, StoreJobKeeps DEF engineVars

\* What put or remove does, whichever the statement calls.
Appends(x, tb, id) ==
    \E dead \in BOOLEAN, c \in {0, 1, MaxCol} : Adds(tb, id, NewVersion(x, dead, c))

WrittenKey(x, k) ==
    IF job[x].stmt.op = "delete" THEN k ELSE PutKey(job[x].table, k, job[x].stmt.c)

LEMMA WriteRowEffect ==
    ASSUME StoreInv, NEW x \in Txn, NEW k, WriteRow(x, k), UNCHANGED program
    PROVE  /\ Appends(x, job[x].table, WrittenKey(x, k))
           /\ JobMoves(x, [job[x] EXCEPT !.keys = @ \ {k}, !.erase = {k}])
           /\ job[x].pc = "write" /\ job[x].erase = {} /\ k \in job[x].keys
           /\ Overtaken(job[x].table, WrittenKey(x, k))
<1> DEFINE j == [job[x] EXCEPT !.keys = @ \ {k}, !.erase = {k}]
<1>1. /\ job[x].pc = "write" /\ job[x].erase = {} /\ k \in job[x].keys
      /\ job' = [job EXCEPT ![x] = j] /\ UNCHANGED <<next_id, commit_seq>>
      /\ Overtaken(job[x].table, WrittenKey(x, k))
  BY DEF WriteRow, WrittenKey, txnVars
<1>2. x \in 1..next_id /\ JobOK(job[x]) /\ next_id \in Nat /\ commit_seq \in Nat \ {0}
  BY <1>1, JobBegun
<1>3. JobOK(j) /\ j.pc = "write"
  <2>1. JobShape(j)
    BY <1>2, ShapeKept DEF JobOK
  <2>2. /\ j.keys = job[x].keys \ {k} /\ j.erase = {k} /\ j.pc = job[x].pc
        /\ j.stmt = job[x].stmt /\ j.next = job[x].next /\ j.seq = job[x].seq
    OBVIOUS
  <2> HIDE DEF j
  <2>3. QED BY <1>1, <1>2, <2>1, <2>2, ShardNumbers DEF JobOK
<1>4. visible_seq' = visible_seq
  BY DEF WriteRow, put, remove
<1>5. JobMoves(x, j)
  BY <1>1, <1>2, <1>3, <1>4 DEF JobMoves
<1>6. StoreTypes /\ job[x].stmt.c \in {0, 1, MaxCol} /\ TRUE \in BOOLEAN /\ FALSE \in BOOLEAN
  BY <1>2 DEF StoreInv, JobOK
<1>7. Appends(x, job[x].table, WrittenKey(x, k))
  <2>1. CASE job[x].stmt.op = "delete"
    <3>1. Stage(routeByKey(k), x, job[x].table, k, TRUE, 0)
      BY <2>1 DEF WriteRow, remove
    <3>2. QED BY <1>6, <2>1, <3>1, StageEffect DEF Appends, WrittenKey
  <2>2. CASE job[x].stmt.op # "delete"
    <3>1. PICK s : Stage(s, x, job[x].table, WrittenKey(x, k), FALSE, job[x].stmt.c)
      BY <2>2 DEF WriteRow, put, WrittenKey
    <3>2. QED BY <1>6, <3>1, StageEffect DEF Appends
  <2>3. QED BY <2>1, <2>2
<1>8. QED BY <1>1, <1>5, <1>7

\* The elements of a list that has grown.
LEMMA AppendElements ==
    ASSUME NEW vs \in Seq(AnyVersion), NEW v \in AnyVersion
    PROVE  /\ Append(vs, v) \in Seq(AnyVersion)
           /\ DOMAIN Append(vs, v) = 1..(Len(vs) + 1) /\ DOMAIN vs = 1..Len(vs) /\ Len(vs) \in Nat
           /\ \A i \in DOMAIN vs : Append(vs, v)[i] = vs[i]
           /\ Append(vs, v)[Len(vs) + 1] = v
           /\ \A i \in DOMAIN Append(vs, v) : (i \in DOMAIN vs /\ Append(vs, v)[i] = vs[i]) \/ Append(vs, v)[i] = v
OBVIOUS

LEMMA WriteRowStore ==
    ASSUME StoreInv, NEW x \in Txn, NEW k, WriteRow(x, k), UNCHANGED program
    PROVE  StoreInv'
<1> DEFINE j == [job[x] EXCEPT !.keys = @ \ {k}, !.erase = {k}]
<1>1. /\ Appends(x, job[x].table, WrittenKey(x, k)) /\ JobMoves(x, j) /\ job[x].pc = "write"
  BY WriteRowEffect
<1>2. j.pc = "write"
  BY <1>1
<1> HIDE DEF j
<1>3. Jobs' /\ Stamped' /\ Behind'
  BY <1>1, JobMovesKeeps
<1>4. job'[x] = j /\ \A y \in Txn \ {x} : job'[y] = job[y]
  BY <1>1 DEF JobMoves, StoreInv, Jobs
<1>5. \A y \in Txn, s \in Shard : MayStage(job[y], s) => MayStage(job'[y], s)
  BY <1>2, <1>4 DEF MayStage
<1>6. \A s \in Shard : MayStage(job'[x], s)
  BY <1>2, <1>4 DEF MayStage
<1>7. PICK dead \in BOOLEAN, c \in {0, 1, MaxCol} :
        Adds(job[x].table, WrittenKey(x, k), NewVersion(x, dead, c))
  BY <1>1 DEF Appends
<1>8. ASSUME NEW s \in Shard, NEW tb \in Table, NEW l \in Key,
             NEW i \in DOMAIN shards'[s][tb][l]
      PROVE  VersionOK(s, shards[s][tb][l][i])'
  <2>1. PICK vs \in Seq(AnyVersion) : vs = shards[s][tb][l]
    BY VersionsTyped DEF StoreInv
  <2>2. NewVersion(x, dead, c) \in AnyVersion
    BY DEF NewVersion, AnyVersion
  <2>3. shards'[s][tb][l] = vs \/ shards'[s][tb][l] = Append(vs, NewVersion(x, dead, c))
    BY <1>7, <2>1 DEF Adds
  <2>4. PICK v : v = shards'[s][tb][l][i]
    OBVIOUS
  <2>5. (i \in DOMAIN vs /\ v = vs[i]) \/ v = NewVersion(x, dead, c)
    BY <1>8, <2>2, <2>3, <2>4, AppendElements
  <2>6. CASE v = NewVersion(x, dead, c)
    <3>1. v.txn = x /\ v.seq = 0
      BY <2>6 DEF NewVersion
    <3>2. x \in 1..next_id' /\ 0 <= visible_seq'[s]
      BY <1>1 DEF JobMoves, StoreInv, StoreTypes
    <3>3. QED BY <1>6, <2>4, <3>1, <3>2 DEF VersionOK, MayStage
  <2>7. CASE i \in DOMAIN vs /\ v = vs[i]
    <3>1. VersionOK(s, v)
      BY <2>1, <2>7 DEF StoreInv, AllVersions
    <3>2. v.txn \in 1..next_id' /\ v.seq <= visible_seq'[s]
      BY <1>1, <3>1 DEF VersionOK, JobMoves, StoreInv, StoreTypes
    <3>3. v.seq = 0 => v.txn \in Txn /\ MayStage(job'[v.txn], s)
      BY <1>5, <3>1 DEF VersionOK
    <3>4. QED BY <2>4, <3>2, <3>3 DEF VersionOK, MayStage
  <2>8. QED BY <2>5, <2>6, <2>7
<1>9. AllVersions'
  BY <1>8 DEF AllVersions
<1>10. StoreTypes'
  BY <1>1, <1>7 DEF JobMoves, Adds, StoreInv, StoreTypes
<1>11. QED BY <1>3, <1>9, <1>10 DEF StoreInv

\* A turn of commit's or abort's loop: the statement is at the next shard, or
\* done with all of them.
NextTurn(x) ==
    IF job[x].next + 1 \in Shard THEN [job[x] EXCEPT !.next = @ + 1]
    ELSE [job[x] EXCEPT !.pc = "release", !.next = 0]

LEMMA NextTurnOK ==
    ASSUME StoreInv, NEW x \in Txn, job[x].pc \in {"stamp", "abort"}
    PROVE  /\ JobOK(NextTurn(x))
           /\ NextTurn(x).erase = {} /\ job[x].erase = {} /\ NextTurn(x).seq = job[x].seq
           /\ job[x].next \in Shard /\ job[x].next \in Nat
           /\ job[x].next + 1 \in Shard =>
                 NextTurn(x).pc = job[x].pc /\ NextTurn(x).next = job[x].next + 1
           /\ job[x].next + 1 \notin Shard => NextTurn(x).pc = "release"
           /\ \A s \in Shard : MayStage(job[x], s) /\ s # job[x].next => MayStage(NextTurn(x), s)
           /\ \A s \in Shard : s > job[x].next => job[x].next + 1 \in Shard /\ s >= job[x].next + 1
<1> DEFINE j == NextTurn(x)
<1>1. JobOK(job[x])
  BY DEF StoreInv, Jobs
<1>2. job[x].next \in Shard /\ job[x].next \in Nat /\ job[x].erase = {}
  BY <1>1, ShardNumbers DEF JobOK
<1>3. CASE job[x].next + 1 \in Shard
  <2>1. /\ j.next = job[x].next + 1 /\ j.pc = job[x].pc /\ j.stmt = job[x].stmt
        /\ j.keys = job[x].keys /\ j.erase = job[x].erase /\ j.seq = job[x].seq
    BY <1>3 DEF NextTurn
  <2>2. JobShape(j)
    BY <1>1, <1>3, ShapeKept DEF JobOK, NextTurn
  <2> HIDE DEF j
  <2>3. JobOK(j)
    BY <1>1, <1>2, <1>3, <2>1, <2>2 DEF JobOK
  <2>4. \A s \in Shard : s # job[x].next /\ s >= job[x].next => s >= job[x].next + 1
    BY <1>2, ShardNumbers
  <2>5. \A s \in Shard : MayStage(job[x], s) /\ s # job[x].next => MayStage(j, s)
    BY <2>1, <2>4 DEF MayStage
  <2>6. \A s \in Shard : s > job[x].next => s >= job[x].next + 1
    BY <1>2, ShardNumbers
  <2>7. QED BY <1>2, <1>3, <2>1, <2>3, <2>5, <2>6 DEF j
<1>4. CASE job[x].next + 1 \notin Shard
  <2>1. /\ j.pc = "release" /\ j.next = 0 /\ j.stmt = job[x].stmt
        /\ j.keys = job[x].keys /\ j.erase = job[x].erase /\ j.seq = job[x].seq
    BY <1>4 DEF NextTurn
  <2>2. JobShape(j)
    BY <1>1, <1>4, ShapeKept DEF JobOK, NextTurn
  <2> HIDE DEF j
  <2>3. JobOK(j)
    BY <1>1, <1>2, <2>1, <2>2, ShardNumbers DEF JobOK
  <2>4. \A s \in Shard : ~(s > job[x].next)
    BY <1>2, <1>4, ShardNumbers
  <2>5. \A s \in Shard : ~(MayStage(job[x], s) /\ s # job[x].next)
    BY <1>2, <2>4, ShardNumbers DEF MayStage
  <2>6. QED BY <1>2, <1>4, <2>1, <2>3, <2>4, <2>5 DEF j
<1>5. QED BY <1>3, <1>4

LEMMA NextTurnJobs ==
    ASSUME StoreInv, NEW x \in Txn, job[x].pc \in {"stamp", "abort"},
           job' = [job EXCEPT ![x] = NextTurn(x)], UNCHANGED <<program, next_id>>
    PROVE  Jobs' /\ job'[x] = NextTurn(x) /\ \A y \in Txn \ {x} : job'[y] = job[y]
<1>1. job'[x] = NextTurn(x) /\ \A y \in Txn \ {x} : job'[y] = job[y]
  BY DEF StoreInv, Jobs
<1>2. \A y \in Txn : JobOK(job'[y])
  BY <1>1, NextTurnOK DEF StoreInv, Jobs
<1>3. \A y \in Txn : JobOK(job[y])'
  BY <1>2 DEF JobOK, keyed
<1>4. x \in 1..next_id
  BY JobBegun
<1>5. \A y \in Txn \ (1..next_id') : job'[y].pc = "idle"
  BY <1>1, <1>4 DEF StoreInv, Jobs
<1>6. job' = [y \in Txn |-> job'[y]]
  BY DEF StoreInv, Jobs
<1>7. QED BY <1>1, <1>3, <1>5, <1>6 DEF Jobs

LEMMA StampShardFacts ==
    ASSUME StoreInv, NEW x \in Txn, StampShard(x)
    PROVE  /\ job[x].pc = "stamp" /\ commitChild(job[x].next, x, job[x].seq)
           /\ job' = [job EXCEPT ![x] = NextTurn(x)] /\ UNCHANGED <<next_id, commit_seq>>
           /\ job[x].next \in Shard /\ job[x].seq \in Nat /\ job[x].seq > 0
<1>1. /\ job[x].pc = "stamp" /\ commitChild(job[x].next, x, job[x].seq)
      /\ job' = [job EXCEPT ![x] = NextTurn(x)] /\ UNCHANGED <<next_id, commit_seq>>
  BY DEF StampShard, NextTurn, Go, txnVars
<1>2. QED BY <1>1 DEF StoreInv, Jobs, JobOK

LEMMA StampShardStore ==
    ASSUME StoreInv, NEW x \in Txn, StampShard(x), UNCHANGED program
    PROVE  StoreInv'
<1>0. PICK n, q : n = job[x].next /\ q = job[x].seq
  OBVIOUS
<1>1. /\ job[x].pc = "stamp" /\ commitChild(n, x, q)
      /\ job' = [job EXCEPT ![x] = NextTurn(x)] /\ UNCHANGED <<next_id, commit_seq>>
      /\ n \in Shard /\ q \in Nat /\ q > 0
  BY <1>0, StampShardFacts
<1>2. Jobs' /\ job'[x] = NextTurn(x) /\ \A y \in Txn \ {x} : job'[y] = job[y]
  BY <1>1, NextTurnJobs
<1>3. StoreTypes
  BY DEF StoreInv
<1>4. /\ shards' \in Rows /\ visible_seq' \in [Shard -> Nat]
      /\ visible_seq' = [visible_seq EXCEPT ![n] = IF @ < q THEN q ELSE @]
      /\ \A s \in Shard, tb \in Table, k \in Key :
            shards'[s][tb][k] = IF s = n THEN StampedList(x, q, shards[s][tb][k])
                                         ELSE shards[s][tb][k]
  BY <1>1, <1>3, CommitEffect
<1>5. StoreTypes'
  BY <1>1, <1>3, <1>4 DEF StoreTypes
<1>6. /\ \A s \in Shard : visible_seq[s] \in Nat /\ visible_seq'[s] \in Nat
      /\ \A s \in Shard : visible_seq'[s] >= visible_seq[s]
      /\ \A s \in Shard \ {n} : visible_seq'[s] = visible_seq[s]
      /\ visible_seq'[n] >= q /\ (visible_seq'[n] = visible_seq[n] \/ visible_seq'[n] = q)
  BY <1>1, <1>3, <1>4 DEF StoreTypes
<1>7. \A y \in Txn, s \in Shard : MayStage(job[y], s) /\ ~(y = x /\ s = n) => MayStage(job'[y], s)
  BY <1>0, <1>1, <1>2, NextTurnOK
<1>8. ASSUME NEW s \in Shard, NEW v, VersionOK(s, v), v.seq \in Nat, v.seq # 0 \/ v.txn # x \/ s # n
      PROVE  VersionOK(s, v)'
  <2>1. v.txn \in 1..next_id'
    BY <1>1, <1>8 DEF VersionOK
  <2>2. v.seq <= visible_seq'[s]
    BY <1>6, <1>8 DEF VersionOK
  <2>3. v.seq = 0 => v.txn \in Txn /\ MayStage(job'[v.txn], s)
    BY <1>7, <1>8 DEF VersionOK
  <2>4. QED BY <2>1, <2>2, <2>3 DEF VersionOK, MayStage
<1>9. ASSUME NEW s \in Shard, NEW tb \in Table, NEW k \in Key,
             NEW i \in DOMAIN shards'[s][tb][k]
      PROVE  VersionOK(s, shards[s][tb][k][i])'
  <2>1. PICK vs \in Seq(AnyVersion) : vs = shards[s][tb][k]
    BY <1>3, VersionsTyped
  <2>s. shards'[s][tb][k] = IF s = n THEN StampedList(x, q, vs) ELSE vs
    BY <1>4, <2>1
  <2>l. /\ DOMAIN StampedList(x, q, vs) = DOMAIN vs
        /\ \A l \in DOMAIN vs : StampedList(x, q, vs)[l] =
                 IF Staged(x, vs[l]) THEN [vs[l] EXCEPT !.seq = q] ELSE vs[l]
    BY DEF StampedList
  <2>2. DOMAIN shards'[s][tb][k] = DOMAIN vs
    BY <2>s, <2>l
  <2>3. PICK v \in AnyVersion : v = vs[i]
    BY <1>9, <2>2
  <2>4. VersionOK(s, v) /\ v.seq \in Nat
    BY <1>9, <2>1, <2>2, <2>3 DEF StoreInv, AllVersions, AnyVersion
  <2>5. CASE s = n /\ Staged(x, v)
    <3>1. PICK w : w = [v EXCEPT !.seq = q] /\ w = shards'[s][tb][k][i]
      BY <1>9, <2>s, <2>l, <2>2, <2>3, <2>5
    <3>2. w.txn = v.txn /\ w.seq = q
      BY <3>1 DEF AnyVersion
    <3>3. w.txn \in 1..next_id' /\ w.seq <= visible_seq'[s] /\ w.seq # 0
      BY <1>1, <1>6, <2>4, <2>5, <3>2 DEF VersionOK
    <3>4. QED BY <3>1, <3>3 DEF VersionOK
  <2>6. CASE ~(s = n /\ Staged(x, v))
    <3>1. shards'[s][tb][k][i] = v
      BY <1>9, <2>s, <2>l, <2>2, <2>3, <2>6
    <3>2. v.seq # 0 \/ v.txn # x \/ s # n
      BY <2>6 DEF Staged
    <3>3. VersionOK(s, v)'
      BY <1>8, <2>4, <3>2
    <3>4. QED BY <3>1, <3>3 DEF VersionOK
  <2>7. QED BY <2>5, <2>6
<1>10. AllVersions'
  BY <1>9 DEF AllVersions
<1>11. Stamped'
  <2> SUFFICES ASSUME NEW y \in Txn, job'[y].pc = "stamp",
                      NEW s \in Shard, s < job'[y].next
               PROVE  visible_seq'[s] >= job'[y].seq
    BY DEF Stamped
  <2>1. CASE y # x
    <3>1. visible_seq[s] >= job[y].seq /\ job[y].seq \in Nat /\ job'[y] = job[y]
      BY <1>2, <2>1 DEF StoreInv, Stamped, Jobs, JobOK
    <3>2. QED BY <1>6, <3>1
  <2>2. CASE y = x
    <3>1. job'[x].seq = q /\ job'[x].next = n + 1 /\ n \in Nat
      BY <1>0, <1>1, <1>2, <2>2, NextTurnOK
    <3>2. CASE s = n
      BY <1>6, <2>2, <3>1, <3>2
    <3>3. CASE s # n
      <4>1. s < n
        BY <2>2, <3>1, <3>3, ShardNumbers
      <4>2. visible_seq[s] >= q
        BY <1>0, <1>1, <4>1 DEF StoreInv, Stamped
      <4>3. QED BY <1>6, <2>2, <3>1, <3>3, <4>2
    <3>4. QED BY <3>2, <3>3
  <2>3. QED BY <2>1, <2>2
<1>12. Behind'
  <2> SUFFICES ASSUME NEW s1 \in Shard, NEW s2 \in Shard, visible_seq'[s1] > visible_seq'[s2]
               PROVE  \E y \in Txn : Reaches(job[y], s2, visible_seq[s1])'
    BY DEF Behind
  <2>n. s1 \in Nat /\ s2 \in Nat /\ n \in Nat /\ s1 # s2
    BY <1>1, <1>6, ShardNumbers
  \* x still reaches the shards after n with what it reached them with before.
  <2>x. ASSUME s2 > n, q >= visible_seq'[s1]
        PROVE  Reaches(job[x], s2, visible_seq[s1])'
    <3>1. job'[x].pc = "stamp" /\ job'[x].next <= s2 /\ job'[x].seq = q
      BY <1>0, <1>1, <1>2, <2>x, NextTurnOK
    <3>2. QED BY <2>x, <3>1 DEF Reaches
  <2>1. CASE s1 = n /\ visible_seq'[n] = q
    <3>1. ~(s2 < n)
      <4> SUFFICES ASSUME s2 < n PROVE FALSE
        OBVIOUS
      <4>1. visible_seq[s2] >= q
        BY <1>0, <1>1 DEF StoreInv, Stamped
      <4>2. QED BY <1>1, <1>6, <2>1, <4>1
    <3>2. s2 > n /\ q >= visible_seq'[s1]
      BY <1>1, <2>n, <2>1, <3>1
    <3>3. QED BY <2>x, <3>2
  <2>2. CASE visible_seq'[s1] = visible_seq[s1]
    <3>1. visible_seq[s1] > visible_seq[s2]
      BY <1>6, <2>2
    <3>2. PICK y \in Txn : Reaches(job[y], s2, visible_seq[s1])
      BY <3>1 DEF StoreInv, Behind
    <3>3. CASE y # x
      BY <1>2, <2>2, <3>2, <3>3 DEF Reaches
    <3>4. CASE y = x
      <4>1. n <= s2 /\ q >= visible_seq[s1]
        BY <1>0, <3>2, <3>4 DEF Reaches
      <4>2. s2 # n
        BY <1>1, <1>6, <2>2, <4>1
      <4>3. s2 > n
        BY <2>n, <4>1, <4>2
      <4>4. QED BY <2>x, <2>2, <4>1, <4>3
    <3>5. QED BY <3>3, <3>4
  <2>3. QED BY <1>6, <2>1, <2>2
<1>13. QED BY <1>2, <1>5, <1>10, <1>11, <1>12 DEF StoreInv

LEMMA AbortShardFacts ==
    ASSUME StoreInv, NEW x \in Txn, AbortShard(x), UNCHANGED program
    PROVE  /\ job[x].pc = "abort" /\ job[x].next \in Shard
           /\ abortChild(job[x].next, x) /\ JobMoves(x, NextTurn(x))
<1>1. /\ job[x].pc = "abort" /\ abortChild(job[x].next, x)
      /\ job' = [job EXCEPT ![x] = NextTurn(x)] /\ UNCHANGED <<next_id, commit_seq>>
  BY DEF AbortShard, NextTurn, Go, abortTxn, txnVars
<1>2. x \in 1..next_id /\ JobOK(job[x]) /\ next_id \in Nat /\ commit_seq \in Nat \ {0}
  BY <1>1, JobBegun
<1>3. visible_seq' = visible_seq
  BY <1>1 DEF abortChild
<1>4. JobOK(NextTurn(x)) /\ NextTurn(x).pc # "stamp" /\ job[x].next \in Shard
  BY <1>1, NextTurnOK
<1>5. JobMoves(x, NextTurn(x))
  BY <1>1, <1>2, <1>3, <1>4 DEF JobMoves
<1>6. QED BY <1>1, <1>4, <1>5

LEMMA AbortShardStore ==
    ASSUME StoreInv, NEW x \in Txn, AbortShard(x), UNCHANGED program
    PROVE  StoreInv'
<1>0. PICK n : n = job[x].next
  OBVIOUS
<1>1. /\ job[x].pc = "abort" /\ n \in Shard /\ abortChild(n, x) /\ JobMoves(x, NextTurn(x))
  BY <1>0, AbortShardFacts
<1>2. Jobs' /\ Stamped' /\ Behind'
  BY <1>1, JobMovesKeeps
<1>3. job'[x] = NextTurn(x) /\ \A y \in Txn \ {x} : job'[y] = job[y]
  BY <1>1 DEF JobMoves, StoreInv, Jobs
<1>4. StoreTypes
  BY DEF StoreInv
<1>5. /\ shards' \in Rows /\ visible_seq' = visible_seq
      /\ \A s \in Shard, tb \in Table, k \in Key :
            shards'[s][tb][k] = IF s = n THEN Unstaged(x, shards[s][tb][k])
                                         ELSE shards[s][tb][k]
  BY <1>1, <1>4, AbortEffect
<1>6. StoreTypes'
  BY <1>1, <1>4, <1>5 DEF StoreTypes, JobMoves
<1>7. \A y \in Txn, s \in Shard : MayStage(job[y], s) /\ ~(y = x /\ s = n) => MayStage(job'[y], s)
  BY <1>0, <1>1, <1>3, NextTurnOK
<1>8. ASSUME NEW s \in Shard, NEW v, VersionOK(s, v), ~Staged(x, v) \/ s # n
      PROVE  VersionOK(s, v)'
  <2>1. v.txn \in 1..next_id'
    BY <1>1, <1>4, <1>8 DEF VersionOK, JobMoves, StoreTypes
  <2>2. v.seq <= visible_seq'[s]
    BY <1>5, <1>8 DEF VersionOK
  <2>3. v.seq = 0 => v.txn \in Txn /\ MayStage(job'[v.txn], s)
    BY <1>7, <1>8 DEF VersionOK, Staged
  <2>4. QED BY <2>1, <2>2, <2>3 DEF VersionOK, MayStage
<1>9. ASSUME NEW s \in Shard, NEW tb \in Table, NEW k \in Key,
             NEW i \in DOMAIN shards'[s][tb][k]
      PROVE  VersionOK(s, shards[s][tb][k][i])'
  <2>1. PICK vs \in Seq(AnyVersion) : vs = shards[s][tb][k]
    BY <1>4, VersionsTyped
  <2>2. shards'[s][tb][k] = IF s = n THEN Unstaged(x, vs) ELSE vs
    BY <1>5, <2>1
  <2>3. PICK l \in DOMAIN vs : shards'[s][tb][k][i] = vs[l] /\ (s = n => ~Staged(x, vs[l]))
    BY <1>9, <2>2, UnstagedIsLeft
  <2>4. VersionOK(s, vs[l])
    BY <2>1 DEF StoreInv, AllVersions
  <2>5. VersionOK(s, vs[l])'
    BY <1>8, <2>3, <2>4
  <2>6. QED BY <2>3, <2>5 DEF VersionOK
<1>10. AllVersions'
  BY <1>9 DEF AllVersions
<1>11. QED BY <1>2, <1>6, <1>10 DEF StoreInv

LEMMA StoreUntouched ==
    ASSUME StoreInv, UNCHANGED <<shards, visible_seq, txnVars, job, program>>
    PROVE  StoreInv'
<1>1. UNCHANGED <<next_id, commit_seq>>
  BY DEF txnVars
<1>2. StoreTypes'
  BY <1>1 DEF StoreInv, StoreTypes
<1>3. Jobs'
  BY <1>1 DEF StoreInv, Jobs, JobOK, keyed
<1>4. AllVersions'
  <2>1. \A s, v : VersionOK(s, v) => VersionOK(s, v)'
    BY <1>1 DEF VersionOK, MayStage
  <2>2. AllVersions /\ shards' = shards
    BY DEF StoreInv
  <2>3. ASSUME NEW s \in Shard, NEW tb \in Table, NEW k \in Key, NEW i \in DOMAIN shards[s][tb][k]
        PROVE  VersionOK(s, shards[s][tb][k][i])'
    <3>1. PICK v : v = shards[s][tb][k][i] /\ v = shards'[s][tb][k][i]
      BY <2>2
    <3>2. VersionOK(s, v)'
      BY <2>1, <2>2, <3>1 DEF AllVersions
    <3>3. QED BY <3>1, <3>2 DEF VersionOK
  <2>4. QED BY <2>2, <2>3 DEF AllVersions
<1>5. Stamped' /\ Behind'
  BY <1>1 DEF StoreInv, Stamped, Behind, Reaches
<1>6. QED BY <1>2, <1>3, <1>4, <1>5 DEF StoreInv

LEMMA StoreInit == ASSUME Init PROVE StoreInv
<1>1. /\ next_id = 1 /\ commit_seq = 1 /\ visible_seq = [s \in Shard |-> 1]
      /\ job = [x \in Txn |-> Idle]
  BY DEF Init
<1>2. PICK ks \in SUBSET Key :
        shards = [s \in Shard |-> [tb \in Table |-> [k \in Key |-> Loaded(ks, s, k, policies[tb])]]]
  BY DEF Init
<1> DEFINE v == [txn |-> 1, seq |-> 1, tombstone |-> FALSE, c |-> 1]
<1>3. v \in AnyVersion /\ v.txn = 1 /\ v.seq = 1
  BY DEF AnyVersion
<1>4. \A s, k, p : Loaded(ks, s, k, p) = <<v>> \/ Loaded(ks, s, k, p) = <<>>
  BY DEF Loaded
<1> HIDE DEF v
<1>a. <<v>> \in Seq(AnyVersion) /\ <<>> \in Seq(AnyVersion)
  BY <1>3
<1>5. \A s, k, p : Loaded(ks, s, k, p) \in Seq(AnyVersion)
  BY <1>4, <1>a
<1>6. StoreTypes
  BY <1>1, <1>2, <1>5 DEF StoreTypes, Rows
<1>7. Jobs
  BY <1>1, IdleOK DEF Jobs
<1>8. ASSUME NEW s \in Shard, NEW tb \in Table, NEW k \in Key, NEW i \in DOMAIN shards[s][tb][k]
      PROVE  VersionOK(s, shards[s][tb][k][i])
  <2>1. shards[s][tb][k] = <<v>> \/ shards[s][tb][k] = <<>>
    BY <1>2, <1>4
  <2>2. shards[s][tb][k][i] = v
    BY <1>8, <2>1
  <2>3. QED BY <1>1, <1>3, <2>2 DEF VersionOK
<1>9. AllVersions
  BY <1>8 DEF AllVersions
<1>10. \A x \in Txn : job[x].pc = "idle"
  BY <1>1, IdleOK
<1>11. Stamped
  BY <1>10 DEF Stamped
<1>12. Behind
  BY <1>1 DEF Behind
<1>13. QED BY <1>6, <1>7, <1>9, <1>11, <1>12 DEF StoreInv

\* A step of a statement that touches no row and no cache entry.
LEMMA QuietSteps ==
    ASSUME StoreInv, NEW x \in Txn, OutsideAll,
           \/ LockTable(x) \/ ScanShard(x) \/ CommitTxn(x) \/ ReadSeq(x)
           \/ Rollback(x) \/ Release(x)
    PROVE  QuietStep(x)
BY LockTableQuiet, ScanShardQuiet, CommitTxnQuiet, ReadSeqQuiet, RollbackQuiet, ReleaseQuiet

\* The kinds of step a statement takes.
LEMMA SessionSteps ==
    ASSUME StoreInv, SessionNext, UNCHANGED program
    PROVE  \E x \in Txn :
              \/ QuietStep(x)
              \/ \E k : WriteRow(x, k)
              \/ Invalidate(x) /\ UNCHANGED engineVars
              \/ StampShard(x) /\ OutsideEngine
              \/ AbortShard(x) /\ OutsideEngine
<1>1. ASSUME NEW tb \in Table, NEW st \in Statement, Begin(tb, st),
             UNCHANGED <<engineVars, cacheVars, providerVars>>
      PROVE  \E x \in Txn : QuietStep(x)
  BY <1>1, BeginQuiet
<1>2. ASSUME NEW x \in Txn, OutsideSession,
             \/ LockTable(x) \/ ScanShard(x) \/ CommitTxn(x) \/ ReadSeq(x)
             \/ Rollback(x) \/ Release(x)
      PROVE  QuietStep(x)
  BY <1>2, QuietSteps DEF OutsideAll
<1>3. QED BY <1>1, <1>2 DEF SessionNext

LEMMA DdlLeavesRows ==
    ASSUME DdlNext PROVE UNCHANGED <<shards, visible_seq, txnVars, job>>
<1>1. UNCHANGED <<txnVars, job>>
  BY DEF DdlNext, sessionVars
<1>2. ASSUME NEW d, NEW op, NEW tb, NEW p, BeginDdl(d, op, tb, p)
      PROVE  UNCHANGED <<shards, visible_seq>>
  BY <1>2 DEF BeginDdl, engineVars
<1>3. ASSUME NEW d, NEW tb, NEW new, RenameTable(d, tb, new)
      PROVE  UNCHANGED <<shards, visible_seq>>
  BY <1>3 DEF RenameTable, engineVars
<1>4. ASSUME NEW d, DdlChild(d) \/ DdlPolicy(d) \/ DdlRegistry(d)
      PROVE  UNCHANGED <<shards, visible_seq>>
  BY <1>4 DEF DdlChild, DdlPolicy, DdlRegistry, installPartitionPolicy, clearPartitionPolicy,
              engineVars
<1>5. close \/ open => UNCHANGED <<shards, visible_seq>>
  BY DEF close, open, engineVars
<1>6. QED BY <1>1, <1>2, <1>3, <1>4, <1>5 DEF DdlNext

LEMMA StoreStep ==
    ASSUME StoreInv, [Next]_vars
    PROVE  StoreInv'
<1>1. CASE UNCHANGED vars
  BY <1>1, StoreUntouched DEF vars, engineVars, sessionVars
<1>2. CASE SessionNext /\ UNCHANGED program
  BY <1>2, SessionSteps, QuietStepKeeps, WriteRowStore, InvalidateStore, StampShardStore,
     AbortShardStore
<1>3. CASE ReaderNext /\ UNCHANGED program
  BY <1>3, StoreUntouched DEF ReaderNext, engineVars, sessionVars
<1>4. CASE DdlNext /\ UNCHANGED program
  BY <1>4, DdlLeavesRows, StoreUntouched
<1>5. QED BY <1>1, <1>2, <1>3, <1>4 DEF Next

(* However the commits and aborts of statements interleave, shard by       *)
(* shard, a transaction that has ended has no staged version on any shard, *)
(* and when no commit is under way every shard shows the same commits, for *)
(* any number of shards, tables, keys and transactions                     *)
(* (ShardedStorageEngine::commit and abort).                               *)
THEOREM NoShardLeftOutHolds == Spec => []NoShardLeftOut
<1>1. Init => StoreInv
  BY StoreInit
<1>2. StoreInv /\ [Next]_vars => StoreInv'
  BY StoreStep
<1>3. StoreInv => NoShardLeftOut
  <2> SUFFICES ASSUME StoreInv PROVE NoShardLeftOut
    OBVIOUS
  <2>1. ASSUME NEW x \in Txn, job[x].pc \in {"release", "done"},
               NEW s \in Shard, NEW tb \in Table, NEW k \in Key,
               NEW i \in DOMAIN shards[s][tb][k]
        PROVE  ~Staged(x, shards[s][tb][k][i])
    BY <2>1 DEF StoreInv, AllVersions, VersionOK, MayStage, Staged
  <2>2. ASSUME \A x \in Txn : job[x].pc # "stamp", NEW s1 \in Shard, NEW s2 \in Shard
        PROVE  visible_seq[s1] = visible_seq[s2]
    <3>1. visible_seq[s1] \in Nat /\ visible_seq[s2] \in Nat
      BY DEF StoreInv, StoreTypes
    <3>2. ~(visible_seq[s1] > visible_seq[s2]) /\ ~(visible_seq[s2] > visible_seq[s1])
      BY <2>2 DEF StoreInv, Behind, Reaches
    <3>3. QED BY <3>1, <3>2
  <2>3. QED BY <2>1, <2>2 DEF NoShardLeftOut
<1>4. QED BY <1>1, <1>2, <1>3, PTL DEF Spec

-----------------------------------------------------------------------------
(* The cache.  An entry stored while its row was quiet is what a reader    *)
(* outside transactions would get, and a write of its row that is staged   *)
(* belongs to a statement that has still to erase the entry; a reader      *)
(* about to store a quiet row has what is current, and none is staged.     *)

Erases(j, tb, k) == j.table = tb /\ k \in j.erase

LookupShape(l) ==
    l = [pc |-> l.pc, table |-> l.table, id |-> l.id, row |-> l.row, quiet |-> l.quiet]

CacheTypes ==
    /\ cache = [tb \in Table |-> [k \in Key \cup {NullKey} |-> cache[tb][k]]]
    /\ lookup = [r \in Reader |-> lookup[r]]
    /\ \A r \in Reader : LookupShape(lookup[r])
    /\ \A r \in Reader : lookup[r].pc \in {"read", "fill"} =>
          lookup[r].table \in Table /\ lookup[r].id \in Key

EntryOK(tb, k) ==
    cache[tb][k].set /\ cache[tb][k].quiet =>
        /\ cache[tb][k].row = get(0, tb, k)
        /\ \A s \in Shard : \A i \in DOMAIN shards[s][tb][k] :
              shards[s][tb][k][i].seq = 0 => Erases(job[shards[s][tb][k][i].txn], tb, k)

RowQuiet(tb, k, row) == row = get(0, tb, k) /\ ~StagedWrites(tb, k)

LookupOK(l) == l.pc = "fill" /\ l.quiet => RowQuiet(l.table, l.id, l.row)

CacheOK ==
    /\ CacheTypes
    /\ \A tb \in Table, k \in Key : EntryOK(tb, k)
    /\ \A r \in Reader : LookupOK(lookup[r])

CacheInv == keyed => CacheOK

KeyKept(tb, k) == \A s \in Shard : shards'[s][tb][k] = shards[s][tb][k]

\* Versions show or not whatever the shard's sequence becomes: it is never less
\* than theirs.
LEMMA RowKept ==
    ASSUME StoreInv, StoreInv', NEW tb \in Table, NEW k \in Key, KeyKept(tb, k)
    PROVE  get(0, tb, k)' = get(0, tb, k) /\ StagedWrites(tb, k)' = StagedWrites(tb, k)
<1>1. PICK s \in Shard : s = routeByKey(k)
  BY KeyHashes
<1>2. PICK vs : vs = shards[s][tb][k] /\ vs = shards'[s][tb][k]
  BY DEF KeyKept
<1>3. visible_seq \in [Shard -> Nat] /\ visible_seq' \in [Shard -> Nat]
  BY DEF StoreInv, StoreTypes
<1>4. ASSUME NEW i \in DOMAIN vs
      PROVE  (isVisible(s, 0, vs[i]))' <=> isVisible(s, 0, vs[i])
  <2>1. VersionOK(s, vs[i]) /\ VersionOK(s, shards[s][tb][k][i])'
    BY <1>2, <1>4 DEF StoreInv, AllVersions
  <2>2. vs[i].seq <= visible_seq[s] /\ vs[i].seq <= visible_seq'[s]
    BY <1>2, <2>1 DEF VersionOK
  <2>3. QED BY <2>2 DEF isVisible
<1>5. {i \in DOMAIN vs : isVisible(s, 0, vs[i])} = {i \in DOMAIN vs : (isVisible(s, 0, vs[i]))'}
  BY <1>4
<1>6. get(0, tb, k)' = get(0, tb, k)
  BY <1>1, <1>2, <1>5 DEF get, childGet, routeByKey
<1>7. StagedWrites(tb, k)' = StagedWrites(tb, k)
  BY DEF StagedWrites, KeyKept
<1>8. QED BY <1>6, <1>7

\* A version that x has staged shows to no reader outside its transaction.
LEMMA RowStaged ==
    ASSUME StoreInv, visible_seq' = visible_seq, NEW tb \in Table, NEW k \in Key,
           NEW v \in AnyVersion, v.seq = 0, v.txn # 0, Adds(tb, k, v)
    PROVE  get(0, tb, k)' = get(0, tb, k)
<1>1. PICK s \in Shard : s = routeByKey(k)
  BY KeyHashes
<1>2. PICK vs \in Seq(AnyVersion) : vs = shards[s][tb][k]
  BY VersionsTyped DEF StoreInv
<1>3. PICK ws : ws = shards'[s][tb][k] /\ (ws = vs \/ ws = Append(vs, v))
  BY <1>2 DEF Adds
<1> DEFINE seen == {i \in DOMAIN vs : isVisible(s, 0, vs[i])}
           now == {i \in DOMAIN ws : isVisible(s, 0, ws[i])}
<1>4. now = seen /\ \A i \in seen : ws[i] = vs[i]
  <2>1. CASE ws = vs
    BY <2>1
  <2>2. CASE ws = Append(vs, v)
    <3>1. ~isVisible(s, 0, v)
      BY DEF isVisible
    <3>2. \A i \in DOMAIN vs : i \in DOMAIN ws /\ ws[i] = vs[i]
      BY <2>2, AppendElements
    <3>3. \A i \in DOMAIN ws : (i \in DOMAIN vs /\ ws[i] = vs[i]) \/ ws[i] = v
      BY <2>2, AppendElements
    <3>4. QED BY <3>1, <3>2, <3>3
  <2>3. QED BY <1>3, <2>1, <2>2
<1>5. seen # {} => Max(seen) \in seen
  <2>1. seen \subseteq 0 .. Len(vs) /\ Len(vs) \in Nat
    BY <1>2
  <2> HIDE DEF seen
  <2>2. QED BY <2>1, MaxOfNats
<1>6. get(0, tb, k) = IF seen = {} \/ vs[Max(seen)].tombstone THEN NoRow
                      ELSE [txn |-> vs[Max(seen)].txn, c |-> vs[Max(seen)].c]
  BY <1>1, <1>2 DEF get, childGet
<1>7. get(0, tb, k)' = IF now = {} \/ ws[Max(now)].tombstone THEN NoRow
                       ELSE [txn |-> ws[Max(now)].txn, c |-> ws[Max(now)].c]
  <2>1. now = {i \in DOMAIN ws : isVisible(s, 0, ws[i])'}
    BY DEF isVisible
  <2>2. QED BY <1>1, <1>3, <2>1 DEF get, childGet, routeByKey
<1> HIDE DEF seen, now
<1>8. QED BY <1>4, <1>5, <1>6, <1>7

LEMMA EntryKept ==
    ASSUME StoreInv, StoreInv', NEW tb \in Table, NEW k \in Key, KeyKept(tb, k), EntryOK(tb, k),
           cache'[tb][k] = cache[tb][k],
           \A y \in Txn : Erases(job[y], tb, k) => Erases(job'[y], tb, k)
    PROVE  EntryOK(tb, k)'
<1> SUFFICES ASSUME cache[tb][k].set, cache[tb][k].quiet
             PROVE  /\ cache[tb][k].row = get(0, tb, k)'
                    /\ \A s \in Shard : \A i \in DOMAIN shards'[s][tb][k] :
                          shards'[s][tb][k][i].seq = 0 =>
                              Erases(job'[shards'[s][tb][k][i].txn], tb, k)
  BY DEF EntryOK, Erases
<1>1. cache[tb][k].row = get(0, tb, k)'
  BY RowKept DEF EntryOK
<1>2. ASSUME NEW s \in Shard, NEW i \in DOMAIN shards'[s][tb][k], shards'[s][tb][k][i].seq = 0
      PROVE  Erases(job'[shards'[s][tb][k][i].txn], tb, k)
  <2>1. PICK v : v = shards[s][tb][k][i] /\ v = shards'[s][tb][k][i] /\ i \in DOMAIN shards[s][tb][k]
    BY DEF KeyKept
  <2>2. v.txn \in Txn
    BY <1>2, <2>1 DEF StoreInv, AllVersions, VersionOK
  <2>3. Erases(job[v.txn], tb, k)
    BY <1>2, <2>1 DEF EntryOK
  <2>4. QED BY <2>1, <2>2, <2>3
<1>3. QED BY <1>1, <1>2

LEMMA LookupKept ==
    ASSUME StoreInv, StoreInv', CacheTypes, NEW r \in Reader, LookupOK(lookup[r]),
           lookup'[r] = lookup[r],
           lookup[r].pc = "fill" => KeyKept(lookup[r].table, lookup[r].id)
    PROVE  LookupOK(lookup[r])'
<1> SUFFICES ASSUME lookup[r].pc = "fill", lookup[r].quiet
             PROVE  RowQuiet(lookup[r].table, lookup[r].id, lookup[r].row)'
  BY DEF LookupOK
<1>1. PICK tb, k, row : tb = lookup[r].table /\ k = lookup[r].id /\ row = lookup[r].row
  OBVIOUS
<1>2. tb \in Table /\ k \in Key /\ KeyKept(tb, k) /\ RowQuiet(tb, k, row)
  BY <1>1 DEF CacheTypes, LookupOK
<1>3. RowQuiet(tb, k, row)'
  BY <1>2, RowKept DEF RowQuiet
<1>4. QED BY <1>1, <1>3 DEF RowQuiet, StagedWrites, get

\* Steps that leave the cache alone and no statement's erase undone.
LEMMA CacheAlone ==
    ASSUME StoreInv, StoreInv', CacheOK, UNCHANGED <<cache, lookup>>,
           \A tb \in Table, k \in Key : KeyKept(tb, k),
           \A y \in Txn : \A tb, k : Erases(job[y], tb, k) => Erases(job'[y], tb, k)
    PROVE  CacheOK'
<1>1. CacheTypes'
  BY DEF CacheOK, CacheTypes
<1>2. \A tb \in Table, k \in Key : EntryOK(tb, k)'
  BY EntryKept DEF CacheOK
<1>3. ASSUME NEW r \in Reader PROVE LookupOK(lookup[r])'
  <2>1. lookup[r].pc = "fill" => KeyKept(lookup[r].table, lookup[r].id)
    BY DEF CacheOK, CacheTypes
  <2>2. QED BY <2>1, LookupKept DEF CacheOK
<1>4. QED BY <1>1, <1>2, <1>3 DEF CacheOK

LEMMA QuietCache ==
    ASSUME StoreInv, StoreInv', CacheOK, NEW x \in Txn, QuietStep(x)
    PROVE  CacheOK'
<1>1. PICK j : job' = [job EXCEPT ![x] = j] /\ job[x].erase = {} /\ UNCHANGED <<shards, cache, lookup>>
  BY DEF QuietStep, JobMoves
<1>2. \A y \in Txn \ {x} : job'[y] = job[y]
  BY <1>1 DEF StoreInv, Jobs
<1>3. \A y \in Txn : \A tb, k : Erases(job[y], tb, k) => Erases(job'[y], tb, k)
  BY <1>1, <1>2 DEF Erases
<1>4. \A tb \in Table, k \in Key : KeyKept(tb, k)
  BY <1>1 DEF KeyKept
<1>5. QED BY <1>1, <1>3, <1>4, CacheAlone

\* One entry is replaced.
Stores(c, e, v) == cache' = [cache EXCEPT ![c][e] = v]
StoredOnly(c, e, v) ==
    /\ cache' = [tb \in Table |-> [k \in Key \cup {NullKey} |-> cache'[tb][k]]]
    /\ \A tb \in Table, k \in Key \cup {NullKey} :
          cache'[tb][k] = IF tb = c /\ k = e THEN v ELSE cache[tb][k]

LEMMA EntrySet ==
    ASSUME CacheTypes, NEW c, NEW e, NEW v, Stores(c, e, v)
    PROVE  StoredOnly(c, e, v)
<1> DEFINE Ids == Key \cup {NullKey}
           f == [cache[c] EXCEPT ![e] = v]
<1> HIDE DEF Ids
<1>1. /\ cache = [tb \in Table |-> [k \in Ids |-> cache[tb][k]]]
      /\ cache' = [cache EXCEPT ![c] = f]
  BY DEF CacheTypes, Stores, Ids
<1>2. \A tb \in Table : cache[tb] = [k \in Ids |-> cache[tb][k]]
  BY <1>1
<1>3. c \in Table => f = [k \in Ids |-> IF k = e THEN v ELSE cache[c][k]]
  BY <1>2
<1> HIDE DEF f
<1>4. \A tb \in Table : cache'[tb] = IF tb = c THEN f ELSE cache[tb]
  BY <1>1
<1>5. \A tb \in Table : cache'[tb] = [k \in Ids |-> IF tb = c /\ k = e THEN v ELSE cache[tb][k]]
  <2> TAKE tb \in Table
  <2>1. CASE tb = c
    BY <1>3, <1>4, <2>1
  <2>2. CASE tb # c
    BY <1>2, <1>4, <2>2
  <2>3. QED BY <2>1, <2>2
<1>6. cache' = [tb \in Table |-> cache'[tb]]
  BY <1>1
<1>7. ASSUME NEW tb \in Table
      PROVE  /\ cache'[tb] = [k \in Ids |-> cache'[tb][k]]
             /\ \A k \in Ids : cache'[tb][k] = IF tb = c /\ k = e THEN v ELSE cache[tb][k]
  <2>1. PICK g, h : g = cache'[tb] /\ h = cache[tb]
    OBVIOUS
  <2>2. g = [k \in Ids |-> IF tb = c /\ k = e THEN v ELSE h[k]]
    BY <1>5, <2>1
  <2>3. /\ g = [k \in Ids |-> g[k]]
        /\ \A k \in Ids : g[k] = IF tb = c /\ k = e THEN v ELSE h[k]
    BY <2>2
  <2>4. QED BY <2>1, <2>3
<1>8. \A tb \in Table, k \in Ids : cache'[tb][k] = IF tb = c /\ k = e THEN v ELSE cache[tb][k]
  BY <1>7
<1>9. QED BY <1>6, <1>7, <1>8 DEF StoredOnly, Ids

\* Once the entry is erased the statement owes no other.
LEMMA InvalidateCache ==
    ASSUME StoreInv, StoreInv', CacheOK, NEW x \in Txn, Invalidate(x), UNCHANGED engineVars
    PROVE  CacheOK'
<1>1. PICK e \in job[x].erase :
        /\ cache' = [cache EXCEPT ![job[x].table][e] = Unset] /\ lookup' = lookup
        /\ job' = [job EXCEPT ![x].erase = {}]
  BY DEF Invalidate, invalidate
<1>2. \A d \in job[x].erase : d = e
  BY <1>1 DEF StoreInv, Jobs, JobOK
<1>3. \A y \in Txn \ {x} : job'[y] = job[y]
  BY <1>1 DEF StoreInv, Jobs
<1>4. \A tb \in Table, k \in Key : KeyKept(tb, k)
  BY DEF KeyKept, engineVars
<1>5. PICK c : c = job[x].table
  OBVIOUS
<1>a. Stores(c, e, Unset)
  BY <1>1, <1>5 DEF Stores
<1>6. StoredOnly(c, e, Unset)
  BY <1>a, EntrySet DEF CacheOK
<1>7. CacheTypes'
  BY <1>1, <1>6 DEF CacheOK, CacheTypes, StoredOnly
<1>8. ASSUME NEW tb \in Table, NEW k \in Key PROVE EntryOK(tb, k)'
  <2>1. CASE tb = c /\ k = e
    <3>1. ~cache'[tb][k].set
      BY <1>6, <2>1 DEF Unset, StoredOnly
    <3>2. QED BY <3>1 DEF EntryOK
  <2>2. CASE ~(tb = c /\ k = e)
    <3>1. cache'[tb][k] = cache[tb][k]
      BY <1>6, <2>2 DEF StoredOnly
    <3>2. ~Erases(job[x], tb, k)
      BY <1>2, <1>5, <2>2 DEF Erases
    <3>3. \A y \in Txn : Erases(job[y], tb, k) => Erases(job'[y], tb, k)
      BY <1>3, <3>2
    <3>4. QED BY <1>4, <3>1, <3>3, EntryKept DEF CacheOK
  <2>3. QED BY <2>1, <2>2
<1>9. ASSUME NEW r \in Reader PROVE LookupOK(lookup[r])'
  <2>1. lookup[r].pc = "fill" => KeyKept(lookup[r].table, lookup[r].id)
    BY <1>4 DEF CacheOK, CacheTypes
  <2>2. QED BY <1>1, <2>1, LookupKept DEF CacheOK
<1>10. QED BY <1>7, <1>8, <1>9 DEF CacheOK

\* The versions of the key a statement writes: those there were, and its own.
LEMMA WrittenEntry ==
    ASSUME StoreInv, StoreInv', NEW x \in Txn, NEW tb \in Table, NEW k \in Key,
           EntryOK(tb, k), cache' = cache, visible_seq' = visible_seq, x # 0,
           NEW dead \in BOOLEAN, NEW c \in {0, 1, MaxCol}, Adds(tb, k, NewVersion(x, dead, c)),
           job[x].erase = {}, Erases(job'[x], tb, k), \A y \in Txn \ {x} : job'[y] = job[y]
    PROVE  EntryOK(tb, k)'
<1>1. PICK v \in AnyVersion : v = NewVersion(x, dead, c) /\ v.seq = 0 /\ v.txn = x
  BY DEF NewVersion, AnyVersion
<1>2. get(0, tb, k)' = get(0, tb, k)
  BY <1>1, RowStaged
<1> SUFFICES ASSUME cache[tb][k].set, cache[tb][k].quiet
             PROVE  \A s \in Shard : \A i \in DOMAIN shards'[s][tb][k] :
                       shards'[s][tb][k][i].seq = 0 =>
                           Erases(job'[shards'[s][tb][k][i].txn], tb, k)
  BY <1>2 DEF EntryOK, Erases
<1>3. ASSUME NEW s \in Shard, NEW i \in DOMAIN shards'[s][tb][k], shards'[s][tb][k][i].seq = 0
      PROVE  Erases(job'[shards'[s][tb][k][i].txn], tb, k)
  <2>1. PICK vs \in Seq(AnyVersion) : vs = shards[s][tb][k]
    BY VersionsTyped DEF StoreInv
  <2>2. PICK ws : ws = shards'[s][tb][k] /\ (ws = vs \/ ws = Append(vs, v))
    BY <1>1, <2>1 DEF Adds
  <2>3. (i \in DOMAIN vs /\ ws[i] = vs[i]) \/ ws[i] = v
    BY <1>3, <2>2, AppendElements
  <2>4. CASE ws[i] = v
    BY <1>1, <2>2, <2>4
  <2>5. CASE i \in DOMAIN vs /\ ws[i] = vs[i]
    <3>1. vs[i].txn \in Txn
      BY <1>3, <2>1, <2>2, <2>5 DEF StoreInv, AllVersions, VersionOK
    <3>2. Erases(job[vs[i].txn], tb, k)
      BY <1>3, <2>1, <2>2, <2>5 DEF EntryOK
    <3>3. vs[i].txn # x
      BY <3>2 DEF Erases
    <3>4. QED BY <2>2, <2>5, <3>1, <3>2, <3>3
  <2>6. QED BY <2>3, <2>4, <2>5
<1>4. QED BY <1>3

LEMMA WriteRowCache ==
    ASSUME StoreInv, StoreInv', CacheOK, keyed, NEW x \in Txn, NEW k, WriteRow(x, k), UNCHANGED program
    PROVE  CacheOK'
<1>1. /\ Appends(x, job[x].table, WrittenKey(x, k))
      /\ JobMoves(x, [job[x] EXCEPT !.keys = @ \ {k}, !.erase = {k}])
      /\ job[x].pc = "write" /\ job[x].erase = {} /\ k \in job[x].keys
      /\ Overtaken(job[x].table, WrittenKey(x, k))
  BY WriteRowEffect
<1>2. k \in Key /\ WrittenKey(x, k) = k
  <2>1. k \in Key
    BY <1>1 DEF StoreInv, Jobs, JobOK
  <2>2. QED BY <2>1, KeyHashes DEF WrittenKey, PutKey
<1>3. PICK t : t = job[x].table
  OBVIOUS
<1>4. PICK dead \in BOOLEAN, c \in {0, 1, MaxCol} : Adds(t, k, NewVersion(x, dead, c))
  BY <1>1, <1>2, <1>3 DEF Appends
<1>5. /\ job'[x].table = t /\ job'[x].erase = {k} /\ \A y \in Txn \ {x} : job'[y] = job[y]
  <2>1. JobShape(job[x])
    BY DEF StoreInv, Jobs, JobOK
  <2>2. PICK j : j = [job[x] EXCEPT !.keys = @ \ {k}, !.erase = {k}]
    OBVIOUS
  <2>3. j.table = t /\ j.erase = {k}
    BY <1>3, <2>1, <2>2 DEF JobShape
  <2>4. job' = [job EXCEPT ![x] = j]
    BY <1>1, <2>2 DEF JobMoves
  <2>5. QED BY <2>3, <2>4 DEF StoreInv, Jobs
<1>6. x # 0 /\ visible_seq' = visible_seq
  <2>1. x \in 1..next_id /\ next_id \in Nat
    BY <1>1, JobBegun
  <2>2. QED BY <1>1, <2>1 DEF JobMoves
<1>7. /\ cache' = cache
      /\ lookup' = [r \in Reader |-> IF lookup[r].table = t /\ lookup[r].id = k
                                     THEN [lookup[r] EXCEPT !.quiet = FALSE] ELSE lookup[r]]
  BY <1>1, <1>2, <1>3 DEF Overtaken
<1>8. ASSUME NEW tb \in Table, NEW i \in Key, ~(tb = t /\ i = k)
      PROVE  KeyKept(tb, i)
  BY <1>4, <1>8 DEF Adds, KeyKept
<1>9. ASSUME NEW tb \in Table, NEW i \in Key PROVE EntryOK(tb, i)'
  <2>1. CASE tb = t /\ i = k
    <3>1. Erases(job'[x], tb, i)
      BY <1>5, <2>1 DEF Erases
    <3>2. EntryOK(tb, i) /\ Adds(tb, i, NewVersion(x, dead, c))
      BY <1>4, <2>1 DEF CacheOK
    <3>3. QED BY <1>1, <1>5, <1>6, <1>7, <3>1, <3>2, WrittenEntry
  <2>2. CASE ~(tb = t /\ i = k)
    <3>1. \A y \in Txn : Erases(job[y], tb, i) => Erases(job'[y], tb, i)
      BY <1>1, <1>5 DEF Erases
    <3>2. QED BY <1>7, <1>8, <2>2, <3>1, EntryKept DEF CacheOK
  <2>3. QED BY <2>1, <2>2
<1>10. ASSUME NEW r \in Reader
       PROVE  /\ LookupShape(lookup'[r]) /\ LookupOK(lookup[r])'
              /\ lookup'[r].pc = lookup[r].pc /\ lookup'[r].table = lookup[r].table
              /\ lookup'[r].id = lookup[r].id
  <2>1. LookupShape(lookup[r])
    BY DEF CacheOK, CacheTypes
  <2>2. CASE lookup[r].table = t /\ lookup[r].id = k
    <3>1. PICK l, m : l = lookup[r] /\ m = lookup'[r] /\ m = [l EXCEPT !.quiet = FALSE]
      BY <1>7, <2>2
    <3>2. /\ LookupShape(m) /\ m.quiet = FALSE /\ m.pc = l.pc /\ m.table = l.table /\ m.id = l.id
      BY <2>1, <3>1 DEF LookupShape
    <3>3. LookupOK(lookup[r])'
      BY <3>1, <3>2 DEF LookupOK
    <3>4. QED BY <3>1, <3>2, <3>3
  <2>3. CASE ~(lookup[r].table = t /\ lookup[r].id = k)
    <3>1. lookup'[r] = lookup[r]
      BY <1>7, <2>3
    <3>2. lookup[r].pc = "fill" => KeyKept(lookup[r].table, lookup[r].id)
      BY <1>8, <2>3 DEF CacheOK, CacheTypes
    <3>3. QED BY <2>1, <3>1, <3>2, LookupKept DEF CacheOK
  <2>4. QED BY <2>2, <2>3
<1>11. CacheTypes'
  <2>1. lookup' = [r \in Reader |-> lookup'[r]]
    BY <1>7
  <2>2. QED BY <1>7, <1>10, <2>1 DEF CacheOK, CacheTypes
<1>12. QED BY <1>9, <1>10, <1>11 DEF CacheOK

\* A turn of the loop of commit or abort changes no key x has no staged version
\* of, and every key it has one of has lost its quiet entry.
LEMMA TurnCache ==
    ASSUME StoreInv, StoreInv', CacheOK, NEW x \in Txn, job[x].erase = {},
           \A y \in Txn \ {x} : job'[y] = job[y], UNCHANGED <<cache, lookup>>,
           \A s \in Shard, tb \in Table, k \in Key :
              (\A i \in DOMAIN shards[s][tb][k] : ~Staged(x, shards[s][tb][k][i])) =>
                  shards'[s][tb][k] = shards[s][tb][k]
    PROVE  CacheOK'
<1>1. CacheTypes'
  BY DEF CacheOK, CacheTypes
<1>2. ASSUME NEW tb, NEW k, NEW y \in Txn, Erases(job[y], tb, k)
      PROVE  Erases(job'[y], tb, k)
  BY <1>2 DEF Erases
<1>3. ASSUME NEW tb \in Table, NEW k \in Key PROVE EntryOK(tb, k)'
  <2>1. CASE cache[tb][k].set /\ cache[tb][k].quiet
    <3>1. ASSUME NEW s \in Shard, NEW i \in DOMAIN shards[s][tb][k]
          PROVE  ~Staged(x, shards[s][tb][k][i])
      BY <2>1, <3>1 DEF CacheOK, EntryOK, Erases, Staged
    <3>2. KeyKept(tb, k)
      BY <3>1 DEF KeyKept
    <3>3. QED BY <1>2, <3>2, EntryKept DEF CacheOK
  <2>2. CASE ~(cache[tb][k].set /\ cache[tb][k].quiet)
    BY <2>2 DEF EntryOK
  <2>3. QED BY <2>1, <2>2
<1>4. ASSUME NEW r \in Reader PROVE LookupOK(lookup[r])'
  <2>1. CASE lookup[r].pc = "fill" /\ lookup[r].quiet
    <3>1. PICK tb \in Table, k \in Key : tb = lookup[r].table /\ k = lookup[r].id
      BY <2>1 DEF CacheOK, CacheTypes
    <3>2. ~StagedWrites(tb, k)
      BY <2>1, <3>1 DEF CacheOK, LookupOK, RowQuiet
    <3>3. KeyKept(tb, k)
      BY <3>2 DEF KeyKept, StagedWrites, Staged
    <3>4. QED BY <3>1, <3>3, LookupKept DEF CacheOK
  <2>2. CASE ~(lookup[r].pc = "fill" /\ lookup[r].quiet)
    BY <2>2 DEF LookupOK
  <2>3. QED BY <2>1, <2>2
<1>5. QED BY <1>1, <1>3, <1>4 DEF CacheOK

LEMMA StampShardCache ==
    ASSUME StoreInv, StoreInv', CacheOK, NEW x \in Txn, StampShard(x), OutsideEngine
    PROVE  CacheOK'
<1>1. PICK n, q : n = job[x].next /\ q = job[x].seq
  OBVIOUS
<1>2. /\ job[x].pc = "stamp" /\ commitChild(n, x, q) /\ n \in Shard /\ q \in Nat
      /\ job' = [job EXCEPT ![x] = NextTurn(x)]
  BY <1>1, StampShardFacts
<1>3. job[x].erase = {} /\ \A y \in Txn \ {x} : job'[y] = job[y]
  BY <1>2 DEF StoreInv, Jobs, JobOK
<1>4. ASSUME NEW s \in Shard, NEW tb \in Table, NEW k \in Key,
             \A i \in DOMAIN shards[s][tb][k] : ~Staged(x, shards[s][tb][k][i])
      PROVE  shards'[s][tb][k] = shards[s][tb][k]
  <2>1. PICK vs \in Seq(AnyVersion) : vs = shards[s][tb][k]
    BY VersionsTyped DEF StoreInv
  <2>2. StampedList(x, q, vs) = [i \in DOMAIN vs |-> vs[i]]
    BY <1>4, <2>1 DEF StampedList
  <2>3. [i \in DOMAIN vs |-> vs[i]] = vs
    OBVIOUS
  <2>4. shards'[s][tb][k] = IF s = n THEN StampedList(x, q, vs) ELSE vs
    BY <1>2, <2>1, CommitEffect DEF StoreInv
  <2>5. QED BY <2>1, <2>2, <2>3, <2>4
<1>5. UNCHANGED <<cache, lookup>>
  BY DEF OutsideEngine, cacheVars
<1>6. QED BY <1>3, <1>4, <1>5, TurnCache

LEMMA AbortShardCache ==
    ASSUME StoreInv, StoreInv', CacheOK, NEW x \in Txn, AbortShard(x), OutsideEngine, UNCHANGED program
    PROVE  CacheOK'
<1>1. PICK n : n = job[x].next
  OBVIOUS
<1>2. /\ job[x].pc = "abort" /\ abortChild(n, x) /\ n \in Shard
      /\ job' = [job EXCEPT ![x] = NextTurn(x)]
  BY <1>1, AbortShardFacts DEF JobMoves
<1>3. job[x].erase = {} /\ \A y \in Txn \ {x} : job'[y] = job[y]
  BY <1>2 DEF StoreInv, Jobs, JobOK
<1>4. ASSUME NEW s \in Shard, NEW tb \in Table, NEW k \in Key,
             \A i \in DOMAIN shards[s][tb][k] : ~Staged(x, shards[s][tb][k][i])
      PROVE  shards'[s][tb][k] = shards[s][tb][k]
  <2>1. PICK vs \in Seq(AnyVersion) : vs = shards[s][tb][k]
    BY VersionsTyped DEF StoreInv
  <2>2. Unstaged(x, vs) = vs
    BY <1>4, <2>1, UnstagedIsLeft
  <2>3. shards'[s][tb][k] = IF s = n THEN Unstaged(x, vs) ELSE vs
    BY <1>2, <2>1, AbortEffect DEF StoreInv
  <2>4. QED BY <2>1, <2>2, <2>3
<1>5. UNCHANGED <<cache, lookup>>
  BY DEF OutsideEngine, cacheVars
<1>6. QED BY <1>3, <1>4, <1>5, TurnCache

-----------------------------------------------------------------------------
(* The readers.                                                            *)

LookupTypes ==
    /\ lookup = [r \in Reader |-> lookup[r]]
    /\ \A r \in Reader : LookupShape(lookup[r])
    /\ \A r \in Reader : lookup[r].pc \in {"read", "fill"} =>
          lookup[r].table \in Table /\ lookup[r].id \in Key

\* Reader r moves on.
LEMMA ReaderMoves ==
    ASSUME StoreInv, StoreInv', CacheOK, shards' = shards, NEW r \in Reader, NEW m,
           lookup' = [lookup EXCEPT ![r] = m], LookupShape(m), LookupOK(m),
           m.pc \in {"read", "fill"} => m.table \in Table /\ m.id \in Key
    PROVE  LookupTypes' /\ \A q \in Reader : LookupOK(lookup[q])'
<1>1. lookup' = [q \in Reader |-> lookup'[q]]
  BY DEF CacheOK, CacheTypes
<1>2. lookup'[r] = m /\ \A q \in Reader \ {r} : lookup'[q] = lookup[q]
  BY DEF CacheOK, CacheTypes
<1>3. LookupTypes'
  BY <1>1, <1>2 DEF CacheOK, CacheTypes, LookupTypes
<1>4. \A tb \in Table, k \in Key : KeyKept(tb, k)
  BY DEF KeyKept
<1>5. ASSUME NEW q \in Reader \ {r} PROVE LookupOK(lookup[q])'
  <2>1. lookup[q].pc = "fill" => KeyKept(lookup[q].table, lookup[q].id)
    BY <1>4 DEF CacheOK, CacheTypes
  <2>2. QED BY <1>2, <2>1, LookupKept DEF CacheOK
<1>6. ASSUME m.pc = "fill", m.quiet PROVE RowQuiet(m.table, m.id, m.row)'
  <2>1. PICK tb \in Table, k \in Key : tb = m.table /\ k = m.id
    BY <1>6
  <2>2. RowQuiet(tb, k, m.row)
    BY <1>6, <2>1 DEF LookupOK
  <2>3. RowQuiet(tb, k, m.row)'
    BY <1>4, <2>2, RowKept DEF RowQuiet
  <2>4. QED BY <2>1, <2>3
<1>7. LookupOK(lookup[r])'
  BY <1>2, <1>6 DEF LookupOK
<1>8. QED BY <1>3, <1>5, <1>7

LEMMA GetMissCache ==
    ASSUME StoreInv, StoreInv', CacheOK, UNCHANGED <<engineVars, job>>,
           NEW r \in Reader, NEW tb \in Table, NEW k \in Key, GetMiss(r, tb, k)
    PROVE  CacheOK'
<1>1. PICK m : m = [NoLookup EXCEPT !.pc = "read", !.table = tb, !.id = k]
  OBVIOUS
<1>2. LookupShape(m) /\ m.pc = "read" /\ m.table = tb /\ m.id = k
  BY <1>1 DEF LookupShape, NoLookup
<1>3. lookup' = [lookup EXCEPT ![r] = m] /\ cache' = cache /\ shards' = shards
  BY <1>1 DEF GetMiss, engineVars
<1>4. LookupOK(m)
  BY <1>2 DEF LookupOK
<1>5. LookupTypes' /\ \A q \in Reader : LookupOK(lookup[q])'
  BY <1>2, <1>3, <1>4, ReaderMoves
<1>6. \A t \in Table, i \in Key : EntryOK(t, i)'
  BY <1>3, EntryKept DEF CacheOK, KeyKept
<1>7. QED BY <1>3, <1>5, <1>6 DEF CacheOK, CacheTypes, LookupTypes

LEMMA GetInnerCache ==
    ASSUME StoreInv, StoreInv', CacheOK, UNCHANGED <<engineVars, job>>,
           NEW r \in Reader, GetInner(r)
    PROVE  CacheOK'
<1>1. PICK l : l = lookup[r]
  OBVIOUS
<1>2. l.pc = "read" /\ LookupShape(l) /\ l.table \in Table /\ l.id \in Key
  BY <1>1 DEF GetInner, CacheOK, CacheTypes
<1>3. PICK row, quiet : row = get(0, l.table, l.id) /\ quiet = ~StagedWrites(l.table, l.id)
  OBVIOUS
<1>4. PICK m : m = [l EXCEPT !.pc = "fill", !.row = row, !.quiet = quiet]
  OBVIOUS
<1>5. /\ LookupShape(m) /\ m.pc = "fill" /\ m.table = l.table /\ m.id = l.id
      /\ m.row = row /\ m.quiet = quiet
  BY <1>2, <1>4 DEF LookupShape
<1>6. lookup' = [lookup EXCEPT ![r] = m] /\ cache' = cache /\ shards' = shards
  BY <1>1, <1>3, <1>4 DEF GetInner, engineVars
<1>7. LookupOK(m)
  BY <1>3, <1>5 DEF LookupOK, RowQuiet
<1>8. LookupTypes' /\ \A q \in Reader : LookupOK(lookup[q])'
  BY <1>2, <1>5, <1>6, <1>7, ReaderMoves
<1>9. \A t \in Table, i \in Key : EntryOK(t, i)'
  BY <1>6, EntryKept DEF CacheOK, KeyKept
<1>10. QED BY <1>6, <1>8, <1>9 DEF CacheOK, CacheTypes, LookupTypes

LEMMA FillCache ==
    ASSUME StoreInv, StoreInv', CacheOK, UNCHANGED <<engineVars, job>>,
           NEW r \in Reader, Fill(r)
    PROVE  CacheOK'
<1>1. PICK l, v : l = lookup[r] /\ v = [set |-> TRUE, row |-> l.row, quiet |-> l.quiet]
  OBVIOUS
<1>2. l.pc = "fill" /\ l.table \in Table /\ l.id \in Key /\ LookupOK(l)
  BY <1>1 DEF Fill, CacheOK, CacheTypes
<1>3. PICK t \in Table, e \in Key : t = l.table /\ e = l.id
  BY <1>2
<1>4. Stores(t, e, v) /\ lookup' = [lookup EXCEPT ![r] = NoLookup] /\ shards' = shards
  BY <1>1, <1>3 DEF Fill, Stores, engineVars
<1>5. StoredOnly(t, e, v)
  BY <1>4, EntrySet DEF CacheOK
<1>6. LookupShape(NoLookup) /\ NoLookup.pc = "idle"
  BY DEF LookupShape, NoLookup
<1>7. LookupTypes' /\ \A q \in Reader : LookupOK(lookup[q])'
  <2>1. LookupOK(NoLookup)
    BY <1>6 DEF LookupOK
  <2>2. QED BY <1>4, <1>6, <2>1, ReaderMoves
<1>8. ASSUME NEW tb \in Table, NEW k \in Key PROVE EntryOK(tb, k)'
  <2>1. KeyKept(tb, k)
    BY <1>4 DEF KeyKept
  <2>2. CASE tb = t /\ k = e
    <3>1. cache'[tb][k] = v
      BY <1>5, <2>2 DEF StoredOnly
    <3>2. v.row = l.row /\ v.quiet = l.quiet
      BY <1>1
    <3>3. v.quiet => v.row = get(0, tb, k) /\ ~StagedWrites(tb, k)
      BY <1>2, <1>3, <2>2, <3>2 DEF LookupOK, RowQuiet
    <3>4. v.quiet => v.row = get(0, tb, k)' /\ ~StagedWrites(tb, k)'
      BY <2>1, <3>3, RowKept
    <3>5. QED BY <3>1, <3>4 DEF EntryOK, StagedWrites
  <2>3. CASE ~(tb = t /\ k = e)
    <3>1. cache'[tb][k] = cache[tb][k]
      BY <1>5, <2>3 DEF StoredOnly
    <3>2. QED BY <2>1, <3>1, EntryKept DEF CacheOK
  <2>4. QED BY <2>2, <2>3
<1>9. QED BY <1>5, <1>7, <1>8 DEF CacheOK, CacheTypes, LookupTypes, StoredOnly

LEMMA CacheStart == ASSUME Init PROVE CacheOK
<1>1. /\ cache = [tb \in Table |-> [k \in Key \cup {NullKey} |-> Unset]]
      /\ lookup = [r \in Reader |-> NoLookup]
  BY DEF Init, CacheInit
<1>2. ~Unset.set /\ LookupShape(NoLookup) /\ NoLookup.pc = "idle"
  BY DEF Unset, LookupShape, NoLookup
<1>3. \A tb \in Table, k \in Key \cup {NullKey} : cache[tb][k] = Unset
  BY <1>1
<1>4. CacheTypes
  BY <1>1, <1>2 DEF CacheTypes
<1>5. \A tb \in Table, k \in Key : EntryOK(tb, k)
  BY <1>2, <1>3 DEF EntryOK
<1>6. \A r \in Reader : LookupOK(lookup[r])
  BY <1>1, <1>2 DEF LookupOK
<1>7. QED BY <1>4, <1>5, <1>6 DEF CacheOK

LEMMA CacheStep ==
    ASSUME StoreInv, StoreInv', CacheInv, [Next]_vars
    PROVE  CacheInv'
<1>1. program' = program /\ (keyed' <=> keyed)
  BY DEF Next, vars, keyed
<1> SUFFICES ASSUME keyed, CacheOK PROVE CacheOK'
  BY <1>1 DEF CacheInv
<1>2. CASE UNCHANGED vars
  <2>1. UNCHANGED <<cache, lookup, job, shards>>
    BY <1>2 DEF vars, engineVars, cacheVars, sessionVars
  <2>2. QED BY <2>1, CacheAlone DEF KeyKept
<1>3. CASE SessionNext
  BY <1>1, <1>3, SessionSteps, QuietCache, WriteRowCache, InvalidateCache, StampShardCache,
     AbortShardCache
<1>4. CASE ReaderNext
  BY <1>4, GetMissCache, GetInnerCache, FillCache DEF ReaderNext, sessionVars
<1>5. CASE DdlNext
  BY <1>5 DEF DdlNext, keyed
<1>6. QED BY <1>2, <1>3, <1>4, <1>5 DEF Next

(* For a keyed program an entry that was read and stored while nobody had  *)
(* written its row is what a reader of the engine would get for as long as *)
(* it is there, whatever statements commit or abort beside it, for any     *)
(* number of shards, readers, tables and transactions                      *)
(* (CachingStorageEngine::get, put, remove).                               *)
THEOREM QuietFillsStayCurrentHolds == Spec => []QuietFillsStayCurrent
<1>1. Init => StoreInv /\ CacheInv
  BY StoreInit, CacheStart DEF CacheInv
<1>2. StoreInv /\ CacheInv /\ [Next]_vars => (StoreInv /\ CacheInv)'
  BY StoreStep, CacheStep
<1>3. StoreInv /\ CacheInv => QuietFillsStayCurrent
  BY DEF CacheInv, CacheOK, EntryOK, QuietFillsStayCurrent
<1>4. QED BY <1>1, <1>2, <1>3, PTL DEF Spec

-----------------------------------------------------------------------------
(* Statements are atomic, for a keyed program.  Locks: the transactions at *)
(* work on a table are the holders of its lock, one alone when it writes.  *)
(* Placed: the versions of a key are on the shard it hashes to, and only   *)
(* the last may be staged, by a statement that writes this table.  Until   *)
(* its commit reaches the first shard a writer has staged the rows it      *)
(* wants but for those it has still to write (WriterOK), and what a scan   *)
(* has read is what its shards still show (ScanOK).                        *)

Locked(j) == j.pc \in {"scan", "write", "commitTxn", "seq", "stamp", "abort", "release"}
Writes(j) == j.stmt.op # "select"

StmtOK(j) ==
    /\ j.pc = "lock" \/ Locked(j) =>
          j.stmt \in Statement /\ j.stmt.ids # {NullKey} /\ j.table \in Table
    /\ j.pc = "lock" => j.rows = {} /\ j.next = 0 /\ j.keys = {}
    /\ j.pc \in {"seq", "stamp"} /\ Writes(j) => j.keys = {}
    /\ j.pc = "commitTxn" => ~Writes(j)
    /\ j.pc \in {"write", "abort"} => Writes(j)
    /\ j.pc = "scan" => j.stmt.op # "insert"

HolderOK(tb, x) ==
    /\ Locked(job[x]) /\ job[x].table = tb
    /\ held[tb].mode = "Exclusive" => held[tb].holders = {x}
LockedOK(x) == Locked(job[x]) =>
    /\ x \in held[job[x].table].holders
    /\ Writes(job[x]) => held[job[x].table].mode = "Exclusive"
Locks ==
    /\ held \in [Table -> [mode : {"Shared", "Exclusive"}, holders : SUBSET Txn]]
    /\ \A tb \in Table : \A x \in held[tb].holders : HolderOK(tb, x)
    /\ \A x \in Txn : LockedOK(x) /\ StmtOK(job[x])

Home(tb, k) == shards[routeByKey(k)][tb][k]
Routed == \A tb \in Table : KeyRouted(policies[tb])

StagedOK(tb, v) ==
    /\ job[v.txn].table = tb /\ Writes(job[v.txn])
    /\ v.tombstone = (job[v.txn].stmt.op = "delete")
    /\ ~v.tombstone => v.c = job[v.txn].stmt.c
Placed(tb, k) ==
    /\ \A s \in Shard : s # routeByKey(k) => shards[s][tb][k] = <<>>
    /\ \A i \in DOMAIN Home(tb, k) : Home(tb, k)[i].seq = 0 =>
          i = Len(Home(tb, k)) /\ StagedOK(tb, Home(tb, k)[i])

Ends(x, vs) == vs # <<>> /\ Staged(x, vs[Len(vs)])
Wants(j, k) == k \in j.stmt.ids /\ (j.stmt.op = "insert" \/ get(0, j.table, k) # NoRow)
Pending(j) == Writes(j) /\ (j.pc \in {"write", "seq"} \/ (j.pc = "stamp" /\ j.next = 0))
WriterOK(x) == Pending(job[x]) => \A k \in Key :
    /\ k \in job[x].keys => Wants(job[x], k)
    /\ Ends(x, Home(job[x].table, k)) <=> Wants(job[x], k) /\ k \notin job[x].keys

RowsOf(f) == {[id |-> k, c |-> f[k].c] : k \in {l \in Key : f[l] # NoRow}}
ShownBelow(tb, n) ==
    RowsOf([k \in Key |-> IF routeByKey(k) < n THEN get(0, tb, k) ELSE NoRow])
ScanOK(x) == job[x].pc = "scan" => job[x].rows = ShownBelow(job[x].table, job[x].next)

TableOK ==
    /\ Routed /\ Locks
    /\ reply = [x \in Txn |-> reply[x]]
    /\ \A tb \in Table, k \in Key : Placed(tb, k)
    /\ \A x \in Txn : WriterOK(x) /\ ScanOK(x)
TableInv == keyed => TableOK

-----------------------------------------------------------------------------
(* What a reader gets from a list of versions.                             *)

TopRow(vs) ==
    IF vs = <<>> \/ vs[Len(vs)].tombstone THEN NoRow
    ELSE [txn |-> vs[Len(vs)].txn, c |-> vs[Len(vs)].c]

\* The versions a reader sees are the first n of the key.
LEMMA SeesFirst ==
    ASSUME StoreInv, NEW s \in Shard, NEW tb \in Table, NEW k \in Key, NEW x,
           NEW ws \in Seq(AnyVersion), NEW vs \in Seq(AnyVersion), vs = shards[s][tb][k],
           DOMAIN ws \subseteq DOMAIN vs, \A i \in DOMAIN ws : ws[i] = vs[i],
           \A i \in DOMAIN vs : isVisible(s, x, vs[i]) <=> i \in DOMAIN ws
    PROVE  childGet(s, x, tb, k) = TopRow(ws)
<1> DEFINE seen == {i \in DOMAIN vs : isVisible(s, x, vs[i])}
<1>1. seen = 1..Len(ws) /\ Len(ws) \in Nat
  OBVIOUS
<1>2. childGet(s, x, tb, k) = IF seen = {} \/ vs[Max(seen)].tombstone THEN NoRow
                              ELSE [txn |-> vs[Max(seen)].txn, c |-> vs[Max(seen)].c]
  BY DEF childGet
<1> HIDE DEF seen
<1>3. CASE Len(ws) = 0
  <2>1. ws = <<>> /\ seen = {}
    BY <1>1, <1>3
  <2>2. QED BY <1>2, <2>1 DEF TopRow
<1>4. CASE Len(ws) # 0
  <2>1. Len(ws) \in seen /\ seen \subseteq 0 .. Len(ws)
    BY <1>1, <1>4
  <2>2. Max(seen) \in seen /\ Max(seen) >= Len(ws)
    BY <1>1, <2>1, MaxOfNats
  <2>3. Max(seen) = Len(ws)
    BY <1>1, <2>2
  <2>4. ws # <<>> /\ vs[Len(ws)] = ws[Len(ws)] /\ seen # {}
    BY <1>1, <1>4, <2>1
  <2>5. QED BY <1>2, <2>3, <2>4 DEF TopRow
<1>5. QED BY <1>3, <1>4

\* Whoever sees the staged versions sees the last one.
LEMMA SeesTop ==
    ASSUME StoreInv, NEW s \in Shard, NEW tb \in Table, NEW k \in Key, NEW x,
           \A i \in DOMAIN shards[s][tb][k] :
              shards[s][tb][k][i].seq = 0 => shards[s][tb][k][i].txn = x
    PROVE  childGet(s, x, tb, k) = TopRow(shards[s][tb][k])
<1>1. PICK vs \in Seq(AnyVersion) : vs = shards[s][tb][k]
  BY VersionsTyped DEF StoreInv
<1>2. ASSUME NEW i \in DOMAIN vs PROVE isVisible(s, x, vs[i])
  <2>1. vs[i].seq <= visible_seq[s]
    BY <1>1, <1>2 DEF StoreInv, AllVersions, VersionOK
  <2>2. QED BY <1>1, <1>2, <2>1 DEF isVisible
<1>3. QED BY <1>1, <1>2, SeesFirst

LEMMA SeesNothing ==
    ASSUME NEW s, NEW x, NEW tb, NEW k, shards[s][tb][k] = <<>>
    PROVE  childGet(s, x, tb, k) = NoRow
BY DEF childGet

\* A reader outside transactions does not see a staged version at the end.
LEMMA SeesFront ==
    ASSUME StoreInv, NEW s \in Shard, NEW tb \in Table, NEW k \in Key,
           NEW ws \in Seq(AnyVersion), NEW v \in AnyVersion, v.seq = 0, v.txn # 0,
           shards[s][tb][k] = Append(ws, v), \A i \in DOMAIN ws : ws[i].seq # 0
    PROVE  childGet(s, 0, tb, k) = TopRow(ws)
<1>1. PICK vs \in Seq(AnyVersion) : vs = shards[s][tb][k] /\ vs = Append(ws, v)
  BY AppendElements
<1>2. /\ DOMAIN ws \subseteq DOMAIN vs /\ \A i \in DOMAIN ws : vs[i] = ws[i]
      /\ \A i \in DOMAIN vs : i \in DOMAIN ws \/ (vs[i] = v /\ i \notin DOMAIN ws)
  BY <1>1
<1>3. ASSUME NEW i \in DOMAIN vs PROVE isVisible(s, 0, vs[i]) <=> i \in DOMAIN ws
  <2>1. vs[i].seq <= visible_seq[s]
    BY <1>1, <1>3 DEF StoreInv, AllVersions, VersionOK
  <2>2. CASE i \in DOMAIN ws
    BY <1>2, <2>1, <2>2 DEF isVisible
  <2>3. CASE i \notin DOMAIN ws
    BY <1>2, <2>3 DEF isVisible
  <2>4. QED BY <2>2, <2>3
<1>4. /\ vs = shards[s][tb][k]
      /\ DOMAIN ws \subseteq DOMAIN vs /\ \A i \in DOMAIN ws : ws[i] = vs[i]
      /\ \A i \in DOMAIN vs : isVisible(s, 0, vs[i]) <=> i \in DOMAIN ws
  BY <1>1, <1>2, <1>3, Zenon
<1>5. QED BY <1>4, SeesFirst, SMTT(60)

-----------------------------------------------------------------------------
(* How the statement of x moves on.                                        *)

Becomes(x, pc, next, keys, rows) ==
    /\ job'[x].pc = pc /\ job'[x].next = next /\ job'[x].keys = keys /\ job'[x].rows = rows
    /\ job'[x].table = job[x].table /\ job'[x].stmt = job[x].stmt
    /\ \A y \in Txn \ {x} : job'[y] = job[y]

LEMMA LockTableJob ==
    ASSUME StoreInv, NEW x \in Txn, LockTable(x)
    PROVE  IF job[x].stmt.op = "insert" THEN Becomes(x, "write", job[x].next, job[x].stmt.ids, job[x].rows)
           ELSE Becomes(x, "scan", 0, job[x].keys, job[x].rows)
<1>1. PICK j : j = job[x] /\ JobShape(j)
  BY DEF StoreInv, Jobs, JobOK
<1>2. CASE job[x].stmt.op = "insert"
  <2>1. PICK n : n = [j EXCEPT !.pc = "write", !.keys = j.stmt.ids]
    OBVIOUS
  <2>2. job'[x] = n /\ \A y \in Txn \ {x} : job'[y] = job[y]
    BY <1>1, <1>2, <2>1 DEF LockTable, StoreInv, Jobs
  <2>a. /\ n.pc = "write" /\ n.next = j.next /\ n.keys = j.stmt.ids /\ n.rows = j.rows
        /\ n.table = j.table /\ n.stmt = j.stmt
    BY <1>1, <2>1 DEF JobShape
  <2>3. QED BY <1>1, <1>2, <2>2, <2>a DEF Becomes
<1>3. CASE job[x].stmt.op # "insert"
  <2>1. PICK n : n = [j EXCEPT !.pc = "scan", !.next = 0]
    OBVIOUS
  <2>2. job'[x] = n /\ \A y \in Txn \ {x} : job'[y] = job[y]
    BY <1>1, <1>3, <2>1 DEF LockTable, Go, StoreInv, Jobs
  <2>a. /\ n.pc = "scan" /\ n.next = 0 /\ n.keys = j.keys /\ n.rows = j.rows
        /\ n.table = j.table /\ n.stmt = j.stmt
    BY <1>1, <2>1 DEF JobShape
  <2>3. QED BY <1>1, <1>3, <2>2, <2>a DEF Becomes
<1>4. QED BY <1>2, <1>3

Found(x) == job[x].rows \cup childScan(job[x].next, x, job[x].table)

LEMMA ScanShardJob ==
    ASSUME StoreInv, NEW x \in Txn, ScanShard(x)
    PROVE  IF job[x].next + 1 \in Shard THEN Becomes(x, "scan", job[x].next + 1, job[x].keys, Found(x))
           ELSE Becomes(x, IF job[x].stmt.op = "select" THEN "commitTxn" ELSE "write", 0,
                        {r.id : r \in Found(x)} \cap job[x].stmt.ids, {})
<1>1. PICK j, f : j = job[x] /\ JobShape(j) /\ f = Found(x)
  BY DEF StoreInv, Jobs, JobOK
<1>a. j.pc = "scan"
  BY <1>1 DEF ScanShard
<1>2. CASE job[x].next + 1 \in Shard
  <2>1. PICK n : n = [j EXCEPT !.rows = f, !.next = j.next + 1]
    OBVIOUS
  <2>2. job'[x] = n /\ \A y \in Txn \ {x} : job'[y] = job[y]
    BY <1>1, <1>2, <2>1 DEF ScanShard, Found, StoreInv, Jobs
  <2>a. /\ n.pc = j.pc /\ n.next = j.next + 1 /\ n.keys = j.keys /\ n.rows = f
        /\ n.table = j.table /\ n.stmt = j.stmt
    BY <1>1, <2>1 DEF JobShape
  <2>3. Becomes(x, "scan", job[x].next + 1, job[x].keys, Found(x))
    BY <1>1, <1>a, <2>2, <2>a DEF Becomes
  <2>4. QED BY <1>2, <2>3
<1>3. CASE job[x].next + 1 \notin Shard
  <2>0. PICK p, q : p = {r.id : r \in f} \cap j.stmt.ids /\ q = IF j.stmt.op = "select" THEN "commitTxn" ELSE "write"
    OBVIOUS
  <2>1. PICK n : n = [j EXCEPT !.pc = q, !.rows = {}, !.keys = p, !.next = 0]
    OBVIOUS
  <2>2. job'[x] = n /\ \A y \in Txn \ {x} : job'[y] = job[y]
    <3>1. job' = [job EXCEPT ![x].pc = IF job[x].stmt.op = "select" THEN "commitTxn" ELSE "write",
                             ![x].rows = {}, ![x].keys = {r.id : r \in Found(x)} \cap job[x].stmt.ids,
                             ![x].next = 0]
      BY <1>3 DEF ScanShard, Found
    <3>2. job' = [job EXCEPT ![x].pc = q, ![x].rows = {}, ![x].keys = p, ![x].next = 0]
      BY <1>1, <2>0, <3>1
    <3>3. QED BY <1>1, <2>1, <3>2 DEF StoreInv, Jobs
  <2>a. /\ n.pc = q /\ n.next = 0 /\ n.keys = p /\ n.rows = {}
        /\ n.table = j.table /\ n.stmt = j.stmt
    BY <1>1, <2>1 DEF JobShape
  <2>3. Becomes(x, q, 0, p, {})
    BY <1>1, <2>2, <2>a DEF Becomes
  <2>4. QED BY <1>1, <1>3, <2>0, <2>3
<1>4. QED BY <1>2, <1>3

LEMMA MovesOnlyPc ==
    ASSUME StoreInv, NEW x \in Txn
    PROVE  /\ CommitTxn(x) => Becomes(x, "seq", 0, job[x].keys, job[x].rows)
           /\ ReadSeq(x) => Becomes(x, "stamp", job[x].next, job[x].keys, job[x].rows)
           /\ Rollback(x) => Becomes(x, "abort", 0, job[x].keys, job[x].rows)
           /\ Invalidate(x) => Becomes(x, job[x].pc, job[x].next, job[x].keys, job[x].rows)
<1>1. PICK j : j = job[x] /\ JobShape(j) /\ job = [y \in Txn |-> job[y]]
  BY DEF StoreInv, Jobs, JobOK
<1>2. ASSUME NEW pc, Go(x, pc) PROVE Becomes(x, pc, 0, job[x].keys, job[x].rows)
  <2>1. PICK n : n = [j EXCEPT !.pc = pc, !.next = 0]
    OBVIOUS
  <2>2. job'[x] = n /\ \A y \in Txn \ {x} : job'[y] = job[y]
    BY <1>1, <1>2, <2>1 DEF Go
  <2>a. /\ n.pc = pc /\ n.next = 0 /\ n.keys = j.keys /\ n.rows = j.rows
        /\ n.table = j.table /\ n.stmt = j.stmt
    BY <1>1, <2>1 DEF JobShape
  <2>3. QED BY <1>1, <2>2, <2>a DEF Becomes
<1>3. ASSUME ReadSeq(x) PROVE Becomes(x, "stamp", job[x].next, job[x].keys, job[x].rows)
  <2>1. PICK n : n = [j EXCEPT !.pc = "stamp", !.seq = visibleSeq]
    OBVIOUS
  <2>2. job'[x] = n /\ \A y \in Txn \ {x} : job'[y] = job[y]
    BY <1>1, <1>3, <2>1 DEF ReadSeq
  <2>a. /\ n.pc = "stamp" /\ n.next = j.next /\ n.keys = j.keys /\ n.rows = j.rows
        /\ n.table = j.table /\ n.stmt = j.stmt
    BY <1>1, <2>1 DEF JobShape
  <2>3. QED BY <1>1, <2>2, <2>a DEF Becomes
<1>4. ASSUME Invalidate(x) PROVE Becomes(x, job[x].pc, job[x].next, job[x].keys, job[x].rows)
  <2>1. PICK n : n = [j EXCEPT !.erase = {}]
    OBVIOUS
  <2>2. job'[x] = n /\ \A y \in Txn \ {x} : job'[y] = job[y]
    BY <1>1, <1>4, <2>1 DEF Invalidate
  <2>a. /\ n.pc = j.pc /\ n.next = j.next /\ n.keys = j.keys /\ n.rows = j.rows
        /\ n.table = j.table /\ n.stmt = j.stmt
    BY <1>1, <2>1 DEF JobShape
  <2>3. QED BY <1>1, <2>2, <2>a DEF Becomes
<1>5. QED BY <1>2, <1>3, <1>4 DEF CommitTxn, Rollback

LEMMA WriteRowJob ==
    ASSUME StoreInv, NEW x \in Txn, NEW k, WriteRow(x, k)
    PROVE  Becomes(x, "write", job[x].next, job[x].keys \ {k}, job[x].rows)
<1>1. PICK j : j = job[x] /\ JobShape(j) /\ job = [y \in Txn |-> job[y]]
  BY DEF StoreInv, Jobs, JobOK
<1>2. PICK n : n = [j EXCEPT !.keys = j.keys \ {k}, !.erase = {k}]
  OBVIOUS
<1>3. job'[x] = n /\ j.pc = "write" /\ \A y \in Txn \ {x} : job'[y] = job[y]
  BY <1>1, <1>2 DEF WriteRow
<1>4. QED BY <1>1, <1>2, <1>3 DEF Becomes, JobShape

LEMMA NextTurnJob ==
    ASSUME StoreInv, NEW x \in Txn, job' = [job EXCEPT ![x] = NextTurn(x)]
    PROVE  IF job[x].next + 1 \in Shard
           THEN Becomes(x, job[x].pc, job[x].next + 1, job[x].keys, job[x].rows)
           ELSE Becomes(x, "release", 0, job[x].keys, job[x].rows)
<1>1. PICK j : j = job[x] /\ JobShape(j) /\ job = [y \in Txn |-> job[y]]
  BY DEF StoreInv, Jobs, JobOK
<1>2. CASE job[x].next + 1 \in Shard
  <2>1. PICK n : n = [j EXCEPT !.next = j.next + 1]
    OBVIOUS
  <2>2. job'[x] = n /\ \A y \in Txn \ {x} : job'[y] = job[y]
    BY <1>1, <1>2, <2>1 DEF NextTurn
  <2>a. /\ n.pc = j.pc /\ n.next = j.next + 1 /\ n.keys = j.keys /\ n.rows = j.rows
        /\ n.table = j.table /\ n.stmt = j.stmt
    BY <1>1, <2>1 DEF JobShape
  <2>3. Becomes(x, job[x].pc, job[x].next + 1, job[x].keys, job[x].rows)
    BY <1>1, <2>2, <2>a DEF Becomes
  <2>4. QED BY <1>2, <2>3
<1>3. CASE job[x].next + 1 \notin Shard
  <2>1. PICK n : n = [j EXCEPT !.pc = "release", !.next = 0]
    OBVIOUS
  <2>2. job'[x] = n /\ \A y \in Txn \ {x} : job'[y] = job[y]
    BY <1>1, <1>3, <2>1 DEF NextTurn
  <2>a. /\ n.pc = "release" /\ n.next = 0 /\ n.keys = j.keys /\ n.rows = j.rows
        /\ n.table = j.table /\ n.stmt = j.stmt
    BY <1>1, <2>1 DEF JobShape
  <2>3. Becomes(x, "release", 0, job[x].keys, job[x].rows)
    BY <1>1, <2>2, <2>a DEF Becomes
  <2>4. QED BY <1>3, <2>3
<1>4. QED BY <1>2, <1>3

-----------------------------------------------------------------------------
(* The locks.                                                              *)

LEMMA LocksMove ==
    ASSUME Locks, NEW x \in Txn, held' = held, NEW pc, NEW next, NEW keys, NEW rows,
           Becomes(x, pc, next, keys, rows), Locked(job[x]),
           pc \in {"scan", "write", "commitTxn", "seq", "stamp", "abort", "release"},
           pc \in {"seq", "stamp"} /\ Writes(job[x]) => keys = {},
           pc = "commitTxn" => ~Writes(job[x]),
           pc \in {"write", "abort"} => Writes(job[x]),
           pc = "scan" => job[x].stmt.op # "insert"
    PROVE  Locks'
<1>1. /\ Locked(job'[x]) /\ job'[x].table = job[x].table /\ job'[x].stmt = job[x].stmt
      /\ \A y \in Txn \ {x} : job'[y] = job[y]
  BY DEF Becomes, Locked
<1>2. StmtOK(job[x])
  BY DEF Locks
<1>3. StmtOK(job'[x])
  BY <1>1, <1>2 DEF StmtOK, Becomes, Writes
<1>4. \A y \in Txn : LockedOK(y)' /\ StmtOK(job'[y])
  BY <1>1, <1>3 DEF Locks, LockedOK, Writes
<1>5. ASSUME NEW tb \in Table, NEW y \in held[tb].holders PROVE HolderOK(tb, y)'
  <2>1. HolderOK(tb, y) /\ y \in Txn
    BY DEF Locks
  <2>2. QED BY <1>1, <2>1 DEF HolderOK
<1>6. QED BY <1>4, <1>5 DEF Locks

LEMMA LockTableLocks ==
    ASSUME StoreInv, Locks, NEW x \in Txn, LockTable(x)
    PROVE  Locks'
<1>1. PICK j, t, m : /\ j = job[x] /\ t = j.table
                     /\ m = IF j.stmt.op = "select" THEN "Shared" ELSE "Exclusive"
  OBVIOUS
<1>2. j.pc = "lock" /\ StmtOK(j) /\ t \in Table /\ ~Locked(j) /\ j.keys = {}
  BY <1>1 DEF LockTable, Locks, StmtOK, Locked
<1>3. \A tb \in Table : x \notin held[tb].holders
  BY <1>1, <1>2 DEF Locks, HolderOK
<1>4. PICK l, h : l = held[t] /\ h = l.holders
  OBVIOUS
<1>5. /\ l \in [mode : {"Shared", "Exclusive"}, holders : SUBSET Txn] /\ h \subseteq Txn
      /\ \A y \in h : HolderOK(t, y)
  BY <1>2, <1>4 DEF Locks
<1>6. PICK n : n = [mode |-> IF h = {} THEN m ELSE IF m = "Exclusive" THEN m ELSE l.mode,
                    holders |-> h \cup {x}]
  OBVIOUS
<1>7. held' = [held EXCEPT ![t] = n]
  BY <1>1, <1>4, <1>6 DEF LockTable, Lock!Grant
<1>8. h = {} \/ (m = "Shared" /\ l.mode = "Shared")
  BY <1>1, <1>2, <1>3, <1>4 DEF LockTable, Lock!Grant, Lock!CanGrant, Lock!Granted
<1>9. /\ n.holders = h \cup {x} /\ (m = "Exclusive" => n.mode = "Exclusive")
      /\ n \in [mode : {"Shared", "Exclusive"}, holders : SUBSET Txn]
      /\ n.mode = "Exclusive" => h = {}
  BY <1>1, <1>5, <1>6, <1>8
<1>10. /\ held' \in [Table -> [mode : {"Shared", "Exclusive"}, holders : SUBSET Txn]]
       /\ held'[t] = n /\ \A tb \in Table \ {t} : held'[tb] = held[tb]
  BY <1>2, <1>7, <1>9 DEF Locks
<1>11. /\ Locked(job'[x]) /\ StmtOK(job'[x]) /\ job'[x].table = t /\ job'[x].stmt = j.stmt
       /\ \A y \in Txn \ {x} : job'[y] = job[y]
  <2>1. CASE job[x].stmt.op = "insert"
    <3>1. Becomes(x, "write", job[x].next, job[x].stmt.ids, job[x].rows)
      BY <2>1, LockTableJob
    <3>2. QED BY <1>1, <1>2, <2>1, <3>1 DEF Becomes, Locked, StmtOK, Writes
  <2>2. CASE job[x].stmt.op # "insert"
    <3>1. Becomes(x, "scan", 0, job[x].keys, job[x].rows)
      BY <2>2, LockTableJob
    <3>2. QED BY <1>1, <1>2, <2>2, <3>1 DEF Becomes, Locked, StmtOK, Writes
  <2>3. QED BY <2>1, <2>2
<1>12. ASSUME NEW tb \in Table, NEW y \in held'[tb].holders PROVE HolderOK(tb, y)'
  <2>1. CASE tb = t /\ y = x
    BY <1>9, <1>10, <1>11, <2>1 DEF HolderOK
  <2>2. CASE tb = t /\ y # x
    <3>1. y \in h
      BY <1>9, <1>10, <2>2
    <3>2. HolderOK(t, y) /\ y \in Txn
      BY <1>5, <3>1
    <3>3. QED BY <1>9, <1>10, <1>11, <2>2, <3>1, <3>2 DEF HolderOK
  <2>3. CASE tb # t
    <3>1. HolderOK(tb, y) /\ y \in Txn /\ y # x
      BY <1>3, <1>10, <2>3 DEF Locks
    <3>2. QED BY <1>10, <1>11, <2>3, <3>1 DEF HolderOK
  <2>4. QED BY <2>1, <2>2, <2>3
<1>13. ASSUME NEW y \in Txn PROVE LockedOK(y)' /\ StmtOK(job'[y])
  <2>1. CASE y = x
    BY <1>1, <1>9, <1>10, <1>11, <2>1 DEF LockedOK, Writes
  <2>2. CASE y # x
    <3>1. LockedOK(y) /\ StmtOK(job[y]) /\ job'[y] = job[y]
      BY <1>11, <2>2 DEF Locks
    <3>2. Locked(job[y]) => job[y].table \in Table
      BY <3>1 DEF StmtOK
    <3>3. CASE job[y].table = t
      BY <1>4, <1>8, <1>9, <1>10, <1>5, <3>1, <3>3 DEF LockedOK
    <3>4. CASE job[y].table # t
      BY <1>10, <3>1, <3>2, <3>4 DEF LockedOK
    <3>5. QED BY <3>3, <3>4
  <2>3. QED BY <2>1, <2>2
<1>14. QED BY <1>10, <1>12, <1>13 DEF Locks

LEMMA ReleaseLocks ==
    ASSUME StoreInv, Locks, NEW x \in Txn, Release(x)
    PROVE  Locks' /\ ~Locked(job'[x]) /\ \A y \in Txn \ {x} : job'[y] = job[y]
<1>1. /\ job'[x] = [Idle EXCEPT !.pc = "done"] /\ \A y \in Txn \ {x} : job'[y] = job[y]
  BY DEF Release, StoreInv, Jobs
<1>2. ~Locked(job'[x]) /\ job'[x].pc = "done"
  BY <1>1 DEF Idle, Locked
<1>3. held' = [r \in Table |->
                 IF x \notin held[r].holders THEN held[r]
                 ELSE IF held[r].holders = {x} THEN Lock!Unlocked
                 ELSE [held[r] EXCEPT !.holders = held[r].holders \ {x}]]
  BY DEF Release, Lock!Release, Lock!Granted
<1>4. ASSUME NEW tb \in Table
      PROVE  /\ held'[tb] \in [mode : {"Shared", "Exclusive"}, holders : SUBSET Txn]
             /\ held'[tb].holders = held[tb].holders \ {x}
             /\ held'[tb].holders # {} => held'[tb].mode = held[tb].mode
  <2>1. PICK l \in [mode : {"Shared", "Exclusive"}, holders : SUBSET Txn] : l = held[tb]
    BY DEF Locks
  <2>2. held'[tb] = IF x \notin l.holders THEN l ELSE IF l.holders = {x} THEN Lock!Unlocked
                    ELSE [l EXCEPT !.holders = l.holders \ {x}]
    BY <1>3, <2>1
  <2>3. QED BY <2>1, <2>2 DEF Lock!Unlocked
<1>5. ASSUME NEW tb \in Table, NEW y \in held'[tb].holders PROVE HolderOK(tb, y)'
  <2>1. HolderOK(tb, y) /\ y \in Txn /\ y # x
    BY <1>4 DEF Locks
  <2>2. QED BY <1>1, <1>4, <2>1 DEF HolderOK
<1>6. ASSUME NEW y \in Txn PROVE LockedOK(y)' /\ StmtOK(job'[y])
  <2>1. CASE y = x
    BY <1>2, <2>1 DEF LockedOK, StmtOK, Locked
  <2>2. CASE y # x
    <3>1. LockedOK(y) /\ StmtOK(job[y]) /\ job'[y] = job[y]
      BY <1>1, <2>2 DEF Locks
    <3>2. Locked(job[y]) => job[y].table \in Table
      BY <3>1 DEF StmtOK
    <3>3. Locked(job[y]) => y \in held'[job[y].table].holders
      BY <1>4, <2>2, <3>1, <3>2 DEF LockedOK
    <3>4. QED BY <1>4, <3>1, <3>2, <3>3 DEF LockedOK
  <2>3. QED BY <2>1, <2>2
<1>7. held' \in [Table -> [mode : {"Shared", "Exclusive"}, holders : SUBSET Txn]]
  BY <1>3, <1>4
<1>8. QED BY <1>1, <1>2, <1>5, <1>6, <1>7 DEF Locks

LEMMA BeginLocks ==
    ASSUME StoreInv, Locks, NEW tb \in Table, NEW st \in Statement, keyed, Begin(tb, st)
    PROVE  /\ Locks' /\ NewTxn \in Txn /\ job[NewTxn].pc = "idle" /\ job'[NewTxn].pc = "lock"
           /\ \A y \in Txn \ {NewTxn} : job'[y] = job[y]
<1>1. /\ job' = [job EXCEPT ![NewTxn] = [Idle EXCEPT !.pc = "lock", !.table = tb, !.stmt = st]]
      /\ held' = held /\ st.ids # {NullKey} /\ next_id < MaxTxn
  BY DEF Begin, beginTxn
<1>2. NewTxn \in Txn /\ NewTxn \notin 1..next_id
  BY <1>1, TxnAssumption DEF NewTxn, StoreInv, StoreTypes
<1>3. job[NewTxn].pc = "idle"
  BY <1>2 DEF StoreInv, Jobs
<1>4. PICK x \in Txn : x = NewTxn
  BY <1>2
<1>5. /\ job'[x] = [Idle EXCEPT !.pc = "lock", !.table = tb, !.stmt = st]
      /\ \A y \in Txn \ {x} : job'[y] = job[y]
  BY <1>1, <1>4 DEF StoreInv, Jobs
<1>6. /\ job'[x].pc = "lock" /\ job'[x].stmt = st /\ job'[x].table = tb /\ job'[x].rows = {}
      /\ job'[x].next = 0 /\ job'[x].keys = {}
  BY <1>5 DEF Idle
<1>7. StmtOK(job'[x]) /\ LockedOK(x)'
  BY <1>1, <1>6 DEF StmtOK, Locked, LockedOK
<1>8. ~Locked(job[x])
  BY <1>3, <1>4 DEF Locked
<1>9. \A y \in Txn : LockedOK(y)' /\ StmtOK(job'[y])
  BY <1>1, <1>5, <1>7 DEF Locks, LockedOK
<1>10. ASSUME NEW t \in Table, NEW y \in held[t].holders PROVE HolderOK(t, y)'
  <2>1. HolderOK(t, y) /\ y \in Txn /\ y # x
    BY <1>8 DEF Locks, HolderOK
  <2>2. QED BY <1>1, <1>5, <2>1 DEF HolderOK
<1>11. Locks'
  BY <1>1, <1>9, <1>10 DEF Locks
<1>12. QED BY <1>3, <1>4, <1>5, <1>6, <1>11

\* Beside a writer of a table nobody is at work on it.
LEMMA WriterAlone ==
    ASSUME Locks, NEW x \in Txn, NEW y \in Txn, Locked(job[x]), Locked(job[y]), Writes(job[x]),
           job[x].table = job[y].table
    PROVE  x = y
<1>1. PICK tb \in Table : tb = job[x].table
  BY DEF Locks, StmtOK
<1>2. x \in held[tb].holders /\ y \in held[tb].holders /\ held[tb].mode = "Exclusive"
  BY <1>1 DEF Locks, LockedOK
<1>3. HolderOK(tb, x)
  BY <1>2 DEF Locks
<1>4. QED BY <1>2, <1>3 DEF HolderOK

-----------------------------------------------------------------------------
(* What a step leaves of the tables it does not write.                     *)

TableKept(tb) == \A k \in Key : KeyKept(tb, k)
SameStmt(y) == job'[y].table = job[y].table /\ job'[y].stmt = job[y].stmt

LEMMA HomeTyped ==
    ASSUME StoreInv, NEW tb \in Table, NEW k \in Key
    PROVE  Home(tb, k) \in Seq(AnyVersion) /\ routeByKey(k) \in Shard
BY KeyHashes, VersionsTyped DEF Home, StoreInv

\* Whose staged versions a table has.
LEMMA StagedOwner ==
    ASSUME StoreInv, TableOK, NEW tb \in Table, NEW k \in Key,
           NEW i \in DOMAIN Home(tb, k), Home(tb, k)[i].seq = 0, NEW y, y = Home(tb, k)[i].txn
    PROVE  /\ y \in Txn /\ y # 0 /\ Locked(job[y]) /\ Writes(job[y]) /\ job[y].table = tb
           /\ MayStage(job[y], routeByKey(k)) /\ i = Len(Home(tb, k)) /\ Ends(y, Home(tb, k))
<1>1. PICK s \in Shard : s = routeByKey(k)
  BY KeyHashes
<1>2. VersionOK(s, Home(tb, k)[i]) /\ next_id \in Nat
  BY <1>1 DEF StoreInv, StoreTypes, AllVersions, Home
<1>3. y \in Txn /\ y # 0 /\ MayStage(job[y], s)
  BY <1>2 DEF VersionOK
<1>4. Locked(job[y])
  BY <1>3 DEF MayStage, Locked
<1>5. job[y].table = tb /\ Writes(job[y]) /\ i = Len(Home(tb, k))
  BY DEF TableOK, Placed, StagedOK
<1>6. Home(tb, k) # <<>>
  OBVIOUS
<1>7. QED BY <1>1, <1>3, <1>4, <1>5, <1>6 DEF Ends, Staged

\* A transaction at work on a table sees no staged version but its own.
LEMMA OnlyOwn ==
    ASSUME StoreInv, TableOK, NEW x \in Txn, Locked(job[x]), NEW k \in Key,
           NEW i \in DOMAIN Home(job[x].table, k), Home(job[x].table, k)[i].seq = 0
    PROVE  Home(job[x].table, k)[i].txn = x /\ Ends(x, Home(job[x].table, k)) /\ Writes(job[x])
<1>1. PICK tb \in Table : tb = job[x].table
  BY DEF TableOK, Locks, StmtOK
<1>2. PICK y : y = Home(tb, k)[i].txn
  OBVIOUS
<1>3. /\ y \in Txn /\ Locked(job[y]) /\ Writes(job[y]) /\ job[y].table = tb
      /\ Ends(y, Home(tb, k))
  BY <1>1, <1>2, StagedOwner
<1>4. y = x
  BY <1>1, <1>3, WriterAlone DEF TableOK
<1>5. QED BY <1>1, <1>2, <1>3, <1>4

LEMMA PlacedKept ==
    ASSUME StoreInv, NEW tb \in Table, NEW k \in Key, Placed(tb, k), KeyKept(tb, k),
           \A y \in Txn : SameStmt(y) \/ \A s \in Shard : ~MayStage(job[y], s)
    PROVE  Placed(tb, k)'
<1>1. PICK s \in Shard : s = routeByKey(k)
  BY KeyHashes
<1>2. PICK vs : vs = Home(tb, k) /\ vs = shards[s][tb][k]
  BY <1>1 DEF Home
<1>3. Home(tb, k)' = vs
  BY <1>1, <1>2 DEF Home, KeyKept, routeByKey
<1>4. ASSUME NEW i \in DOMAIN vs, vs[i].seq = 0 PROVE i = Len(vs) /\ StagedOK(tb, vs[i])'
  <2>1. VersionOK(s, vs[i])
    BY <1>2 DEF StoreInv, AllVersions
  <2>2. vs[i].txn \in Txn /\ MayStage(job[vs[i].txn], s)
    BY <1>4, <2>1 DEF VersionOK
  <2>3. SameStmt(vs[i].txn)
    BY <2>2
  <2>4. i = Len(vs) /\ StagedOK(tb, vs[i])
    BY <1>2, <1>4 DEF Placed
  <2>5. QED BY <2>3, <2>4 DEF SameStmt, StagedOK, Writes
<1>5. \A n \in Shard : n # routeByKey(k) => shards'[n][tb][k] = <<>>
  BY DEF Placed, KeyKept
<1>6. QED BY <1>3, <1>4, <1>5 DEF Placed, routeByKey

LEMMA ShownKept ==
    ASSUME StoreInv, StoreInv', NEW tb \in Table, TableKept(tb), NEW n
    PROVE  ShownBelow(tb, n)' = ShownBelow(tb, n)
<1>1. \A k \in Key : get(0, tb, k)' = get(0, tb, k)
  BY RowKept DEF TableKept
<1>2. [k \in Key |-> IF routeByKey(k) < n THEN get(0, tb, k)' ELSE NoRow]
      = [k \in Key |-> IF routeByKey(k) < n THEN get(0, tb, k) ELSE NoRow]
  BY <1>1
<1>3. QED BY <1>2 DEF ShownBelow, RowsOf, routeByKey

LEMMA WriterKept ==
    ASSUME StoreInv, StoreInv', NEW x \in Txn, SameStmt(x), Locks, TableKept(job[x].table),
           Pending(job'[x]) => Pending(job[x]) /\ job'[x].keys = job[x].keys, WriterOK(x)
    PROVE  WriterOK(x)'
<1> SUFFICES ASSUME Pending(job'[x]), NEW k \in Key
             PROVE  (/\ k \in job[x].keys => Wants(job[x], k)
                     /\ Ends(x, Home(job[x].table, k)) <=> Wants(job[x], k) /\ k \notin job[x].keys)'
  BY DEF WriterOK
<1>1. PICK tb \in Table : tb = job[x].table /\ tb = job'[x].table
  BY DEF Locks, StmtOK, SameStmt, Pending, Locked
<1>2. get(0, tb, k)' = get(0, tb, k)
  BY <1>1, RowKept DEF TableKept
<1>3. Wants(job[x], k)' <=> Wants(job[x], k)
  BY <1>1, <1>2 DEF Wants, SameStmt
<1>4. Home(tb, k)' = Home(tb, k)
  BY <1>1, KeyHashes DEF TableKept, KeyKept, Home, routeByKey
<1>5. Home(job[x].table, k)' = Home(job[x].table, k)
  BY <1>1, <1>4
<1>6. QED BY <1>3, <1>5 DEF WriterOK, Ends, Staged

LEMMA ScanKept ==
    ASSUME StoreInv, StoreInv', NEW x \in Txn, SameStmt(x), Locks, TableKept(job[x].table),
           job'[x].pc = "scan" =>
              job[x].pc = "scan" /\ job'[x].rows = job[x].rows /\ job'[x].next = job[x].next,
           ScanOK(x)
    PROVE  ScanOK(x)'
<1> SUFFICES ASSUME job'[x].pc = "scan"
             PROVE  job'[x].rows = ShownBelow(job[x].table, job[x].next)'
  BY DEF ScanOK
<1>1. PICK tb, n : /\ tb \in Table /\ tb = job[x].table /\ tb = job'[x].table
                   /\ n = job[x].next /\ n = job'[x].next
  BY DEF Locks, StmtOK, SameStmt, Locked
<1>2. ShownBelow(tb, n)' = ShownBelow(tb, n)
  BY <1>1, ShownKept
<1>3. ShownBelow(job[x].table, job[x].next)' = ShownBelow(tb, n)'
  BY <1>1
<1>4. QED BY <1>1, <1>2, <1>3 DEF ScanOK

\* A step of x: a table it writes is its own, so the others lose nothing.
Owns(x, tb) == Locked(job[x]) /\ Writes(job[x]) /\ job[x].table = tb

LEMMA TableMoves ==
    ASSUME StoreInv, StoreInv', TableOK, NEW x \in Txn, Locks', policies' = policies,
           reply' = [y \in Txn |-> reply'[y]], \A y \in Txn \ {x} : job'[y] = job[y],
           SameStmt(x) \/ \A s \in Shard : ~MayStage(job[x], s),
           \A tb \in Table : TableKept(tb) \/ (Owns(x, tb) /\ \A k \in Key : Placed(tb, k)'),
           WriterOK(x)', ScanOK(x)'
    PROVE  TableOK'
<1>1. \A y \in Txn : SameStmt(y) \/ \A s \in Shard : ~MayStage(job[y], s)
  BY DEF SameStmt
<1>2. ASSUME NEW tb \in Table, NEW k \in Key PROVE Placed(tb, k)'
  <2>1. CASE TableKept(tb)
    BY <1>1, <2>1, PlacedKept DEF TableOK, TableKept
  <2>2. QED BY <2>1
<1>3. ASSUME NEW y \in Txn \ {x} PROVE WriterOK(y)' /\ ScanOK(y)'
  <2>1. CASE Pending(job[y]) \/ job[y].pc = "scan"
    <3>1. Locked(job[y]) /\ job[y].table \in Table
      BY <2>1 DEF Pending, Locked, TableOK, Locks, StmtOK
    <3>2. TableKept(job[y].table)
      BY <3>1, WriterAlone DEF Owns, TableOK
    <3>3. SameStmt(y)
      BY DEF SameStmt
    <3>4. QED BY <3>2, <3>3, WriterKept, ScanKept DEF TableOK
  <2>2. CASE ~(Pending(job[y]) \/ job[y].pc = "scan")
    BY <2>2 DEF WriterOK, ScanOK
  <2>3. QED BY <2>1, <2>2
<1>4. Routed'
  BY DEF TableOK, Routed
<1>5. QED BY <1>2, <1>3, <1>4 DEF TableOK

-----------------------------------------------------------------------------
(* Steps that leave the versions alone.                                    *)

LEMMA StillKept ==
    ASSUME shards' = shards
    PROVE  \A tb \in Table : TableKept(tb)
BY DEF TableKept, KeyKept

LEMMA BeginTable ==
    ASSUME StoreInv, StoreInv', TableOK, keyed, NEW tb \in Table, NEW st \in Statement,
           Begin(tb, st), UNCHANGED engineVars
    PROVE  TableOK'
<1>1. /\ Locks' /\ NewTxn \in Txn /\ job[NewTxn].pc = "idle" /\ job'[NewTxn].pc = "lock"
      /\ \A y \in Txn \ {NewTxn} : job'[y] = job[y]
  BY BeginLocks DEF TableOK
<1>2. PICK x \in Txn : x = NewTxn
  BY <1>1
<1>3. /\ policies' = policies /\ reply' = reply /\ reply' = [y \in Txn |-> reply'[y]]
      /\ shards' = shards
  BY DEF engineVars, Begin, TableOK
<1>4. \A s \in Shard : ~MayStage(job[x], s)
  BY <1>1, <1>2 DEF MayStage
<1>5. WriterOK(x)' /\ ScanOK(x)'
  BY <1>1, <1>2 DEF WriterOK, ScanOK, Pending
<1>6. QED BY <1>1, <1>2, <1>3, <1>4, <1>5, StillKept, TableMoves

LEMMA ReleaseTable ==
    ASSUME StoreInv, StoreInv', TableOK, NEW x \in Txn, Release(x), UNCHANGED engineVars
    PROVE  TableOK'
<1>1. Locks' /\ ~Locked(job'[x]) /\ \A y \in Txn \ {x} : job'[y] = job[y]
  BY ReleaseLocks DEF TableOK
<1>2. /\ policies' = policies /\ reply' = reply /\ reply' = [y \in Txn |-> reply'[y]]
      /\ shards' = shards
  BY DEF engineVars, Release, TableOK
<1>3. \A s \in Shard : ~MayStage(job[x], s)
  BY DEF MayStage, Release
<1>4. WriterOK(x)' /\ ScanOK(x)'
  BY <1>1 DEF WriterOK, ScanOK, Pending, Locked
<1>5. QED BY <1>1, <1>2, <1>3, <1>4, StillKept, TableMoves

LEMMA PcMoves ==
    ASSUME StoreInv, StoreInv', TableOK, NEW x \in Txn, UNCHANGED <<held, reply, engineVars>>,
           NEW pc, NEW next, Becomes(x, pc, next, job[x].keys, job[x].rows), Locked(job[x]),
           pc \in {"write", "seq", "stamp", "abort"},
           pc \in {"seq", "stamp"} /\ Writes(job[x]) => job[x].keys = {},
           pc \in {"write", "abort"} => Writes(job[x]),
           Pending(job'[x]) => Pending(job[x])
    PROVE  TableOK'
<1>1. /\ policies' = policies /\ reply' = reply /\ reply' = [y \in Txn |-> reply'[y]]
      /\ shards' = shards /\ held' = held
  BY DEF engineVars, TableOK
<1>2. Locks'
  BY <1>1, LocksMove DEF TableOK
<1>3. SameStmt(x) /\ \A y \in Txn \ {x} : job'[y] = job[y]
  BY DEF Becomes, SameStmt
<1>4. TableKept(job[x].table)
  BY <1>1, StillKept DEF TableOK, Locks, StmtOK
<1>5. WriterOK(x)'
  BY <1>3, <1>4, WriterKept DEF TableOK, Becomes
<1>6. ScanOK(x)'
  BY DEF ScanOK, Becomes
<1>7. QED BY <1>1, <1>2, <1>3, <1>5, <1>6, StillKept, TableMoves

LEMMA CommitTxnTable ==
    ASSUME StoreInv, StoreInv', TableOK, NEW x \in Txn, CommitTxn(x), UNCHANGED engineVars
    PROVE  TableOK'
<1>1. Becomes(x, "seq", 0, job[x].keys, job[x].rows)
  BY MovesOnlyPc
<1>2. Locked(job[x])
  BY DEF CommitTxn, Written, Locked
<1>3. Writes(job[x]) => job[x].pc = "write" /\ job[x].keys = {}
  BY DEF CommitTxn, Written, TableOK, Locks, StmtOK
<1>4. Pending(job'[x]) => Pending(job[x])
  BY <1>1, <1>3 DEF Becomes, Pending, Writes
<1>5. UNCHANGED <<held, reply>>
  BY DEF CommitTxn
<1>6. QED BY <1>1, <1>2, <1>3, <1>4, <1>5, PcMoves

LEMMA ReadSeqTable ==
    ASSUME StoreInv, StoreInv', TableOK, NEW x \in Txn, ReadSeq(x), UNCHANGED engineVars
    PROVE  TableOK'
<1>1. Becomes(x, "stamp", job[x].next, job[x].keys, job[x].rows)
  BY MovesOnlyPc
<1>2. Locked(job[x]) /\ job[x].pc = "seq"
  BY DEF ReadSeq, Locked
<1>3. Writes(job[x]) => job[x].keys = {}
  BY <1>2 DEF TableOK, Locks, StmtOK
<1>4. Pending(job'[x]) => Pending(job[x])
  BY <1>1, <1>2 DEF Becomes, Pending, Writes
<1>5. UNCHANGED <<held, reply>>
  BY DEF ReadSeq
<1>6. QED BY <1>1, <1>2, <1>3, <1>4, <1>5, PcMoves

LEMMA RollbackTable ==
    ASSUME StoreInv, StoreInv', TableOK, NEW x \in Txn, Rollback(x), UNCHANGED engineVars
    PROVE  TableOK'
<1>1. Becomes(x, "abort", 0, job[x].keys, job[x].rows)
  BY MovesOnlyPc
<1>2. Locked(job[x]) /\ job[x].pc = "write"
  BY DEF Rollback, Written, Locked
<1>3. Writes(job[x])
  BY <1>2 DEF TableOK, Locks, StmtOK
<1>4. ~Pending(job'[x])
  BY <1>1 DEF Becomes, Pending
<1>5. UNCHANGED <<held, reply>>
  BY DEF Rollback
<1>6. QED BY <1>1, <1>2, <1>3, <1>4, <1>5, PcMoves

LEMMA InvalidateTable ==
    ASSUME StoreInv, StoreInv', TableOK, NEW x \in Txn, Invalidate(x), UNCHANGED engineVars
    PROVE  TableOK'
<1>1. Becomes(x, job[x].pc, job[x].next, job[x].keys, job[x].rows)
  BY MovesOnlyPc
<1>2. Locked(job[x]) /\ job[x].pc = "write"
  BY DEF Invalidate, StoreInv, Jobs, JobOK, Locked
<1>3. Writes(job[x])
  BY <1>2 DEF TableOK, Locks, StmtOK
<1>4. Pending(job[x])
  BY <1>2, <1>3 DEF Pending
<1>5. UNCHANGED <<held, reply>>
  BY DEF Invalidate
<1>6. QED BY <1>1, <1>2, <1>3, <1>4, <1>5, PcMoves

\* Nothing of x is staged where its statement stages nothing.
LEMMA NotEnds ==
    ASSUME StoreInv, TableOK, NEW x \in Txn, NEW tb \in Table, NEW k \in Key,
           ~MayStage(job[x], routeByKey(k))
    PROVE  ~Ends(x, Home(tb, k))
<1> SUFFICES ASSUME Ends(x, Home(tb, k)) PROVE FALSE
  OBVIOUS
<1>1. PICK vs \in Seq(AnyVersion) : vs = Home(tb, k)
  BY HomeTyped
<1>2. Len(vs) \in DOMAIN vs /\ vs[Len(vs)].seq = 0 /\ vs[Len(vs)].txn = x
  BY <1>1 DEF Ends, Staged
<1>3. QED BY <1>1, <1>2, StagedOwner

LEMMA ShownNone == ASSUME NEW tb PROVE ShownBelow(tb, 0) = {} /\ ShownBelow(tb, 0)' = {}
<1>1. ASSUME NEW k \in Key PROVE ~(routeByKey(k) < 0)
  <2>1. routeByKey(k) \in Nat
    BY KeyHashes, ShardNumbers
  <2>2. QED BY <2>1
<1>2. QED BY <1>1 DEF ShownBelow, RowsOf, routeByKey

LEMMA LockTableTable ==
    ASSUME StoreInv, StoreInv', TableOK, NEW x \in Txn, LockTable(x), UNCHANGED engineVars
    PROVE  TableOK'
<1>1. Locks'
  BY LockTableLocks DEF TableOK
<1>2. /\ policies' = policies /\ reply' = reply /\ reply' = [y \in Txn |-> reply'[y]]
      /\ shards' = shards
  BY DEF engineVars, LockTable, TableOK
<1>3. /\ \A s \in Shard : ~MayStage(job[x], s)
      /\ job[x].rows = {} /\ job[x].next = 0 /\ job[x].keys = {} /\ job[x].table \in Table
  BY DEF MayStage, LockTable, TableOK, Locks, StmtOK
<1>4. PICK tb \in Table : tb = job[x].table
  BY <1>3
<1>5. /\ WriterOK(x)' /\ ScanOK(x)' /\ \A y \in Txn \ {x} : job'[y] = job[y]
  <2>1. CASE job[x].stmt.op = "insert"
    <3>1. Becomes(x, "write", job[x].next, job[x].stmt.ids, job[x].rows)
      BY <2>1, LockTableJob
    <3>2. /\ job'[x].pc = "write" /\ job'[x].stmt.op = "insert" /\ job'[x].table = tb
          /\ job'[x].keys = job'[x].stmt.ids /\ \A y \in Txn \ {x} : job'[y] = job[y]
      BY <1>4, <2>1, <3>1 DEF Becomes
    <3>3. ASSUME NEW k \in Key
          PROVE  /\ k \in job'[x].keys <=> Wants(job[x], k)'
                 /\ ~Ends(x, Home(job[x].table, k))'
      <4>1. k \in job'[x].keys <=> Wants(job[x], k)'
        BY <3>2 DEF Wants
      <4>2. ~Ends(x, Home(tb, k)) /\ Home(tb, k)' = Home(tb, k)
        BY <1>2, <1>3, NotEnds, KeyHashes DEF Home, routeByKey
      <4>3. Home(job[x].table, k)' = Home(tb, k)'
        BY <3>2
      <4>4. QED BY <4>1, <4>2, <4>3 DEF Ends
    <3>4. WriterOK(x)'
      BY <3>3 DEF WriterOK
    <3>5. ScanOK(x)'
      BY <3>2 DEF ScanOK
    <3>6. QED BY <3>2, <3>4, <3>5
  <2>2. CASE job[x].stmt.op # "insert"
    <3>1. Becomes(x, "scan", 0, job[x].keys, job[x].rows)
      BY <2>2, LockTableJob
    <3>2. /\ job'[x].pc = "scan" /\ job'[x].rows = {} /\ job'[x].next = 0
          /\ \A y \in Txn \ {x} : job'[y] = job[y]
      BY <1>3, <3>1 DEF Becomes
    <3>3. WriterOK(x)'
      BY <3>2 DEF WriterOK, Pending
    <3>4. ShownBelow(job[x].table, job[x].next)' = {}
      <4>1. PICK r, n : r = job'[x].table /\ n = job'[x].next /\ n = 0
        BY <3>2
      <4>2. ShownBelow(r, n)' = {}
        BY <4>1, ShownNone
      <4>3. QED BY <4>1, <4>2
    <3>5. ScanOK(x)'
      BY <3>2, <3>4 DEF ScanOK
    <3>6. QED BY <3>2, <3>3, <3>5
  <2>3. QED BY <2>1, <2>2
<1>6. QED BY <1>1, <1>2, <1>3, <1>5, StillKept, TableMoves

-----------------------------------------------------------------------------
(* The scan.                                                               *)

\* A statement that stages nothing reads what anybody would.
LEMMA ReadsCommitted ==
    ASSUME StoreInv, TableOK, NEW x \in Txn, Locked(job[x]), NEW k \in Key,
           ~MayStage(job[x], routeByKey(k)), NEW n \in Shard
    PROVE  childGet(n, x, job[x].table, k) =
              IF routeByKey(k) = n THEN get(0, job[x].table, k) ELSE NoRow
<1>1. PICK tb \in Table : tb = job[x].table
  BY DEF TableOK, Locks, StmtOK
<1>2. CASE routeByKey(k) = n
  <2>1. Home(tb, k) = shards[n][tb][k]
    BY <1>2 DEF Home
  <2>2. \A i \in DOMAIN Home(tb, k) : Home(tb, k)[i].seq # 0
    BY <1>1, OnlyOwn, NotEnds
  <2>3. childGet(n, x, tb, k) = TopRow(shards[n][tb][k])
    BY <2>1, <2>2, SeesTop
  <2>4. childGet(n, 0, tb, k) = TopRow(shards[n][tb][k])
    BY <2>1, <2>2, SeesTop
  <2>5. QED BY <1>1, <1>2, <2>3, <2>4 DEF get
<1>3. CASE routeByKey(k) # n
  <2>1. shards[n][tb][k] = <<>>
    BY <1>3 DEF TableOK, Placed
  <2>2. QED BY <1>1, <1>3, <2>1, SeesNothing
<1>4. QED BY <1>2, <1>3

LEMMA RowsOfUnion ==
    ASSUME NEW f, NEW g, NEW h,
           \A k \in Key : (h[k] = f[k] /\ g[k] = NoRow) \/ (h[k] = g[k] /\ f[k] = NoRow)
    PROVE  RowsOf(h) = RowsOf(f) \cup RowsOf(g)
BY DEF RowsOf

LEMMA RowsOfIds == ASSUME NEW f PROVE {r.id : r \in RowsOf(f)} = {k \in Key : f[k] # NoRow}
<1>1. ASSUME NEW k \in Key, f[k] # NoRow PROVE k \in {r.id : r \in RowsOf(f)}
  <2>1. [id |-> k, c |-> f[k].c] \in RowsOf(f) /\ [id |-> k, c |-> f[k].c].id = k
    BY <1>1 DEF RowsOf
  <2>2. QED BY <2>1
<1>2. ASSUME NEW r \in RowsOf(f) PROVE r.id \in {k \in Key : f[k] # NoRow}
  BY DEF RowsOf
<1>3. QED BY <1>1, <1>2

LEMMA FoundIs ==
    ASSUME StoreInv, TableOK, NEW x \in Txn, job[x].pc = "scan"
    PROVE  Found(x) = ShownBelow(job[x].table, job[x].next + 1)
<1>1. PICK tb, n, f, g, h :
        /\ tb = job[x].table /\ n = job[x].next /\ n \in Shard
        /\ f = [k \in Key |-> IF routeByKey(k) < n THEN get(0, tb, k) ELSE NoRow]
        /\ g = [k \in Key |-> IF routeByKey(k) = n THEN get(0, tb, k) ELSE NoRow]
        /\ h = [k \in Key |-> IF routeByKey(k) < n + 1 THEN get(0, tb, k) ELSE NoRow]
  BY DEF StoreInv, Jobs, JobOK
<1>2. Locked(job[x]) /\ \A s \in Shard : ~MayStage(job[x], s)
  BY DEF Locked, MayStage
<1>3. \A k \in Key : childGet(n, x, tb, k) = g[k]
  BY <1>1, <1>2, ReadsCommitted, KeyHashes
<1>4. childScan(n, x, tb) = RowsOf(g)
  BY <1>3 DEF childScan, RowsOf
<1>5. job[x].rows = RowsOf(f)
  BY <1>1 DEF TableOK, ScanOK, ShownBelow
<1>6. \A k \in Key : (h[k] = f[k] /\ g[k] = NoRow) \/ (h[k] = g[k] /\ f[k] = NoRow)
  <2> TAKE k \in Key
  <2>1. routeByKey(k) \in Nat /\ n \in Nat
    BY <1>1, KeyHashes, ShardNumbers
  <2>2. CASE routeByKey(k) < n
    BY <1>1, <2>1, <2>2
  <2>3. CASE routeByKey(k) = n
    BY <1>1, <2>1, <2>3
  <2>4. CASE routeByKey(k) > n
    BY <1>1, <2>1, <2>4
  <2>5. QED BY <2>1, <2>2, <2>3, <2>4
<1>7. RowsOf(h) = RowsOf(f) \cup RowsOf(g)
  BY <1>6, RowsOfUnion
<1>8. QED BY <1>1, <1>4, <1>5, <1>7 DEF Found, ShownBelow

Shown(tb) == RowsOf([k \in Key |-> get(0, tb, k)])

LEMMA ShownAll == ASSUME NEW tb PROVE ShownBelow(tb, ShardCount) = Shown(tb)
<1>1. \A k \in Key : routeByKey(k) < ShardCount
  BY KeyHashes, ShardNumbers
<1>2. [k \in Key |-> IF routeByKey(k) < ShardCount THEN get(0, tb, k) ELSE NoRow]
      = [k \in Key |-> get(0, tb, k)]
  BY <1>1
<1>3. QED BY <1>2 DEF ShownBelow, Shown

LEMMA ScanShardTable ==
    ASSUME StoreInv, StoreInv', TableOK, NEW x \in Txn, ScanShard(x), UNCHANGED engineVars
    PROVE  /\ TableOK'
           /\ IF job[x].next + 1 \notin Shard /\ job[x].stmt.op = "select"
              THEN reply' = [reply EXCEPT ![x] = Shown(job[x].table)] ELSE reply' = reply
<1>1. PICK tb \in Table : tb = job[x].table /\ job[x].pc = "scan" /\ Locked(job[x])
  BY DEF ScanShard, TableOK, Locks, StmtOK, Locked
<1>2. PICK n \in Shard : n = job[x].next
  BY DEF StoreInv, Jobs, JobOK
<1>3. Found(x) = ShownBelow(tb, n + 1) /\ job[x].stmt.op # "insert"
  BY <1>1, <1>2, FoundIs DEF TableOK, Locks, StmtOK
<1>4. n + 1 \notin Shard => Found(x) = Shown(tb)
  BY <1>3, ShownAll, ShardNumbers
<1>5. IF n + 1 \notin Shard /\ job[x].stmt.op = "select"
      THEN reply' = [reply EXCEPT ![x] = Shown(tb)] ELSE reply' = reply
  <2>1. reply' = IF n + 1 \notin Shard /\ job[x].stmt.op = "select"
                 THEN [reply EXCEPT ![x] = Found(x)] ELSE reply
    BY <1>2 DEF ScanShard, Found
  <2>2. QED BY <1>4, <2>1
<1>6. policies' = policies /\ shards' = shards /\ held' = held /\ reply' = [y \in Txn |-> reply'[y]]
  BY <1>5 DEF engineVars, ScanShard, TableOK
<1>7. \A l \in Key, r \in Table : get(0, r, l)' = get(0, r, l) /\ Home(r, l)' = Home(r, l)
  BY <1>6, RowKept, StillKept DEF TableKept, Home, routeByKey
<1>8. /\ Locks' /\ WriterOK(x)' /\ ScanOK(x)' /\ SameStmt(x)
      /\ \A y \in Txn \ {x} : job'[y] = job[y]
  <2>1. CASE n + 1 \in Shard
    <3>1. Becomes(x, "scan", n + 1, job[x].keys, Found(x))
      BY <1>2, <2>1, ScanShardJob
    <3>2. Locks'
      BY <1>1, <1>3, <1>6, <3>1, LocksMove DEF TableOK
    <3>3. /\ job'[x].pc = "scan" /\ job'[x].rows = Found(x) /\ job'[x].next = n + 1
          /\ job'[x].table = tb /\ SameStmt(x) /\ \A y \in Txn \ {x} : job'[y] = job[y]
      BY <1>1, <3>1 DEF Becomes, SameStmt
    <3>4. ShownBelow(job[x].table, job[x].next)' = Found(x)
      <4>1. ShownBelow(tb, n + 1)' = ShownBelow(tb, n + 1)
        BY <1>6, ShownKept, StillKept
      <4>2. ShownBelow(job[x].table, job[x].next)' = ShownBelow(tb, n + 1)'
        BY <3>3
      <4>3. QED BY <1>3, <4>1, <4>2
    <3>5. ScanOK(x)' /\ WriterOK(x)'
      BY <3>3, <3>4 DEF ScanOK, WriterOK, Pending
    <3>6. QED BY <3>2, <3>3, <3>5
  <2>2. CASE n + 1 \notin Shard
    <3>1. PICK pc, keys : /\ pc = IF job[x].stmt.op = "select" THEN "commitTxn" ELSE "write"
                          /\ keys = {r.id : r \in Found(x)} \cap job[x].stmt.ids
                          /\ Becomes(x, pc, 0, keys, {})
      BY <1>2, <2>2, ScanShardJob
    <3>2. Locks'
      BY <1>1, <1>6, <3>1, LocksMove DEF TableOK, Writes
    <3>3. /\ job'[x].pc = pc /\ job'[x].keys = keys
          /\ job'[x].table = tb /\ SameStmt(x) /\ \A y \in Txn \ {x} : job'[y] = job[y]
      BY <1>1, <3>1 DEF Becomes, SameStmt
    <3>4. ScanOK(x)'
      BY <3>1, <3>3 DEF ScanOK
    <3>5. \A k \in Key : k \in keys <=> k \in job[x].stmt.ids /\ get(0, tb, k) # NoRow
      <4>1. {r.id : r \in Found(x)} = {k \in Key : [l \in Key |-> get(0, tb, l)][k] # NoRow}
        BY <1>4, <2>2, RowsOfIds DEF Shown
      <4>2. QED BY <3>1, <4>1
    <3>6. ASSUME NEW k \in Key
          PROVE  /\ k \in job'[x].keys <=> Wants(job[x], k)'
                 /\ ~Ends(x, Home(job[x].table, k))'
      <4>1. get(0, job[x].table, k)' = get(0, tb, k) /\ Home(job[x].table, k)' = Home(tb, k)
        BY <1>7, <3>3
      <4>2. Wants(job[x], k)' <=> k \in job[x].stmt.ids /\ get(0, tb, k) # NoRow
        BY <1>3, <3>3, <4>1 DEF Wants, SameStmt
      <4>3. ~MayStage(job[x], routeByKey(k))
        BY <1>1 DEF MayStage
      <4>4. ~Ends(x, Home(tb, k))
        BY <4>3, NotEnds
      <4>5. QED BY <3>3, <3>5, <4>1, <4>2, <4>4 DEF Ends
    <3>7. WriterOK(x)'
      BY <3>6 DEF WriterOK
    <3>8. QED BY <3>2, <3>3, <3>4, <3>7
  <2>3. QED BY <2>1, <2>2
<1>9. TableOK'
  BY <1>6, <1>8, StillKept, TableMoves
<1>10. QED BY <1>1, <1>2, <1>5, <1>9

-----------------------------------------------------------------------------
(* The write of a row.                                                     *)

RowVersion(x) ==
    NewVersion(x, job[x].stmt.op = "delete", IF job[x].stmt.op = "delete" THEN 0 ELSE job[x].stmt.c)

\* A version is added to a key on the shard it hashes to.
Wrote(tb, k, v) ==
    \A s \in Shard, r \in Table, l \in Key :
        shards'[s][r][l] = IF s = routeByKey(k) /\ r = tb /\ l = k THEN Append(Home(tb, k), v)
                           ELSE shards[s][r][l]

LEMMA StageWrote ==
    ASSUME StoreTypes, NEW x, NEW tb \in Table, NEW k \in Key, NEW dead, NEW c,
           Stage(routeByKey(k), x, tb, k, dead, c)
    PROVE  Wrote(tb, k, NewVersion(x, dead, c))
<1> DEFINE q == Append(shards[routeByKey(k)][tb][k], NewVersion(x, dead, c))
<1>1. PICK s \in Shard : s = routeByKey(k)
  BY KeyHashes
<1>2. shards' = [shards EXCEPT ![s] = [shards[s] EXCEPT ![tb] = [shards[s][tb] EXCEPT ![k] = q]]]
  BY <1>1 DEF Stage, NewVersion
<1>3. q = Append(Home(tb, k), NewVersion(x, dead, c))
  BY DEF Home
<1> HIDE DEF q
<1>4. QED BY <1>1, <1>2, <1>3 DEF Wrote, StoreTypes, Rows

LEMMA WriteRowExact ==
    ASSUME StoreInv, TableOK, keyed, NEW x \in Txn, NEW k, WriteRow(x, k)
    PROVE  /\ k \in Key /\ job[x].table \in Table /\ x # 0 /\ k \in job[x].keys
           /\ job[x].pc = "write" /\ Locked(job[x]) /\ Writes(job[x])
           /\ Wrote(job[x].table, k, RowVersion(x)) /\ Adds(job[x].table, k, RowVersion(x))
           /\ RowVersion(x) \in AnyVersion /\ UNCHANGED <<visible_seq, policies, held, reply>>
<1>1. /\ job[x].pc = "write" /\ k \in job[x].keys /\ Locked(job[x])
  BY DEF WriteRow, Locked
<1>2. x \in 1..next_id /\ JobOK(job[x]) /\ next_id \in Nat
  BY <1>1, JobBegun
<1>3. k \in Key /\ x # 0 /\ job[x].stmt.c \in {0, 1, MaxCol}
  BY <1>1, <1>2 DEF JobOK
<1>4. PICK tb \in Table : tb = job[x].table /\ Writes(job[x])
  BY <1>1 DEF TableOK, Locks, StmtOK
<1>5. UNCHANGED <<visible_seq, policies, held, reply>>
  BY DEF WriteRow, put, remove
<1>6. RowVersion(x) \in AnyVersion
  BY <1>3 DEF RowVersion, NewVersion, AnyVersion
<1>7. Stage(routeByKey(k), x, tb, k, job[x].stmt.op = "delete",
            IF job[x].stmt.op = "delete" THEN 0 ELSE job[x].stmt.c)
  <2>1. CASE job[x].stmt.op = "delete"
    BY <1>4, <2>1 DEF WriteRow, remove
  <2>2. CASE job[x].stmt.op # "delete"
    <3>1. put(x, tb, k, job[x].stmt.c)
      BY <1>4, <2>2 DEF WriteRow
    <3>2. PutKey(tb, k, job[x].stmt.c) = k /\ k # NullKey
      BY <1>3, KeyHashes DEF PutKey
    <3>3. KeyRouted(policies[tb]) /\ HashOf[k] \in Shard /\ NoShard \notin Shard
      BY <1>3, KeyHashes, ShardNumbers DEF TableOK, Routed, routeByKey, NoShard
    <3>4. putRoute(tb, k, job[x].stmt.c) = routeByKey(k)
      BY <3>2, <3>3 DEF KeyRouted, putRoute, routeByPolicy, routeByKey
    <3>5. Stage(routeByKey(k), x, tb, k, FALSE, job[x].stmt.c)
      BY <3>1, <3>2, <3>4 DEF put
    <3>6. QED BY <2>2, <3>5
  <2>3. QED BY <2>1, <2>2
<1>8. PICK d \in BOOLEAN, c \in {0, 1, MaxCol} :
         /\ d = (job[x].stmt.op = "delete")
         /\ c = IF job[x].stmt.op = "delete" THEN 0 ELSE job[x].stmt.c
  BY <1>3
<1>9. RowVersion(x) = NewVersion(x, d, c) /\ Stage(routeByKey(k), x, tb, k, d, c)
  BY <1>7, <1>8 DEF RowVersion
<1>10. Wrote(tb, k, RowVersion(x)) /\ Adds(tb, k, RowVersion(x))
  BY <1>3, <1>9, StageWrote, StageEffect DEF StoreInv
<1>11. QED BY <1>1, <1>3, <1>4, <1>5, <1>6, <1>10

Extends(ws, vs, v) ==
    /\ Len(ws) \in DOMAIN ws /\ ws[Len(ws)] = v /\ ws # <<>>
    /\ \A i \in DOMAIN ws : i = Len(ws) \/ (i \in DOMAIN vs /\ ws[i] = vs[i])

LEMMA AppendEnd ==
    ASSUME NEW vs \in Seq(AnyVersion), NEW v \in AnyVersion, NEW ws, ws = Append(vs, v)
    PROVE  Extends(ws, vs, v)
<1>1. /\ Len(ws) = Len(vs) + 1 /\ Len(vs) \in Nat /\ DOMAIN vs = 1..Len(vs)
      /\ DOMAIN ws = 1..(Len(vs) + 1)
  OBVIOUS
<1>2. ws[Len(vs) + 1] = v /\ \A i \in DOMAIN vs : ws[i] = vs[i]
  BY AppendElements
<1>3. Len(ws) \in DOMAIN ws /\ ws[Len(ws)] = v
  BY <1>1, <1>2
<1>4. ws # <<>>
  BY <1>1
<1>5. QED BY <1>1, <1>2, <1>3, <1>4 DEF Extends

LEMMA WriteRowTable ==
    ASSUME StoreInv, StoreInv', TableOK, keyed, NEW x \in Txn, NEW k, WriteRow(x, k)
    PROVE  /\ TableOK'
           /\ \A r \in Table, l \in Key : get(0, r, l)' = get(0, r, l)
<1>1. /\ k \in Key /\ x # 0 /\ k \in job[x].keys
      /\ job[x].pc = "write" /\ Locked(job[x]) /\ Writes(job[x])
      /\ UNCHANGED <<visible_seq, policies, held, reply>>
  BY WriteRowExact
<1>2. PICK tb \in Table, v \in AnyVersion :
         tb = job[x].table /\ v = RowVersion(x) /\ Wrote(tb, k, v) /\ Adds(tb, k, v)
  BY WriteRowExact
<1>3. /\ Becomes(x, "write", job[x].next, job[x].keys \ {k}, job[x].rows)
      /\ SameStmt(x) /\ job'[x].keys = job[x].keys \ {k} /\ job'[x].table = tb
      /\ \A y \in Txn \ {x} : job'[y] = job[y]
  BY <1>2, WriteRowJob DEF Becomes, SameStmt
<1>4. Locks'
  BY <1>1, <1>3, LocksMove DEF TableOK
<1>5. PICK vs \in Seq(AnyVersion) : vs = Home(tb, k)
  BY <1>1, HomeTyped
<1>6. PICK ws \in Seq(AnyVersion) : ws = Append(vs, v) /\ ws = Home(tb, k)'
  <2>1. PICK s \in Shard : s = routeByKey(k)
    BY <1>1, KeyHashes
  <2>2. shards'[s][tb][k] = Append(vs, v)
    BY <1>1, <1>2, <1>5, <2>1 DEF Wrote
  <2>3. Home(tb, k)' = Append(vs, v)
    BY <2>1, <2>2 DEF Home, routeByKey
  <2>4. QED BY <2>3, AppendElements
<1>a. /\ Len(ws) \in DOMAIN ws /\ ws[Len(ws)] = v /\ ws # <<>>
      /\ \A i \in DOMAIN ws : i = Len(ws) \/ (i \in DOMAIN vs /\ ws[i] = vs[i])
  <2>1. ws = Append(vs, v)
    BY <1>6
  <2>2. Extends(ws, vs, v)
    BY <2>1, AppendEnd
  <2>3. QED BY <2>2 DEF Extends
<1>7. /\ v.txn = x /\ v.seq = 0 /\ v.tombstone = (job[x].stmt.op = "delete")
      /\ ~v.tombstone => v.c = job[x].stmt.c
  BY <1>2 DEF RowVersion, NewVersion
<1>8. \A r \in Table, l \in Key : (r # tb \/ l # k) => KeyKept(r, l)
  BY <1>2 DEF Wrote, KeyKept
<1>9. \A r \in Table, l \in Key : get(0, r, l)' = get(0, r, l)
  BY <1>1, <1>2, <1>7, <1>8, RowKept, RowStaged
<1>10. Pending(job[x]) /\ WriterOK(x)
  BY <1>1 DEF Pending, TableOK
<1>11. ~Ends(x, vs) /\ Wants(job[x], k)
  BY <1>1, <1>2, <1>5, <1>10 DEF WriterOK
<1>12. \A i \in DOMAIN vs : vs[i].seq # 0
  BY <1>1, <1>2, <1>5, <1>11, OnlyOwn
<1>13. Placed(tb, k)'
  <2>1. \A s \in Shard : s # routeByKey(k) => shards'[s][tb][k] = <<>>
    BY <1>1, <1>2 DEF Wrote, TableOK, Placed
  <2>2. ASSUME NEW i \in DOMAIN ws, ws[i].seq = 0 PROVE i = Len(ws) /\ ws[i] = v
    BY <1>a, <1>12, <2>2
  <2>3. StagedOK(tb, v)'
    BY <1>1, <1>3, <1>7 DEF StagedOK, SameStmt, Writes
  <2>4. QED BY <1>6, <2>1, <2>2, <2>3 DEF Placed, routeByKey
<1>14. \A l \in Key : Placed(tb, l)'
  BY <1>3, <1>8, <1>13, PlacedKept DEF TableOK, SameStmt
<1>15. ASSUME NEW l \in Key
       PROVE  (/\ l \in job[x].keys => Wants(job[x], l)
               /\ Ends(x, Home(job[x].table, l)) <=> Wants(job[x], l) /\ l \notin job[x].keys)'
  <2>1. Wants(job[x], l)' <=> Wants(job[x], l)
    <3>1. get(0, tb, l)' = get(0, tb, l)
      BY <1>9
    <3>2. QED BY <1>2, <1>3, <3>1 DEF Wants, SameStmt
  <2>2. Home(job[x].table, l)' = Home(tb, l)'
    BY <1>3
  <2>3. CASE l = k
    <3>1. Ends(x, ws)
      BY <1>a, <1>7 DEF Ends, Staged
    <3>2. Ends(x, Home(job[x].table, l))'
      BY <1>6, <2>2, <2>3, <3>1 DEF Ends, Staged
    <3>3. QED BY <1>3, <1>11, <2>1, <2>3, <3>2
  <2>4. CASE l # k
    <3>1. Home(tb, l)' = Home(tb, l)
      BY <1>8, <2>4, KeyHashes DEF KeyKept, Home, routeByKey
    <3>2. Ends(x, Home(job[x].table, l))' <=> Ends(x, Home(job[x].table, l))
      BY <1>2, <2>2, <3>1 DEF Ends, Staged
    <3>3. QED BY <1>3, <1>10, <2>1, <2>4, <3>2 DEF WriterOK
  <2>5. QED BY <2>3, <2>4
<1>16. WriterOK(x)' /\ ScanOK(x)'
  BY <1>3, <1>15 DEF WriterOK, ScanOK, Becomes
<1>17. /\ policies' = policies /\ reply' = [y \in Txn |-> reply'[y]]
       /\ \A r \in Table : TableKept(r) \/ (Owns(x, r) /\ \A l \in Key : Placed(r, l)')
  BY <1>1, <1>2, <1>8, <1>14 DEF TableKept, Owns, TableOK
<1>18. TableOK'
  BY <1>3, <1>4, <1>16, <1>17, TableMoves
<1>19. QED BY <1>9, <1>18

-----------------------------------------------------------------------------
(* A turn of commit's or abort's loop.                                     *)

\* What is left when the staged versions of x are the last.
LEMMA UnstagedFront ==
    ASSUME NEW x, NEW s, NEW n \in Nat, {i \in DOMAIN s : ~Staged(x, s[i])} = 1..n
    PROVE  Unstaged(x, s) = [i \in 1..n |-> s[i]]
<1> DEFINE left == {i \in DOMAIN s : ~Staged(x, s[i])}
           UpTo(i) == {j \in left : j <= i}
           Place(m) == CHOOSE i \in left : Cardinality(UpTo(i)) = m
<1>1. Unstaged(x, s) = [m \in 1..Cardinality(left) |-> s[Place(m)]]
  BY DEF Unstaged
<1>2. left = 1..n
  OBVIOUS
<1> HIDE DEF left
<1>3. Cardinality(left) = n
  BY <1>2, CountUpTo
<1>4. ASSUME NEW i \in 1..n PROVE Cardinality(UpTo(i)) = i
  <2>1. UpTo(i) = 1..i /\ i \in Nat
    BY <1>2
  <2> HIDE DEF UpTo
  <2>2. QED BY <2>1, CountUpTo
<1>5. ASSUME NEW m \in 1..n PROVE Place(m) = m
  <2> HIDE DEF UpTo
  <2>1. \E i \in left : Cardinality(UpTo(i)) = m
    BY <1>2, <1>4
  <2>2. Place(m) \in left /\ Cardinality(UpTo(Place(m))) = m
    BY <2>1
  <2> HIDE DEF Place
  <2>3. QED BY <1>2, <1>4, <2>2
<1> HIDE DEF Place
<1>6. QED BY <1>1, <1>3, <1>5

LEMMA UnstagedAppend ==
    ASSUME NEW x, NEW ws \in Seq(AnyVersion), NEW v \in AnyVersion, Staged(x, v),
           \A i \in DOMAIN ws : ~Staged(x, ws[i])
    PROVE  Unstaged(x, Append(ws, v)) = ws
<1>0. PICK n \in Nat : n = Len(ws)
  OBVIOUS
<1>1. PICK s : s = Append(ws, v) /\ n = Len(ws)
  BY <1>0
<1>2. DOMAIN s = 1..(n + 1) /\ s[n + 1] = v /\ \A i \in 1..n : s[i] = ws[i] /\ ~Staged(x, s[i])
  BY <1>1, AppendElements
<1>3. {i \in DOMAIN s : ~Staged(x, s[i])} = 1..n
  <2>1. \A i \in DOMAIN s : i \in 1..n \/ i = n + 1
    BY <1>2
  <2>2. 1..n \subseteq DOMAIN s
    BY <1>2
  <2>3. ~(~Staged(x, s[n + 1])) /\ n + 1 \notin 1..n
    BY <1>2
  <2>4. QED BY <1>2, <2>1, <2>2, <2>3
<1>4. Unstaged(x, s) = [i \in 1..n |-> s[i]]
  BY <1>3, UnstagedFront
<1>5. [i \in 1..n |-> s[i]] = ws
  BY <1>1, <1>2
<1>6. QED BY <1>1, <1>4, <1>5

\* x goes on to the next shard: on this one what it has staged is committed or
\* gone, and nothing else has changed.
Turn(x) ==
    /\ job[x].pc \in {"stamp", "abort"} /\ job' = [job EXCEPT ![x] = NextTurn(x)]
    /\ UNCHANGED <<held, reply, policies>>
    /\ \A s \in Shard, tb \in Table, k \in Key :
          s # job[x].next \/ (\A i \in DOMAIN shards[s][tb][k] : ~Staged(x, shards[s][tb][k][i])) =>
              shards'[s][tb][k] = shards[s][tb][k]
    /\ \A s \in Shard, tb \in Table, k \in Key :
          s = job[x].next =>
              \A i \in DOMAIN shards'[s][tb][k] : shards'[s][tb][k][i].seq = 0 =>
                  \E j \in DOMAIN shards[s][tb][k] :
                      shards[s][tb][k][j].seq = 0 /\ ~Staged(x, shards[s][tb][k][j])

\* A turn changes no key but those x has staged, in its own table.
LEMMA TurnLeaves ==
    ASSUME StoreInv, TableOK, NEW x \in Txn, Turn(x), NEW tb \in Table, NEW k \in Key,
           \/ routeByKey(k) # job[x].next \/ ~Writes(job[x]) \/ job[x].table # tb
           \/ ~Ends(x, Home(tb, k))
    PROVE  KeyKept(tb, k)
<1> SUFFICES ASSUME NEW s \in Shard PROVE shards'[s][tb][k] = shards[s][tb][k]
  BY DEF KeyKept
<1>1. CASE s # job[x].next
  BY <1>1 DEF Turn
<1>2. CASE s # routeByKey(k)
  <2>1. shards[s][tb][k] = <<>>
    BY <1>2 DEF TableOK, Placed
  <2>2. \A i \in DOMAIN shards[s][tb][k] : ~Staged(x, shards[s][tb][k][i])
    BY <2>1
  <2>3. QED BY <2>2 DEF Turn
<1>3. CASE s = routeByKey(k) /\ s = job[x].next
  <2>1. ASSUME NEW i \in DOMAIN Home(tb, k) PROVE ~Staged(x, Home(tb, k)[i])
    <3> SUFFICES ASSUME Home(tb, k)[i].seq = 0, x = Home(tb, k)[i].txn PROVE FALSE
      BY DEF Staged
    <3>1. Writes(job[x]) /\ job[x].table = tb /\ Ends(x, Home(tb, k))
      BY StagedOwner
    <3>2. QED BY <1>3, <3>1
  <2>2. \A i \in DOMAIN shards[s][tb][k] : ~Staged(x, shards[s][tb][k][i])
    BY <1>3, <2>1 DEF Home
  <2>3. QED BY <2>2 DEF Turn
<1>4. QED BY <1>1, <1>2, <1>3

LEMMA TurnTable ==
    ASSUME StoreInv, StoreInv', TableOK, NEW x \in Txn, Turn(x)
    PROVE  TableOK'
<1>1. /\ job[x].pc \in {"stamp", "abort"} /\ Locked(job[x])
      /\ UNCHANGED <<held, reply, policies>>
  BY DEF Turn, Locked
<1>2. PICK tb \in Table : tb = job[x].table
  BY <1>1 DEF TableOK, Locks, StmtOK
<1>3. PICK n \in Shard : n = job[x].next /\ n \in Nat
  BY ShardNumbers DEF StoreInv, Jobs, JobOK
<1>4. PICK pc, m : /\ Becomes(x, pc, m, job[x].keys, job[x].rows)
                   /\ pc = "release" \/ (pc = job[x].pc /\ m = n + 1)
  BY <1>1, <1>3, NextTurnJob DEF Turn
<1>5. /\ pc \in {"stamp", "abort", "release"} /\ (pc \in {"seq", "stamp"} /\ Writes(job[x]) => job[x].keys = {})
      /\ (pc = "commitTxn" => ~Writes(job[x])) /\ (pc \in {"write", "abort"} => Writes(job[x]))
  BY <1>1, <1>4 DEF TableOK, Locks, StmtOK
<1>6. Locks'
  BY <1>1, <1>4, <1>5, LocksMove DEF TableOK
<1>7. /\ SameStmt(x) /\ \A y \in Txn \ {x} : job'[y] = job[y]
      /\ ~Pending(job'[x]) /\ job'[x].pc # "scan"
  <2>1. n + 1 # 0
    BY <1>3
  <2>2. QED BY <1>3, <1>4, <1>5, <2>1 DEF Becomes, SameStmt, Pending
<1>8. WriterOK(x)' /\ ScanOK(x)'
  BY <1>7 DEF WriterOK, ScanOK
<1>9. ASSUME NEW k \in Key PROVE Placed(tb, k)'
  <2>1. CASE KeyKept(tb, k)
    BY <1>7, <2>1, PlacedKept DEF TableOK, SameStmt
  <2>2. CASE ~KeyKept(tb, k)
    <3>1. routeByKey(k) = n
      BY <1>3, <2>2, TurnLeaves
    <3>2. ASSUME NEW i \in DOMAIN shards'[n][tb][k], shards'[n][tb][k][i].seq = 0 PROVE FALSE
      <4>1. PICK j \in DOMAIN shards[n][tb][k] :
               shards[n][tb][k][j].seq = 0 /\ ~Staged(x, shards[n][tb][k][j])
        BY <1>3, <3>2 DEF Turn
      <4>2. j \in DOMAIN Home(tb, k) /\ Home(tb, k)[j].seq = 0 /\ ~Staged(x, Home(tb, k)[j])
        BY <3>1, <4>1 DEF Home
      <4>3. Home(tb, k)[j].txn = x
        BY <1>1, <1>2, <4>2, OnlyOwn
      <4>4. QED BY <4>2, <4>3 DEF Staged
    <3>3. ASSUME NEW s \in Shard, s # routeByKey(k) PROVE shards'[s][tb][k] = <<>>
      BY <1>3, <3>1, <3>3 DEF TableOK, Placed, Turn
    <3>4. Home(tb, k)' = shards'[n][tb][k]
      BY <3>1 DEF Home, routeByKey
    <3>5. QED BY <3>2, <3>3, <3>4 DEF Placed, routeByKey
  <2>3. QED BY <2>1, <2>2
<1>10. ASSUME NEW r \in Table PROVE TableKept(r) \/ (Owns(x, r) /\ \A k \in Key : Placed(r, k)')
  <2>1. CASE Writes(job[x]) /\ r = tb
    BY <1>1, <1>2, <1>9, <2>1 DEF Owns
  <2>2. CASE ~Writes(job[x]) \/ r # tb
    BY <1>2, <2>2, TurnLeaves DEF TableKept
  <2>3. QED BY <2>1, <2>2
<1>11. policies' = policies /\ reply' = [y \in Txn |-> reply'[y]]
  BY <1>1 DEF TableOK
<1>12. QED BY <1>6, <1>7, <1>8, <1>10, <1>11, TableMoves

LEMMA StampKeepsRest ==
    ASSUME NEW x, NEW q, NEW vs \in Seq(AnyVersion), \A i \in DOMAIN vs : ~Staged(x, vs[i])
    PROVE  StampedList(x, q, vs) = vs
<1>1. StampedList(x, q, vs) = [i \in DOMAIN vs |-> vs[i]]
  BY DEF StampedList
<1>2. [i \in DOMAIN vs |-> vs[i]] = vs
  OBVIOUS
<1>3. QED BY <1>1, <1>2

\* commit stamps what x has staged on the shard.
LEMMA StampTurn ==
    ASSUME StoreInv, NEW x \in Txn, StampShard(x)
    PROVE  /\ Turn(x) /\ job[x].pc = "stamp"
           /\ \A tb \in Table, k \in Key : routeByKey(k) = job[x].next =>
                 \E q \in Nat : Home(tb, k)' = StampedList(x, q, Home(tb, k))
<1>1. PICK n, q : n = job[x].next /\ q = job[x].seq
  OBVIOUS
<1>2. /\ job[x].pc = "stamp" /\ commitChild(n, x, q) /\ n \in Shard /\ q \in Nat /\ q > 0
      /\ job' = [job EXCEPT ![x] = NextTurn(x)]
  BY <1>1, StampShardFacts
<1>3. \A s \in Shard, tb \in Table, k \in Key :
         shards'[s][tb][k] = IF s = n THEN StampedList(x, q, shards[s][tb][k]) ELSE shards[s][tb][k]
  BY <1>2, CommitEffect DEF StoreInv
<1>4. UNCHANGED <<held, reply, policies>>
  BY DEF StampShard, commitChild
<1>5. ASSUME NEW s \in Shard, NEW tb \in Table, NEW k \in Key
      PROVE  /\ s # n \/ (\A i \in DOMAIN shards[s][tb][k] : ~Staged(x, shards[s][tb][k][i])) =>
                  shards'[s][tb][k] = shards[s][tb][k]
             /\ s = n => \A i \in DOMAIN shards'[s][tb][k] : shards'[s][tb][k][i].seq = 0 =>
                            \E j \in DOMAIN shards[s][tb][k] :
                                shards[s][tb][k][j].seq = 0 /\ ~Staged(x, shards[s][tb][k][j])
  <2>1. PICK vs, ws : /\ vs \in Seq(AnyVersion) /\ vs = shards[s][tb][k] /\ ws = shards'[s][tb][k]
                      /\ ws = IF s = n THEN StampedList(x, q, vs) ELSE vs
    BY <1>3, VersionsTyped DEF StoreInv
  <2>2. (\A i \in DOMAIN vs : ~Staged(x, vs[i])) => ws = vs
    BY <2>1, StampKeepsRest
  <2>3. ASSUME s = n, NEW i \in DOMAIN ws, ws[i].seq = 0
        PROVE  i \in DOMAIN vs /\ vs[i].seq = 0 /\ ~Staged(x, vs[i])
    <3>1. i \in DOMAIN vs /\ ws[i] = IF Staged(x, vs[i]) THEN [vs[i] EXCEPT !.seq = q] ELSE vs[i]
      BY <2>1, <2>3 DEF StampedList
    <3>2. vs[i] \in AnyVersion
      BY <2>1, <3>1
    <3>3. CASE Staged(x, vs[i])
      BY <1>2, <2>3, <3>1, <3>2, <3>3 DEF AnyVersion
    <3>4. CASE ~Staged(x, vs[i])
      BY <2>3, <3>1, <3>4
    <3>5. QED BY <3>3, <3>4
  <2>4. QED BY <2>1, <2>2, <2>3
<1>6. Turn(x)
  BY <1>1, <1>2, <1>4, <1>5 DEF Turn
<1>7. ASSUME NEW tb \in Table, NEW k \in Key, routeByKey(k) = n
      PROVE  Home(tb, k)' = StampedList(x, q, Home(tb, k))
  BY <1>2, <1>3, <1>7 DEF Home, routeByKey
<1>8. QED BY <1>1, <1>2, <1>6, <1>7

\* abort drops what x has staged on the shard.
LEMMA AbortTurn ==
    ASSUME StoreInv, NEW x \in Txn, AbortShard(x), UNCHANGED program
    PROVE  /\ Turn(x) /\ job[x].pc = "abort"
           /\ \A tb \in Table, k \in Key : routeByKey(k) = job[x].next =>
                 Home(tb, k)' = Unstaged(x, Home(tb, k))
<1>1. PICK n : n = job[x].next
  OBVIOUS
<1>2. /\ job[x].pc = "abort" /\ abortChild(n, x) /\ n \in Shard
      /\ job' = [job EXCEPT ![x] = NextTurn(x)]
  BY <1>1, AbortShardFacts DEF JobMoves
<1>3. \A s \in Shard, tb \in Table, k \in Key :
         shards'[s][tb][k] = IF s = n THEN Unstaged(x, shards[s][tb][k]) ELSE shards[s][tb][k]
  BY <1>2, AbortEffect DEF StoreInv
<1>4. UNCHANGED <<held, reply, policies>>
  BY DEF AbortShard, abortChild
<1>5. ASSUME NEW s \in Shard, NEW tb \in Table, NEW k \in Key
      PROVE  /\ s # n \/ (\A i \in DOMAIN shards[s][tb][k] : ~Staged(x, shards[s][tb][k][i])) =>
                  shards'[s][tb][k] = shards[s][tb][k]
             /\ s = n => \A i \in DOMAIN shards'[s][tb][k] : shards'[s][tb][k][i].seq = 0 =>
                            \E j \in DOMAIN shards[s][tb][k] :
                                shards[s][tb][k][j].seq = 0 /\ ~Staged(x, shards[s][tb][k][j])
  <2>1. PICK vs, ws : /\ vs \in Seq(AnyVersion) /\ vs = shards[s][tb][k] /\ ws = shards'[s][tb][k]
                      /\ ws = IF s = n THEN Unstaged(x, vs) ELSE vs
    BY <1>3, VersionsTyped DEF StoreInv
  <2>2. (\A i \in DOMAIN vs : ~Staged(x, vs[i])) => ws = vs
    BY <2>1, UnstagedIsLeft
  <2>3. ASSUME s = n, NEW i \in DOMAIN ws, ws[i].seq = 0
        PROVE  \E j \in DOMAIN vs : vs[j].seq = 0 /\ ~Staged(x, vs[j])
    BY <2>1, <2>3, UnstagedIsLeft
  <2>4. QED BY <2>1, <2>2, <2>3
<1>6. Turn(x)
  BY <1>1, <1>2, <1>4, <1>5 DEF Turn
<1>7. ASSUME NEW tb \in Table, NEW k \in Key, routeByKey(k) = n
      PROVE  Home(tb, k)' = Unstaged(x, Home(tb, k))
  BY <1>2, <1>3, <1>7 DEF Home, routeByKey
<1>8. QED BY <1>1, <1>2, <1>6, <1>7

-----------------------------------------------------------------------------
(* What the steps do to the rows of a table: those of the commit that has  *)
(* begun to stamp the shards, if there is one, and else the committed ones.*)

CommitsAt(j, tb) == j.table = tb /\ j.pc = "stamp" /\ j.next > 0
Committing(tb) == \E x \in Txn : CommitsAt(job[x], tb)
Current(tb, k) == IF Committing(tb) THEN TopRow(Home(tb, k)) ELSE get(0, tb, k)

\* What the statement of x makes of a row.
NewRow(x, k, old) ==
    IF k \in job[x].stmt.ids /\ (job[x].stmt.op = "insert" \/ old # NoRow)
    THEN IF job[x].stmt.op = "delete" THEN NoRow ELSE [txn |-> x, c |-> job[x].stmt.c]
    ELSE old

RowsStay == \A tb \in Table, k \in Key : Current(tb, k)' = Current(tb, k)
RowsChange(x) ==
    /\ Writes(job[x]) /\ Locked(job[x]) /\ x # 0
    /\ \A tb \in Table, k \in Key :
          Current(tb, k)' = IF tb = job[x].table THEN NewRow(x, k, Current(tb, k))
                            ELSE Current(tb, k)

LEMMA CurrentTop ==
    ASSUME StoreInv, NEW tb \in Table, NEW k \in Key, \A i \in DOMAIN Home(tb, k) : Home(tb, k)[i].seq # 0
    PROVE  get(0, tb, k) = TopRow(Home(tb, k)) /\ Current(tb, k) = TopRow(Home(tb, k))
<1>1. PICK s \in Shard : s = routeByKey(k)
  BY KeyHashes
<1>2. childGet(s, 0, tb, k) = TopRow(shards[s][tb][k])
  BY <1>1, SeesTop DEF Home
<1>3. QED BY <1>1, <1>2 DEF get, Home, Current

\* A table on which somebody is at work and has nothing staged of a key.
LEMMA CurrentLocked ==
    ASSUME StoreInv, TableOK, NEW x \in Txn, NEW tb \in Table, NEW k \in Key, Locked(job[x]),
           job[x].table = tb, ~Ends(x, Home(tb, k))
    PROVE  /\ \A i \in DOMAIN Home(tb, k) : Home(tb, k)[i].seq # 0
           /\ get(0, tb, k) = TopRow(Home(tb, k)) /\ Current(tb, k) = TopRow(Home(tb, k))
<1>1. \A i \in DOMAIN Home(tb, k) : Home(tb, k)[i].seq # 0
  BY OnlyOwn
<1>2. QED BY <1>1, CurrentTop

LEMMA NotCommitting ==
    ASSUME TableOK, NEW x \in Txn, NEW tb \in Table, Owns(x, tb), ~CommitsAt(job[x], tb)
    PROVE  ~Committing(tb)
<1> SUFFICES ASSUME NEW y \in Txn, CommitsAt(job[y], tb) PROVE FALSE
  BY DEF Committing
<1>1. Locked(job[y])
  BY DEF CommitsAt, Locked
<1>2. y = x
  BY <1>1, WriterAlone DEF CommitsAt, Owns, TableOK
<1>3. QED BY <1>2

LEMMA CommittingKept ==
    ASSUME NEW x \in Txn, \A y \in Txn \ {x} : job'[y] = job[y], NEW tb,
           CommitsAt(job'[x], tb) <=> CommitsAt(job[x], tb)
    PROVE  Committing(tb)' <=> Committing(tb)
<1>1. \A y \in Txn : CommitsAt(job[y], tb)' <=> CommitsAt(job[y], tb)
  BY DEF CommitsAt
<1>2. QED BY <1>1 DEF Committing

\* A key nobody has touched keeps its row.
LEMMA CurrentKept ==
    ASSUME StoreInv, StoreInv', NEW x \in Txn, \A y \in Txn \ {x} : job'[y] = job[y],
           NEW tb \in Table, NEW k \in Key, KeyKept(tb, k),
           CommitsAt(job'[x], tb) <=> CommitsAt(job[x], tb)
    PROVE  Current(tb, k)' = Current(tb, k)
<1>1. Committing(tb)' <=> Committing(tb)
  BY CommittingKept
<1>2. get(0, tb, k)' = get(0, tb, k)
  BY RowKept
<1>3. Home(tb, k)' = Home(tb, k)
  BY KeyHashes DEF KeyKept, Home, routeByKey
<1>4. TopRow(Home(tb, k))' = TopRow(Home(tb, k))
  BY <1>3 DEF TopRow
<1>5. QED BY <1>1, <1>2, <1>4 DEF Current

\* A statement that is not at the loop of its commit, before nor after.
LEMMA RowsStayWith ==
    ASSUME StoreInv, StoreInv', NEW x \in Txn, \A y \in Txn \ {x} : job'[y] = job[y],
           shards' = shards, job[x].pc # "stamp", job'[x].pc = "stamp" => job'[x].next = 0
    PROVE  RowsStay
<1>1. \A tb \in Table : ~CommitsAt(job[x], tb) /\ ~CommitsAt(job'[x], tb)
  BY DEF CommitsAt
<1>2. \A tb \in Table, k \in Key : KeyKept(tb, k)
  BY StillKept DEF TableKept
<1>3. QED BY <1>1, <1>2, CurrentKept DEF RowsStay

LEMMA BeginRows ==
    ASSUME StoreInv, StoreInv', TableOK, keyed, NEW tb \in Table, NEW st \in Statement,
           Begin(tb, st), UNCHANGED engineVars
    PROVE  RowsStay /\ reply' = reply
<1>1. /\ NewTxn \in Txn /\ job[NewTxn].pc = "idle" /\ job'[NewTxn].pc = "lock"
      /\ \A y \in Txn \ {NewTxn} : job'[y] = job[y]
  BY BeginLocks DEF TableOK
<1>2. PICK x \in Txn : x = NewTxn
  BY <1>1
<1>3. reply' = reply /\ shards' = shards
  BY DEF engineVars, Begin
<1>4. QED BY <1>1, <1>2, <1>3, RowsStayWith

LEMMA QuietRows ==
    ASSUME StoreInv, StoreInv', TableOK, NEW x \in Txn, UNCHANGED engineVars,
           \/ LockTable(x) \/ ScanShard(x) \/ CommitTxn(x) \/ ReadSeq(x) \/ Rollback(x)
           \/ Release(x) \/ Invalidate(x)
    PROVE  RowsStay
<1>1. JobOK(job[x]) /\ shards' = shards
  BY DEF StoreInv, Jobs, engineVars
<1>2. job[x].pc # "stamp"
  BY <1>1 DEF LockTable, ScanShard, CommitTxn, Written, ReadSeq, Rollback, Release, Invalidate, JobOK
<1>3. (\A y \in Txn \ {x} : job'[y] = job[y]) /\ (job'[x].pc = "stamp" => job'[x].next = 0)
  <2>1. CASE LockTable(x)
    BY <2>1, LockTableJob DEF Becomes
  <2>2. CASE ScanShard(x)
    BY <2>2, ScanShardJob DEF Becomes
  <2>3. CASE ReadSeq(x)
    <3>1. job[x].next = 0
      BY <1>1, <2>3 DEF ReadSeq, JobOK
    <3>2. QED BY <2>3, <3>1, MovesOnlyPc DEF Becomes
  <2>4. CASE CommitTxn(x) \/ Rollback(x) \/ Invalidate(x)
    BY <1>2, <2>4, MovesOnlyPc DEF Becomes
  <2>5. CASE Release(x)
    BY <2>5, ReleaseLocks DEF Locked, TableOK
  <2>6. QED BY <2>1, <2>2, <2>3, <2>4, <2>5
<1>4. QED BY <1>1, <1>2, <1>3, RowsStayWith

LEMMA WriteRowRows ==
    ASSUME StoreInv, StoreInv', TableOK, keyed, NEW x \in Txn, NEW k, WriteRow(x, k)
    PROVE  RowsStay
<1>1. /\ k \in Key /\ job[x].pc = "write" /\ Locked(job[x]) /\ Writes(job[x])
  BY WriteRowExact
<1>2. PICK tb \in Table : tb = job[x].table /\ Wrote(tb, k, RowVersion(x))
  BY WriteRowExact
<1>3. job'[x].pc = "write" /\ \A y \in Txn \ {x} : job'[y] = job[y]
  BY WriteRowJob DEF Becomes
<1>4. \A r \in Table : ~CommitsAt(job[x], r) /\ ~CommitsAt(job'[x], r)
  BY <1>1, <1>3 DEF CommitsAt
<1>5. ASSUME NEW r \in Table, NEW l \in Key PROVE Current(r, l)' = Current(r, l)
  <2>1. CASE r # tb
    <3>1. KeyKept(r, l)
      BY <1>2, <2>1 DEF Wrote, KeyKept
    <3>2. QED BY <1>3, <1>4, <3>1, CurrentKept
  <2>2. CASE r = tb
    <3>1. ~Committing(tb)
      BY <1>1, <1>2, <1>4, NotCommitting DEF Owns
    <3>2. ~Committing(tb)'
      BY <1>3, <1>4, <3>1, CommittingKept
    <3>3. get(0, r, l)' = get(0, r, l)
      BY WriteRowTable
    <3>4. QED BY <2>2, <3>1, <3>2, <3>3 DEF Current
  <2>3. QED BY <2>1, <2>2
<1>6. QED BY <1>5 DEF RowsStay

\* The last two facts about a row, also after a step.
LEMMA RowFacts ==
    StoreInv => \A tb \in Table, k \in Key :
        (\A i \in DOMAIN Home(tb, k) : Home(tb, k)[i].seq # 0) =>
            get(0, tb, k) = TopRow(Home(tb, k)) /\ Current(tb, k) = TopRow(Home(tb, k))
BY CurrentTop

LEMMA RowFactsNext ==
    StoreInv' => (\A tb \in Table, k \in Key :
        (\A i \in DOMAIN Home(tb, k) : Home(tb, k)[i].seq # 0) =>
            get(0, tb, k) = TopRow(Home(tb, k)) /\ Current(tb, k) = TopRow(Home(tb, k)))'
BY RowFacts, PTL

LEMMA LockFacts ==
    StoreInv /\ TableOK => \A x \in Txn, tb \in Table, k \in Key :
        Locked(job[x]) /\ job[x].table = tb /\ ~MayStage(job[x], routeByKey(k)) =>
            Current(tb, k) = TopRow(Home(tb, k))
BY CurrentLocked, NotEnds

LEMMA LockFactsNext ==
    StoreInv' /\ TableOK' => (\A x \in Txn, tb \in Table, k \in Key :
        Locked(job[x]) /\ job[x].table = tb /\ ~MayStage(job[x], routeByKey(k)) =>
            Current(tb, k) = TopRow(Home(tb, k)))'
BY LockFacts, PTL

LEMMA LastOf ==
    ASSUME NEW vs \in Seq(AnyVersion), vs # <<>>
    PROVE  /\ vs[Len(vs)] \in AnyVersion /\ Len(vs) \in DOMAIN vs
           /\ \E ws \in Seq(AnyVersion) :
                 /\ vs = Append(ws, vs[Len(vs)])
                 /\ \A i \in DOMAIN ws : ws[i] = vs[i] /\ i \in DOMAIN vs /\ i # Len(vs)
<1>1. PICK n \in Nat : n + 1 = Len(vs)
  <2>1. Len(vs) \in Nat /\ Len(vs) # 0
    OBVIOUS
  <2>2. Len(vs) - 1 \in Nat /\ (Len(vs) - 1) + 1 = Len(vs)
    BY <2>1
  <2>3. QED BY <2>2
<1>2. PICK ws : ws = [i \in 1..n |-> vs[i]]
  OBVIOUS
<1>3. DOMAIN vs = 1..(n + 1) /\ \A i \in 1..(n + 1) : vs[i] \in AnyVersion
  BY <1>1
<1>4. ws \in Seq(AnyVersion) /\ Len(ws) = n
  BY <1>2, <1>3
<1>5. vs = Append(ws, vs[n + 1])
  <2>1. PICK v \in AnyVersion : v = vs[n + 1]
    BY <1>3
  <2>2. /\ DOMAIN Append(ws, v) = 1..(n + 1) /\ Append(ws, v)[n + 1] = v
        /\ \A i \in 1..n : Append(ws, v)[i] = ws[i]
    BY <1>4, AppendElements
  <2>3. Append(ws, v) \in Seq(AnyVersion)
    BY <1>4, AppendElements
  <2>4. \A i \in 1..(n + 1) : Append(ws, v)[i] = vs[i]
    BY <1>2, <2>1, <2>2
  <2>5. Append(ws, v) = vs
    BY <1>1, <1>3, <2>2, <2>3, <2>4
  <2>6. QED BY <2>1, <2>5
<1>6. \A i \in DOMAIN ws : ws[i] = vs[i] /\ i \in DOMAIN vs /\ i # n + 1
  BY <1>2, <1>3
<1>7. QED BY <1>1, <1>3, <1>4, <1>5, <1>6

LEMMA AbortShardRows ==
    ASSUME StoreInv, StoreInv', TableOK, NEW x \in Txn, AbortShard(x), UNCHANGED program
    PROVE  TableOK' /\ RowsStay /\ reply' = reply
<1>1. Turn(x) /\ job[x].pc = "abort"
  BY AbortTurn
<1>2. TableOK' /\ reply' = reply
  BY <1>1, TurnTable DEF Turn
<1>3. job'[x].pc # "stamp" /\ \A y \in Txn \ {x} : job'[y] = job[y]
  BY <1>1, NextTurnJob DEF Turn, Becomes
<1>4. \A r \in Table : ~CommitsAt(job[x], r) /\ ~CommitsAt(job'[x], r)
  BY <1>1, <1>3 DEF CommitsAt
<1>5. Locked(job[x]) /\ x # 0
  BY <1>1, JobBegun DEF Locked
<1>6. ASSUME NEW tb \in Table, NEW k \in Key PROVE Current(tb, k)' = Current(tb, k)
  <2>1. CASE KeyKept(tb, k)
    BY <1>3, <1>4, <2>1, CurrentKept
  <2>2. CASE ~KeyKept(tb, k)
    <3>1. routeByKey(k) = job[x].next /\ Writes(job[x]) /\ job[x].table = tb /\ Ends(x, Home(tb, k))
      BY <1>1, <2>2, TurnLeaves
    <3>2. PICK vs \in Seq(AnyVersion) : vs = Home(tb, k) /\ vs # <<>> /\ Staged(x, vs[Len(vs)])
      BY <3>1, HomeTyped DEF Ends
    <3>3. PICK v \in AnyVersion, ws \in Seq(AnyVersion) :
             /\ v = vs[Len(vs)] /\ vs = Append(ws, v)
             /\ \A i \in DOMAIN ws : ws[i] = vs[i] /\ i \in DOMAIN vs /\ i # Len(vs)
      BY <3>2, LastOf
    <3>4. \A i \in DOMAIN ws : ws[i].seq # 0
      BY <3>2, <3>3 DEF TableOK, Placed
    <3>5. v.seq = 0 /\ v.txn = x /\ \A i \in DOMAIN ws : ~Staged(x, ws[i])
      BY <3>2, <3>3, <3>4 DEF Staged
    <3>6. PICK s \in Shard : s = routeByKey(k)
      BY KeyHashes
    <3>7. childGet(s, 0, tb, k) = TopRow(ws)
      BY <1>5, <3>2, <3>3, <3>4, <3>5, <3>6, SeesFront DEF Home
    <3>8. get(0, tb, k) = TopRow(ws)
      BY <3>6, <3>7 DEF get
    <3>9. Home(tb, k)' = ws
      <4>1. Home(tb, k)' = Unstaged(x, vs)
        BY <3>1, <3>2, AbortTurn
      <4>2. Unstaged(x, Append(ws, v)) = ws
        BY <3>2, <3>3, <3>5, UnstagedAppend
      <4>3. QED BY <3>3, <4>1, <4>2
    <3>10. get(0, tb, k)' = TopRow(Home(tb, k))'
      BY <3>4, <3>9, RowFactsNext
    <3>11. get(0, tb, k)' = TopRow(ws)
      BY <3>9, <3>10 DEF TopRow
    <3>12. ~Committing(tb)
      BY <1>4, <1>5, <3>1, NotCommitting DEF Owns
    <3>13. ~Committing(tb)'
      BY <1>3, <1>4, <3>12, CommittingKept
    <3>14. QED BY <3>8, <3>11, <3>12, <3>13 DEF Current
  <2>3. QED BY <2>1, <2>2
<1>7. QED BY <1>2, <1>6 DEF RowsStay

LEMMA StampedTop ==
    ASSUME NEW x, NEW q, NEW vs \in Seq(AnyVersion)
    PROVE  TopRow(StampedList(x, q, vs)) = TopRow(vs)
<1>1. PICK ws : /\ ws = StampedList(x, q, vs)
                /\ ws = [i \in DOMAIN vs |->
                            IF Staged(x, vs[i]) THEN [vs[i] EXCEPT !.seq = q] ELSE vs[i]]
  BY DEF StampedList
<1>2. CASE vs = <<>>
  <2>1. ws = <<>>
    BY <1>1, <1>2
  <2>2. QED BY <1>1, <1>2, <2>1
<1>3. CASE vs # <<>>
  <2>1. PICK n \in DOMAIN vs : n = Len(vs) /\ vs[n] \in AnyVersion
    BY <1>3, LastOf
  <2>2. Len(ws) = n /\ ws # <<>>
    <3>1. DOMAIN ws = 1..Len(vs) /\ Len(vs) \in Nat /\ n \in DOMAIN ws
      BY <1>1, <2>1
    <3>2. Len(ws) = Len(vs)
      BY <1>1, <3>1
    <3>3. QED BY <2>1, <3>1, <3>2
  <2>3. ws[n] = IF Staged(x, vs[n]) THEN [vs[n] EXCEPT !.seq = q] ELSE vs[n]
    BY <1>1, <2>1
  <2>4. ws[n].tombstone = vs[n].tombstone /\ ws[n].txn = vs[n].txn /\ ws[n].c = vs[n].c
    BY <2>1, <2>3 DEF AnyVersion
  <2>5. QED BY <1>1, <1>3, <2>1, <2>2, <2>4 DEF TopRow
<1>4. QED BY <1>2, <1>3

LEMMA StampShardRows ==
    ASSUME StoreInv, StoreInv', TableOK, NEW x \in Txn, StampShard(x)
    PROVE  TableOK' /\ (RowsStay \/ RowsChange(x)) /\ reply' = reply
<1>1. Turn(x) /\ job[x].pc = "stamp"
  BY StampTurn
<1>2. TableOK' /\ reply' = reply
  BY <1>1, TurnTable DEF Turn
<1>3. Locked(job[x]) /\ x # 0
  BY <1>1, JobBegun DEF Locked
<1>4. PICK tb \in Table : tb = job[x].table
  BY <1>3 DEF TableOK, Locks, StmtOK
<1>5. PICK n \in Nat : n = job[x].next
  BY ShardNumbers DEF StoreInv, Jobs, JobOK
<1>6. /\ job'[x].table = tb /\ \A y \in Txn \ {x} : job'[y] = job[y]
      /\ job'[x].pc = "release" \/ (job'[x].pc = "stamp" /\ job'[x].next = n + 1)
  BY <1>1, <1>4, <1>5, NextTurnJob DEF Turn, Becomes
<1>7. ASSUME NEW r \in Table, r # tb, NEW k \in Key PROVE Current(r, k)' = Current(r, k)
  <2>1. KeyKept(r, k)
    BY <1>1, <1>4, <1>7, TurnLeaves
  <2>2. ~CommitsAt(job[x], r) /\ ~CommitsAt(job'[x], r)
    BY <1>4, <1>6, <1>7 DEF CommitsAt
  <2>3. QED BY <1>6, <2>1, <2>2, CurrentKept
<1>8. CASE ~Writes(job[x])
  <2>1. ASSUME NEW k \in Key PROVE Current(tb, k)' = Current(tb, k)
    <3>1. KeyKept(tb, k)
      BY <1>1, <1>8, TurnLeaves
    <3>2. Home(tb, k)' = Home(tb, k)
      BY <3>1, KeyHashes DEF KeyKept, Home, routeByKey
    <3>3. \A i \in DOMAIN Home(tb, k) : Home(tb, k)[i].seq # 0
      BY <1>3, <1>4, <1>8, OnlyOwn
    <3>4. Current(tb, k) = TopRow(Home(tb, k))
      BY <3>3, CurrentTop
    <3>5. Current(tb, k)' = TopRow(Home(tb, k))'
      BY <3>2, <3>3, RowFactsNext
    <3>6. QED BY <3>2, <3>4, <3>5 DEF TopRow
  <2>2. QED BY <1>2, <1>7, <2>1 DEF RowsStay
<1>9. CASE Writes(job[x])
  <2>1. ASSUME NEW k \in Key PROVE Current(tb, k)' = TopRow(Home(tb, k))
    <3>1. Current(tb, k)' = TopRow(Home(tb, k))'
      <4>1. CASE job'[x].pc = "release"
        <5>1. Locked(job'[x]) /\ ~MayStage(job'[x], routeByKey(k))
          BY <4>1 DEF Locked, MayStage
        <5>2. Locked(job[x])' /\ (job[x].table = tb)' /\ ~MayStage(job[x], routeByKey(k))'
          BY <1>6, <5>1 DEF routeByKey
        <5>3. QED BY <1>2, <5>2, LockFactsNext
      <4>2. CASE job'[x].pc = "stamp" /\ job'[x].next = n + 1
        <5>1. CommitsAt(job'[x], tb)
          BY <1>6, <4>2 DEF CommitsAt
        <5>2. Committing(tb)'
          BY <5>1 DEF Committing
        <5>3. QED BY <5>2 DEF Current
      <4>3. QED BY <1>6, <4>1, <4>2
    <3>2. TopRow(Home(tb, k))' = TopRow(Home(tb, k))
      <4>1. CASE routeByKey(k) # n
        <5>1. KeyKept(tb, k)
          BY <1>1, <1>5, <4>1, TurnLeaves
        <5>2. Home(tb, k)' = Home(tb, k)
          BY <5>1, KeyHashes DEF KeyKept, Home, routeByKey
        <5>3. QED BY <5>2 DEF TopRow
      <4>2. CASE routeByKey(k) = n
        <5>1. PICK q \in Nat : Home(tb, k)' = StampedList(x, q, Home(tb, k))
          BY <1>5, <4>2, StampTurn
        <5>2. PICK vs \in Seq(AnyVersion) : vs = Home(tb, k)
          BY HomeTyped
        <5>3. TopRow(StampedList(x, q, vs)) = TopRow(vs)
          BY <5>2, StampedTop
        <5>4. PICK ws : ws = StampedList(x, q, vs) /\ ws = Home(tb, k)'
          BY <5>1, <5>2
        <5>5. TopRow(Home(tb, k))' = TopRow(ws)
          BY <5>4 DEF TopRow
        <5>6. QED BY <5>2, <5>3, <5>4, <5>5
      <4>3. QED BY <4>1, <4>2
    <3>3. QED BY <3>1, <3>2
  <2>2. CASE n > 0
    <3>1. Committing(tb)
      BY <1>1, <1>4, <1>5, <2>2 DEF Committing, CommitsAt
    <3>2. \A k \in Key : Current(tb, k)' = Current(tb, k)
      BY <2>1, <3>1 DEF Current
    <3>3. QED BY <1>2, <1>7, <3>2 DEF RowsStay
  <2>3. CASE n = 0
    <3>1. ~Committing(tb)
      <4>1. ~CommitsAt(job[x], tb) /\ Owns(x, tb)
        BY <1>3, <1>4, <1>5, <1>9, <2>3 DEF Owns, CommitsAt
      <4>2. QED BY <4>1, NotCommitting
    <3>2. job[x].keys = {} /\ Pending(job[x]) /\ WriterOK(x)
      BY <1>1, <1>5, <1>9, <2>3 DEF Pending, TableOK, Locks, StmtOK
    <3>3. ASSUME NEW k \in Key PROVE TopRow(Home(tb, k)) = NewRow(x, k, Current(tb, k))
      <4>1. Current(tb, k) = get(0, tb, k)
        BY <3>1 DEF Current
      <4>2. Ends(x, Home(tb, k)) <=> Wants(job[x], k)
        BY <1>4, <3>2 DEF WriterOK
      <4>3. CASE Wants(job[x], k)
        <5>1. PICK vs \in Seq(AnyVersion) : vs = Home(tb, k) /\ vs # <<>> /\ Staged(x, vs[Len(vs)])
          BY <4>2, <4>3, HomeTyped DEF Ends
        <5>2. PICK v \in AnyVersion : v = vs[Len(vs)] /\ Len(vs) \in DOMAIN vs
          BY <5>1, LastOf
        <5>3. StagedOK(tb, v) /\ v.txn = x
          BY <5>1, <5>2 DEF TableOK, Placed, Staged
        <5>4. TopRow(vs) = IF job[x].stmt.op = "delete" THEN NoRow
                           ELSE [txn |-> x, c |-> job[x].stmt.c]
          BY <5>1, <5>2, <5>3 DEF TopRow, StagedOK
        <5>5. k \in job[x].stmt.ids /\ (job[x].stmt.op = "insert" \/ Current(tb, k) # NoRow)
          BY <1>4, <4>1, <4>3 DEF Wants
        <5>6. QED BY <5>1, <5>4, <5>5 DEF NewRow
      <4>4. CASE ~Wants(job[x], k)
        <5>1. ~(k \in job[x].stmt.ids /\ (job[x].stmt.op = "insert" \/ Current(tb, k) # NoRow))
          BY <1>4, <4>1, <4>4 DEF Wants
        <5>2. Current(tb, k) = TopRow(Home(tb, k))
          BY <1>3, <1>4, <4>2, <4>4, CurrentLocked
        <5>3. QED BY <5>1, <5>2 DEF NewRow
      <4>5. QED BY <4>3, <4>4
    <3>4. RowsChange(x)
      BY <1>3, <1>4, <1>7, <1>9, <2>1, <3>3 DEF RowsChange
    <3>5. QED BY <1>2, <3>4
  <2>4. QED BY <2>2, <2>3
<1>10. QED BY <1>8, <1>9

-----------------------------------------------------------------------------
(* The invariant, and what a step of a keyed program does.                 *)

LEMMA TableStart == ASSUME Init, keyed PROVE TableOK
<1>1. /\ job = [x \in Txn |-> Idle] /\ reply = [x \in Txn |-> {}]
      /\ held = [tb \in Table |-> Lock!Unlocked]
  BY DEF Init
<1>2. PICK ks \in SUBSET Key :
        shards = [s \in Shard |-> [tb \in Table |-> [k \in Key |-> Loaded(ks, s, k, policies[tb])]]]
  BY DEF Init
<1>3. Routed
  BY DEF Init, keyed, Routed
<1>4. \A x \in Txn : job[x].pc = "idle"
  BY <1>1 DEF Idle
<1>5. \A x \in Txn : ~Locked(job[x]) /\ StmtOK(job[x]) /\ WriterOK(x) /\ ScanOK(x)
  BY <1>4 DEF Locked, StmtOK, WriterOK, Pending, ScanOK
<1>6. Locks
  BY <1>1, <1>5 DEF Locks, LockedOK, Lock!Unlocked
<1>7. ASSUME NEW tb \in Table, NEW k \in Key PROVE Placed(tb, k)
  <2>1. KeyRouted(policies[tb]) /\ HashOf[k] \in Shard /\ NoShard \notin Shard /\ k # NullKey
    BY <1>3, KeyHashes, ShardNumbers DEF Routed, routeByKey, NoShard
  <2>2. \A s \in Shard : shards[s][tb][k] = Loaded(ks, s, k, policies[tb])
    BY <1>2
  <2>3. (IF routeByPolicy(policies[tb], k, 1) # NoShard THEN routeByPolicy(policies[tb], k, 1)
         ELSE routeByKey(k)) = routeByKey(k)
    BY <2>1 DEF KeyRouted, routeByPolicy, routeByKey
  <2>4. \A s \in Shard : s # routeByKey(k) => shards[s][tb][k] = <<>>
    BY <2>2, <2>3 DEF Loaded
  <2>5. PICK v : v = [txn |-> 1, seq |-> 1, tombstone |-> FALSE, c |-> 1]
    OBVIOUS
  <2>a. v.seq # 0
    BY <2>5
  <2>6. Home(tb, k) = <<v>> \/ Home(tb, k) = <<>>
    BY <2>2, <2>5, KeyHashes DEF Loaded, Home
  <2>7. \A i \in DOMAIN Home(tb, k) : Home(tb, k)[i].seq # 0
    BY <2>a, <2>6
  <2>8. QED BY <2>4, <2>7 DEF Placed
<1>8. QED BY <1>1, <1>3, <1>5, <1>6, <1>7 DEF TableOK

\* What a step shows to the clients.
Steps ==
    /\ TableOK'
    /\ \/ RowsStay /\ reply' = reply
       \/ \E x \in Txn : RowsChange(x) /\ reply' = reply
       \/ /\ RowsStay
          /\ \E x \in Txn, tb \in Table :
                /\ reply' = [reply EXCEPT ![x] = Shown(tb)]
                /\ \A k \in Key : Current(tb, k) = get(0, tb, k)

LEMMA ScanSteps ==
    ASSUME StoreInv, StoreInv', TableOK, NEW x \in Txn, ScanShard(x), UNCHANGED engineVars
    PROVE  Steps
<1>1. PICK tb \in Table : tb = job[x].table /\ job[x].pc = "scan" /\ Locked(job[x])
  BY DEF ScanShard, TableOK, Locks, StmtOK, Locked
<1>2. \A k \in Key : Current(tb, k) = get(0, tb, k)
  <2> TAKE k \in Key
  <2>1. ~MayStage(job[x], routeByKey(k))
    BY <1>1 DEF MayStage
  <2>2. QED BY <1>1, <2>1, NotEnds, CurrentLocked
<1>3. RowsStay
  BY QuietRows
<1>4. /\ TableOK'
      /\ reply' = [reply EXCEPT ![x] = Shown(tb)] \/ reply' = reply
  BY <1>1, ScanShardTable
<1>5. QED BY <1>2, <1>3, <1>4 DEF Steps

LEMMA TableUntouched ==
    ASSUME TableOK, UNCHANGED <<shards, visible_seq, policies, job, held, reply>>
    PROVE  TableOK' /\ RowsStay
<1>1. \A tb \in Table, k \in Key : get(0, tb, k)' = get(0, tb, k) /\ Home(tb, k)' = Home(tb, k)
  BY DEF get, childGet, isVisible, Home, routeByKey
<1>2. \A x \in Txn : WriterOK(x)'
  <2> TAKE x \in Txn
  <2>1. ASSUME Pending(job[x]), NEW k \in Key
        PROVE  /\ Wants(job[x], k)' <=> Wants(job[x], k)
               /\ Home(job[x].table, k)' = Home(job[x].table, k)
    <3>1. job[x].table \in Table
      BY <2>1 DEF Pending, TableOK, Locks, StmtOK, Locked
    <3>2. QED BY <1>1, <3>1 DEF Wants
  <2>2. QED BY <2>1 DEF WriterOK, TableOK, Ends
<1>3. \A x \in Txn : ScanOK(x)'
  <2> TAKE x \in Txn
  <2>1. ASSUME job[x].pc = "scan"
        PROVE  ShownBelow(job[x].table, job[x].next)' = ShownBelow(job[x].table, job[x].next)
    <3>1. PICK tb \in Table : tb = job[x].table
      BY <2>1 DEF TableOK, Locks, StmtOK, Locked
    <3>2. PICK n : n = job[x].next
      OBVIOUS
    <3>3. [k \in Key |-> IF routeByKey(k) < n THEN get(0, tb, k)' ELSE NoRow]
          = [k \in Key |-> IF routeByKey(k) < n THEN get(0, tb, k) ELSE NoRow]
      BY <1>1
    <3>4. ShownBelow(tb, n)' = ShownBelow(tb, n)
      BY <3>3 DEF ShownBelow, RowsOf, routeByKey
    <3>5. QED BY <3>1, <3>2, <3>4
  <2>2. QED BY <2>1 DEF ScanOK, TableOK
<1>4. \A tb \in Table, k \in Key : Placed(tb, k)'
  BY <1>1 DEF TableOK, Placed, StagedOK, routeByKey
<1>5. Locks' /\ Routed'
  BY DEF TableOK, Locks, LockedOK, HolderOK, Routed
<1>6. RowsStay
  <2>1. \A tb \in Table : Committing(tb)' <=> Committing(tb)
    BY DEF Committing
  <2>2. QED BY <1>1, <2>1 DEF RowsStay, Current, TopRow
<1>7. QED BY <1>2, <1>3, <1>4, <1>5, <1>6 DEF TableOK

LEMMA SessionTable ==
    ASSUME StoreInv, StoreInv', TableOK, keyed, SessionNext, UNCHANGED program
    PROVE  Steps
<1>1. ASSUME NEW tb \in Table, NEW st \in Statement, Begin(tb, st), UNCHANGED engineVars
      PROVE  Steps
  BY <1>1, BeginTable, BeginRows DEF Steps
<1>2. ASSUME NEW x \in Txn, UNCHANGED engineVars,
             LockTable(x) \/ CommitTxn(x) \/ ReadSeq(x) \/ Rollback(x) \/ Release(x) \/ Invalidate(x)
      PROVE  Steps
  <2>1. RowsStay
    BY <1>2, QuietRows
  <2>2. TableOK'
    BY <1>2, LockTableTable, CommitTxnTable, ReadSeqTable, RollbackTable, ReleaseTable,
       InvalidateTable
  <2>3. reply' = reply
    BY <1>2 DEF LockTable, CommitTxn, ReadSeq, Rollback, Release, Invalidate
  <2>4. QED BY <2>1, <2>2, <2>3 DEF Steps
<1>3. ASSUME NEW x \in Txn, NEW k, WriteRow(x, k) PROVE Steps
  BY <1>3, WriteRowTable, WriteRowRows, WriteRowExact DEF Steps
<1>4. ASSUME NEW x \in Txn, StampShard(x) \/ AbortShard(x) PROVE Steps
  BY <1>4, StampShardRows, AbortShardRows DEF Steps
<1>5. QED BY <1>1, <1>2, <1>3, <1>4, ScanSteps DEF SessionNext, OutsideSession

LEMMA TableStep ==
    ASSUME StoreInv, StoreInv', TableOK, keyed, [Next]_vars
    PROVE  Steps
<1>1. CASE UNCHANGED vars
  <2>1. UNCHANGED <<shards, visible_seq, policies, job, held, reply>>
    BY <1>1 DEF vars, engineVars, sessionVars
  <2>2. QED BY <2>1, TableUntouched DEF Steps
<1>2. CASE SessionNext /\ UNCHANGED program
  BY <1>2, SessionTable
<1>3. CASE ReaderNext
  <2>1. UNCHANGED <<shards, visible_seq, policies, job, held, reply>>
    BY <1>3 DEF ReaderNext, engineVars, sessionVars
  <2>2. QED BY <2>1, TableUntouched DEF Steps
<1>4. CASE DdlNext
  BY <1>4 DEF DdlNext, keyed
<1>5. QED BY <1>1, <1>2, <1>3, <1>4 DEF Next

-----------------------------------------------------------------------------
(* The refinement.                                                         *)

RowMap(tb) == [k \in Key |-> Current(tb, k)]

LEMMA ViewIs ==
    ASSUME NEW x, NEW tb, NEW f,
           \A s \in Shard, k \in Key :
              childGet(s, x, tb, k) = IF routeByKey(k) = s THEN f[k] ELSE NoRow
    PROVE  View(x, tb) = RowsOf(f)
<1>1. ASSUME NEW s \in Shard, NEW r \in childScan(s, x, tb) PROVE r \in RowsOf(f)
  <2>1. PICK k \in Key : childGet(s, x, tb, k) # NoRow /\ r = [id |-> k, c |-> childGet(s, x, tb, k).c]
    BY DEF childScan
  <2>2. f[k] = childGet(s, x, tb, k)
    BY <2>1
  <2>3. QED BY <2>1, <2>2 DEF RowsOf
<1>2. ASSUME NEW r \in RowsOf(f) PROVE \E s \in Shard : r \in childScan(s, x, tb)
  <2>1. PICK k \in Key : f[k] # NoRow /\ r = [id |-> k, c |-> f[k].c]
    BY DEF RowsOf
  <2>2. PICK s \in Shard : s = routeByKey(k) /\ f[k] = childGet(s, x, tb, k)
    BY KeyHashes
  <2>3. QED BY <2>1, <2>2 DEF childScan
<1>3. QED BY <1>1, <1>2 DEF View

LEMMA RowsAre ==
    ASSUME StoreInv, TableOK, keyed, NEW tb \in Table
    PROVE  TableRows(tb) = RowsOf(RowMap(tb))
<1> DEFINE committing == {x \in Txn : job[x].table = tb /\ job[x].pc = "stamp" /\ job[x].next > 0}
<1>1. TableRows(tb) = IF committing = {} THEN View(0, tb) ELSE View(CHOOSE x \in committing : TRUE, tb)
  BY DEF TableRows
<1>2. committing = {} <=> ~Committing(tb)
  BY DEF Committing, CommitsAt
<1>3. \A s \in Shard, k \in Key : routeByKey(k) # s => \A x : childGet(s, x, tb, k) = NoRow
  BY SeesNothing DEF TableOK, Placed
<1>4. CASE committing = {}
  <2>1. \A k \in Key : RowMap(tb)[k] = childGet(routeByKey(k), 0, tb, k)
    BY <1>2, <1>4 DEF RowMap, Current, get
  <2>2. \A s \in Shard, k \in Key :
           childGet(s, 0, tb, k) = IF routeByKey(k) = s THEN RowMap(tb)[k] ELSE NoRow
    BY <1>3, <2>1
  <2>3. View(0, tb) = RowsOf(RowMap(tb))
    BY <2>2, ViewIs
  <2>4. QED BY <1>1, <1>4, <2>3
<1>5. CASE committing # {}
  <2>1. PICK y : y = CHOOSE x \in committing : TRUE
    OBVIOUS
  <2>2. y \in Txn /\ job[y].table = tb /\ job[y].pc = "stamp"
    BY <1>5, <2>1
  <2>3. ASSUME NEW k \in Key PROVE childGet(routeByKey(k), y, tb, k) = RowMap(tb)[k]
    <3>1. PICK s \in Shard : s = routeByKey(k)
      BY KeyHashes
    <3>2. \A i \in DOMAIN Home(tb, k) : Home(tb, k)[i].seq = 0 => Home(tb, k)[i].txn = y
      BY <2>2, OnlyOwn DEF Locked
    <3>3. childGet(s, y, tb, k) = TopRow(shards[s][tb][k])
      BY <3>1, <3>2, SeesTop DEF Home
    <3>4. RowMap(tb)[k] = TopRow(Home(tb, k))
      BY <1>2, <1>5 DEF RowMap, Current
    <3>5. QED BY <3>1, <3>3, <3>4 DEF Home
  <2>4. \A s \in Shard, k \in Key :
           childGet(s, y, tb, k) = IF routeByKey(k) = s THEN RowMap(tb)[k] ELSE NoRow
    BY <1>3, <2>3
  <2>5. View(y, tb) = RowsOf(RowMap(tb))
    BY <2>4, ViewIs
  <2>6. QED BY <1>1, <1>5, <2>1, <2>5
<1>6. QED BY <1>4, <1>5

LEMMA RowsMean ==
    StoreInv /\ TableOK /\ keyed => \A tb \in Table : TableRows(tb) = RowsOf(RowMap(tb))
BY RowsAre

LEMMA RowsMeanNext ==
    StoreInv' /\ TableOK' /\ keyed' => (\A tb \in Table : TableRows(tb) = RowsOf(RowMap(tb)))'
BY RowsMean, PTL

LEMMA RowsOfMember ==
    ASSUME NEW f
    PROVE  /\ \A k \in Key : f[k] # NoRow => [id |-> k, c |-> f[k].c] \in RowsOf(f)
           /\ \A r \in RowsOf(f) : r.id \in Key /\ f[r.id] # NoRow /\ r = [id |-> r.id, c |-> f[r.id].c]
BY DEF RowsOf

\* What an INSERT, an UPDATE and a DELETE do to the rows.
Inserts(f, g, x, id, c) == \A k \in Key : g[k] = IF k = id THEN [txn |-> x, c |-> c] ELSE f[k]
Updates(f, g, x, ids, c) ==
    \A k \in Key : g[k] = IF k \in ids /\ f[k] # NoRow THEN [txn |-> x, c |-> c] ELSE f[k]
Deletes(f, g, ids) == \A k \in Key : g[k] = IF k \in ids THEN NoRow ELSE f[k]

LEMMA RowsInserted ==
    ASSUME NEW f, NEW g, NEW x, x # 0, NEW c, NEW id \in Key, Inserts(f, g, x, id, c)
    PROVE  RowsOf(g) = {r \in RowsOf(f) : r.id \notin {id}} \cup {[id |-> id, c |-> c]}
<1> USE DEF Inserts
<1>1. g[id] # NoRow /\ g[id].c = c
  BY DEF NoRow
<1>2. ASSUME NEW r \in RowsOf(g)
      PROVE  r \in {q \in RowsOf(f) : q.id \notin {id}} \cup {[id |-> id, c |-> c]}
  <2>1. r.id \in Key /\ g[r.id] # NoRow /\ r = [id |-> r.id, c |-> g[r.id].c]
    BY RowsOfMember
  <2>2. CASE r.id = id
    BY <1>1, <2>1, <2>2
  <2>3. CASE r.id # id
    <3>1. r \in RowsOf(f)
      BY <2>1, <2>3, RowsOfMember
    <3>2. QED BY <2>3, <3>1
  <2>4. QED BY <2>2, <2>3
<1>3. ASSUME NEW r \in RowsOf(f), r.id \notin {id} PROVE r \in RowsOf(g)
  <2>1. r.id \in Key /\ f[r.id] # NoRow /\ r = [id |-> r.id, c |-> f[r.id].c]
    BY RowsOfMember
  <2>2. QED BY <1>3, <2>1, RowsOfMember
<1>4. [id |-> id, c |-> c] \in RowsOf(g)
  BY <1>1, RowsOfMember
<1>5. QED BY <1>2, <1>3, <1>4

LEMMA RowsUpdated ==
    ASSUME NEW f, NEW g, NEW x, x # 0, NEW c, NEW ids, Updates(f, g, x, ids, c)
    PROVE  RowsOf(g) = {r \in RowsOf(f) : r.id \notin ids}
                       \cup {[id |-> k, c |-> c] : k \in {r.id : r \in RowsOf(f)} \cap ids}
<1> USE DEF Updates
<1>1. \A k \in Key : k \in ids /\ f[k] # NoRow => g[k] # NoRow /\ g[k].c = c
  BY DEF NoRow
<1>2. {r.id : r \in RowsOf(f)} \cap ids = {k \in Key : f[k] # NoRow /\ k \in ids}
  BY RowsOfIds
<1>3. ASSUME NEW r \in RowsOf(g)
      PROVE  \/ r \in RowsOf(f) /\ r.id \notin ids
             \/ \E k \in Key : f[k] # NoRow /\ k \in ids /\ r = [id |-> k, c |-> c]
  <2>1. r.id \in Key /\ g[r.id] # NoRow /\ r = [id |-> r.id, c |-> g[r.id].c]
    BY RowsOfMember
  <2>2. CASE r.id \in ids
    <3>1. f[r.id] # NoRow
      BY <2>1
    <3>2. QED BY <1>1, <2>1, <2>2, <3>1
  <2>3. CASE r.id \notin ids
    <3>1. r \in RowsOf(f)
      BY <2>1, <2>3, RowsOfMember
    <3>2. QED BY <2>3, <3>1
  <2>4. QED BY <2>2, <2>3
<1>4. ASSUME NEW r \in RowsOf(f), r.id \notin ids PROVE r \in RowsOf(g)
  <2>1. r.id \in Key /\ f[r.id] # NoRow /\ r = [id |-> r.id, c |-> f[r.id].c]
    BY RowsOfMember
  <2>2. QED BY <1>4, <2>1, RowsOfMember
<1>5. ASSUME NEW k \in Key, f[k] # NoRow, k \in ids PROVE [id |-> k, c |-> c] \in RowsOf(g)
  <2>1. g[k] # NoRow /\ g[k].c = c
    BY <1>1, <1>5
  <2>2. QED BY <2>1, RowsOfMember
<1>6. QED BY <1>2, <1>3, <1>4, <1>5

LEMMA RowsDeleted ==
    ASSUME NEW f, NEW g, NEW ids, Deletes(f, g, ids)
    PROVE  RowsOf(g) = {r \in RowsOf(f) : r.id \notin ids}
<1> USE DEF Deletes
<1>1. ASSUME NEW r \in RowsOf(g) PROVE r \in RowsOf(f) /\ r.id \notin ids
  <2>1. r.id \in Key /\ g[r.id] # NoRow /\ r = [id |-> r.id, c |-> g[r.id].c]
    BY RowsOfMember
  <2>2. r.id \notin ids /\ g[r.id] = f[r.id]
    BY <2>1
  <2>3. QED BY <2>1, <2>2, RowsOfMember
<1>2. ASSUME NEW r \in RowsOf(f), r.id \notin ids PROVE r \in RowsOf(g)
  <2>1. r.id \in Key /\ f[r.id] # NoRow /\ r = [id |-> r.id, c |-> f[r.id].c]
    BY RowsOfMember
  <2>2. QED BY <1>2, <2>1, RowsOfMember
<1>3. QED BY <1>1, <1>2

\* The variables of AtomicTable, and its actions in terms of them.
TheRows == [tb \in Table |-> TableRows(tb)]
TheReply == [x \in Txn |-> IF keyed THEN reply[x] ELSE {}]

LEMMA IsSelect ==
    ASSUME NEW tb \in Table, NEW x \in Txn, TheRows' = TheRows,
           TheReply' = [TheReply EXCEPT ![x] = TheRows[tb]]
    PROVE  Abstract!TableNext
<1>1. Abstract!Select(x, tb)
  BY DEF Abstract!Select, TheReply, TheRows
<1>2. QED BY <1>1 DEF Abstract!TableNext

LEMMA IsInsert ==
    ASSUME NEW tb \in Table, NEW id \in Key, NEW c \in Col, TheReply' = TheReply,
           TheRows' = [TheRows EXCEPT ![tb] =
                         {r \in TheRows[tb] : r.id \notin {id}} \cup {[id |-> id, c |-> c]}]
    PROVE  Abstract!TableNext
<1>1. Abstract!Insert(tb, id, c)
  BY DEF Abstract!Insert, Abstract!Others, TheRows
<1>2. QED BY <1>1 DEF Abstract!TableNext, TheReply

LEMMA IsUpdate ==
    ASSUME NEW tb \in Table, NEW ids \in {{id} : id \in Key} \cup {Key}, NEW c \in Col,
           TheReply' = TheReply,
           TheRows' = [TheRows EXCEPT ![tb] =
                         {r \in TheRows[tb] : r.id \notin ids}
                         \cup {[id |-> k, c |-> c] : k \in {r.id : r \in TheRows[tb]} \cap ids}]
    PROVE  Abstract!TableNext
<1>1. Abstract!Update(tb, ids, c)
  BY DEF Abstract!Update, Abstract!Others, Abstract!Present, TheRows
<1>2. QED BY <1>1 DEF Abstract!TableNext, TheReply

LEMMA IsDelete ==
    ASSUME NEW tb \in Table, NEW ids \in {{id} : id \in Key} \cup {Key}, TheReply' = TheReply,
           TheRows' = [TheRows EXCEPT ![tb] = {r \in TheRows[tb] : r.id \notin ids}]
    PROVE  Abstract!TableNext
<1>1. Abstract!Delete(tb, ids)
  BY DEF Abstract!Delete, Abstract!Others, TheRows
<1>2. QED BY <1>1 DEF Abstract!TableNext, TheReply

\* A statement that has written is one of the three.
LEMMA ChangeIsStatement ==
    ASSUME StoreInv, StoreInv', TableOK, TableOK', keyed, keyed', NEW x \in Txn, RowsChange(x),
           TheReply' = TheReply
    PROVE  Abstract!TableNext
<1>1. /\ x # 0 /\ Writes(job[x]) /\ job[x].stmt \in Statement /\ job[x].stmt.ids # {NullKey}
      /\ job[x].table \in Table
  BY DEF RowsChange, TableOK, Locks, StmtOK
<1>2. PICK tb \in Table : tb = job[x].table
  BY <1>1
<1>3. PICK st : st = job[x].stmt
  OBVIOUS
<1>4. \A r \in Table : TheRows[r] = RowsOf(RowMap(r)) /\ TheRows'[r] = RowsOf(RowMap(r))'
  BY RowsMean, RowsMeanNext DEF TheRows
<1>5. ASSUME NEW r \in Table, r # tb PROVE TheRows'[r] = TheRows[r]
  <2>1. \A k \in Key : Current(r, k)' = Current(r, k)
    BY <1>2, <1>5 DEF RowsChange
  <2>2. RowMap(r)' = RowMap(r)
    BY <2>1 DEF RowMap
  <2>3. RowsOf(RowMap(r))' = RowsOf(RowMap(r))
    BY <2>2 DEF RowsOf
  <2>4. QED BY <1>4, <2>3
<1>6. PICK f, g : f = RowMap(tb) /\ g = RowMap(tb)'
  OBVIOUS
<1>7. TheRows[tb] = RowsOf(f) /\ TheRows'[tb] = RowsOf(g)
  <2>1. RowsOf(RowMap(tb))' = RowsOf(g)
    BY <1>6 DEF RowsOf
  <2>2. QED BY <1>4, <1>6, <2>1
<1>8. TheRows' = [TheRows EXCEPT ![tb] = RowsOf(g)]
  BY <1>5, <1>7 DEF TheRows
<1>9. ASSUME NEW k \in Key
      PROVE  g[k] = IF k \in st.ids /\ (st.op = "insert" \/ f[k] # NoRow)
                    THEN IF st.op = "delete" THEN NoRow ELSE [txn |-> x, c |-> st.c] ELSE f[k]
  BY <1>2, <1>3, <1>6 DEF RowsChange, NewRow, RowMap
<1>10. 1 \in Col /\ MaxCol \in Col
  BY BoundAssumption DEF Col
<1>11. CASE st.op = "insert"
  <2>1. PICK id \in Key : st.ids = {id}
    BY <1>1, <1>3, <1>11 DEF Statement
  <2>2. st.c \in Col
    BY <1>1, <1>3, <1>10, <1>11 DEF Statement
  <2>3. Inserts(f, g, x, id, st.c)
    BY <1>9, <1>11, <2>1 DEF Inserts
  <2>4. RowsOf(g) = {r \in RowsOf(f) : r.id \notin {id}} \cup {[id |-> id, c |-> st.c]}
    BY <1>1, <2>3, RowsInserted
  <2>5. QED BY <1>7, <1>8, <2>2, <2>4, IsInsert
<1>12. CASE st.op = "update"
  <2>1. st.ids \in {{id} : id \in Key} \cup {Key} /\ st.c \in Col
    BY <1>1, <1>3, <1>10, <1>12 DEF Statement
  <2>2. Updates(f, g, x, st.ids, st.c)
    BY <1>9, <1>12 DEF Updates
  <2>3. RowsOf(g) = {r \in RowsOf(f) : r.id \notin st.ids}
                    \cup {[id |-> k, c |-> st.c] : k \in {r.id : r \in RowsOf(f)} \cap st.ids}
    BY <1>1, <2>2, RowsUpdated
  <2>4. QED BY <1>7, <1>8, <2>1, <2>3, IsUpdate
<1>13. CASE st.op = "delete"
  <2>1. st.ids \in {{id} : id \in Key} \cup {Key}
    BY <1>1, <1>3, <1>13 DEF Statement
  <2>2. Deletes(f, g, st.ids)
    BY <1>9, <1>13 DEF Deletes
  <2>3. RowsOf(g) = {r \in RowsOf(f) : r.id \notin st.ids}
    BY <2>2, RowsDeleted
  <2>4. QED BY <1>7, <1>8, <2>1, <2>3, IsDelete
<1>14. st.op \in {"insert", "update", "delete"}
  BY <1>1, <1>3 DEF Statement, Writes
<1>15. QED BY <1>11, <1>12, <1>13, <1>14

LEMMA StepsImplement ==
    ASSUME StoreInv, StoreInv', TableOK, keyed, keyed', Steps
    PROVE  Abstract!TableNext \/ (TheRows' = TheRows /\ TheReply' = TheReply)
<1>1. TableOK'
  BY DEF Steps
<1>2. TheReply = reply /\ TheReply' = reply'
  BY <1>1 DEF TheReply, TableOK
<1>3. \A r \in Table : TheRows[r] = RowsOf(RowMap(r)) /\ TheRows'[r] = RowsOf(RowMap(r))'
  BY <1>1, RowsMean, RowsMeanNext DEF TheRows
<1>4. ASSUME RowsStay PROVE TheRows' = TheRows
  <2>1. ASSUME NEW r \in Table PROVE TheRows'[r] = TheRows[r]
    <3>1. RowMap(r)' = RowMap(r)
      BY <1>4 DEF RowMap, RowsStay
    <3>2. RowsOf(RowMap(r))' = RowsOf(RowMap(r))
      BY <3>1 DEF RowsOf
    <3>3. QED BY <1>3, <3>2
  <2>2. QED BY <2>1 DEF TheRows
<1>5. CASE RowsStay /\ reply' = reply
  BY <1>2, <1>4, <1>5
<1>6. CASE \E x \in Txn : RowsChange(x) /\ reply' = reply
  BY <1>1, <1>2, <1>6, ChangeIsStatement
<1>7. ASSUME RowsStay, NEW x \in Txn, NEW tb \in Table, reply' = [reply EXCEPT ![x] = Shown(tb)],
             \A k \in Key : Current(tb, k) = get(0, tb, k)
      PROVE  Abstract!TableNext
  <2>1. [k \in Key |-> get(0, tb, k)] = RowMap(tb)
    BY <1>7 DEF RowMap
  <2>2. Shown(tb) = TheRows[tb]
    BY <1>3, <2>1 DEF Shown
  <2>3. TheReply' = [TheReply EXCEPT ![x] = TheRows[tb]]
    BY <1>2, <1>7, <2>2
  <2>4. QED BY <1>4, <1>7, <2>3, IsSelect
<1>8. QED BY <1>5, <1>6, <1>7 DEF Steps

LEMMA TableStarts == ASSUME Init PROVE Abstract!TableInit
<1>1. StoreInv /\ (keyed => TableOK)
  BY StoreInit, TableStart
<1>2. TheReply = [x \in Txn |-> {}]
  BY DEF Init, TheReply
<1>3. CASE ~keyed
  <2>1. TheRows = [tb \in Table |-> {}]
    BY <1>3 DEF TheRows, TableRows
  <2>2. QED BY <1>2, <2>1 DEF Abstract!TableInit, TheRows, TheReply
<1>4. CASE keyed
  <2>1. PICK ks \in SUBSET Key :
          shards = [s \in Shard |-> [tb \in Table |-> [k \in Key |-> Loaded(ks, s, k, policies[tb])]]]
    BY DEF Init
  <2>2. PICK v : v = [txn |-> 1, seq |-> 1, tombstone |-> FALSE, c |-> 1]
    OBVIOUS
  <2>3. ASSUME NEW tb \in Table, NEW k \in Key PROVE Current(tb, k) # NoRow => Current(tb, k).c = 1
    <3>1. PICK vs : vs = Home(tb, k) /\ (vs = <<v>> \/ vs = <<>>)
      BY <2>1, <2>2, KeyHashes DEF Loaded, Home
    <3>2. v.seq # 0 /\ v.c = 1
      BY <2>2
    <3>3. \A i \in DOMAIN vs : vs[i].seq # 0
      BY <3>1, <3>2
    <3>4. Current(tb, k) = TopRow(vs)
      BY <1>1, <3>1, <3>3, CurrentTop
    <3>5. TopRow(vs) = NoRow \/ (vs = <<v>> /\ TopRow(vs) = [txn |-> v.txn, c |-> v.c])
      BY <3>1 DEF TopRow
    <3>6. QED BY <3>2, <3>4, <3>5
  <2>4. ASSUME NEW tb \in Table, NEW r \in TheRows[tb]
        PROVE  r.id \in Key /\ r = [id |-> r.id, c |-> 1]
    <3>1. TheRows[tb] = RowsOf(RowMap(tb))
      BY <1>1, <1>4, RowsMean DEF TheRows
    <3>2. r.id \in Key /\ RowMap(tb)[r.id] # NoRow /\ r = [id |-> r.id, c |-> RowMap(tb)[r.id].c]
      BY <3>1, RowsOfMember
    <3>3. RowMap(tb)[r.id] = Current(tb, r.id)
      BY <3>2 DEF RowMap
    <3>4. QED BY <2>3, <3>2, <3>3
  <2>5. 1 \in Col
    BY BoundAssumption DEF Col
  <2>6. TheRows \in [Table -> SUBSET [id : Key, c : Col]]
    <3>1. \A tb \in Table : \A r \in TheRows[tb] : r \in [id : Key, c : Col]
      BY <2>4, <2>5
    <3>2. QED BY <3>1 DEF TheRows
  <2>7. \A tb \in Table : \A r1, r2 \in TheRows[tb] : r1.id = r2.id => r1 = r2
    BY <2>4
  <2>8. QED BY <1>2, <2>6, <2>7 DEF Abstract!TableInit, Abstract!Row, TheRows, TheReply
<1>5. QED BY <1>3, <1>4

LEMMA TableStepImplements ==
    ASSUME StoreInv, TableInv, [Next]_vars
    PROVE  TableInv' /\ [Abstract!TableNext]_(Abstract!tableVars)
<1>1. StoreInv' /\ (keyed' <=> keyed)
  BY StoreStep DEF Next, vars, keyed
<1>2. CASE ~keyed
  <2>1. TheRows' = TheRows /\ TheReply' = TheReply
    BY <1>1, <1>2 DEF TheRows, TheReply, TableRows
  <2>2. QED BY <1>1, <1>2, <2>1 DEF TableInv, Abstract!tableVars, TheRows, TheReply
<1>3. CASE keyed
  <2>1. Steps
    BY <1>1, <1>3, TableStep DEF TableInv
  <2>2. Abstract!TableNext \/ (TheRows' = TheRows /\ TheReply' = TheReply)
    BY <1>1, <1>3, <2>1, StepsImplement DEF TableInv
  <2>3. TableInv'
    BY <2>1 DEF TableInv, Steps
  <2>4. QED BY <2>2, <2>3 DEF Abstract!tableVars, TheRows, TheReply
<1>4. QED BY <1>2, <1>3

(* For a keyed program, statements over the shards are atomic, for any     *)
(* number of shards, tables, keys and transactions: each SELECT is given   *)
(* the rows of one moment although it visits the shards in turn, and each  *)
(* statement that commits changes all its rows at once, when its commit    *)
(* stamps the first shard, and one that rolls back changes none            *)
(* (EngineDispatcher::runSession, ShardedStorageEngine::scan, commit and   *)
(* abort).                                                                 *)
THEOREM ImplementsTableHolds == Spec => ImplementsTable
<1>1. Init => StoreInv /\ TableInv /\ Abstract!TableInit
  BY StoreInit, TableStart, TableStarts DEF TableInv
<1>2. StoreInv /\ TableInv /\ [Next]_vars =>
         StoreInv' /\ TableInv' /\ [Abstract!TableNext]_(Abstract!tableVars)
  BY StoreStep, TableStepImplements
<1>3. QED BY <1>1, <1>2, PTL DEF Spec, ImplementsTable, Abstract!TableSpec
=============================================================================
