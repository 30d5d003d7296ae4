----------------------------- MODULE CCheckProofs -----------------------------
(***************************************************************************)
(* Proofs about the property tester, for any generators that keep          *)
(* GeneratorAssumption, nested or not, and any number of tests, iterations *)
(* and samples.                                                            *)
(***************************************************************************)
EXTENDS CCheck, TLAPS

-----------------------------------------------------------------------------
(* Random generators.                                                      *)

LEMMA AfterType ==
  ASSUME NEW n \in Nat
  PROVE  /\ \A rand \in TestRands : After(rand, n) \in TestRands
         /\ \A rand \in SampleRands : After(rand, n) \in SampleRands
<1>1. \A i \in 0..Period-1 : (i + n) % Period \in 0..Period-1
  BY BoundsAssumption
<1>2. \A S : \A rand \in S \X (0..Period-1) : After(rand, n) \in S \X (0..Period-1)
  BY <1>1 DEF After
<1> QED
  BY <1>2 DEF TestRands, SampleRands

LEMMA MadeFromType ==
  /\ \A t \in 1..MaxTests : MadeFrom(t) \in TestRands
  /\ \A word \in TestRands : MadeFrom(word) \in SampleRands
BY BoundsAssumption DEF MadeFrom, TestRands, SampleRands

-----------------------------------------------------------------------------
(* What the loops that dispose of samples and of arguments free.           *)

(* What generate gives for a sample of the context or for an argument.     *)
LEMMA SampleIsGenerated ==
  ASSUME TypeOK, InUse
  PROVE  /\ \A k \in DOMAIN samples :
              /\ k \in Places
              /\ samples[k].gen \in Gens /\ samples[k].size \in Sizes
              /\ samples[k].from \in SampleRands
              /\ samples[k].sample
                   = Generated(samples[k].gen, samples[k].size, samples[k].from)
         /\ \A k \in DOMAIN args :
              /\ k \in Places
              /\ gens[k] \in Gens /\ iteration \in AllSizes
              /\ \E rand \in SampleRands :
                   args[k] = Generated(gens[k], iteration, rand)
<1>1. ASSUME NEW k \in DOMAIN samples
      PROVE  /\ k \in Places
             /\ samples[k] \in Samples
  <2>1. samples \in Seq(Samples) /\ Len(samples) <= MaxSamples
    BY DEF TypeOK
  <2>2. k \in 1..Len(samples)
    BY <2>1
  <2> QED
    BY <2>1, <2>2, BoundsAssumption DEF Places
<1>2. ASSUME NEW k \in DOMAIN args
      PROVE  /\ k \in Places
             /\ gens[k] \in Gens /\ iteration \in AllSizes
             /\ \E rand \in SampleRands :
                  args[k] = Generated(gens[k], iteration, rand)
  <2>1. args \in Seq(Args) /\ k \in 1..Len(args) /\ args # <<>>
    BY DEF TypeOK
  <2>2. pc = "forAll" /\ iteration < iterations
    BY <2>1 DEF InUse
  <2>3. gens \in ArgLists /\ gens \in Seq(Gens) /\ Len(args) <= Len(gens)
    BY <2>2, BoundsAssumption DEF TypeOK
  <2>4. k \in 1..Len(gens)
    BY <2>1, <2>3
  <2>5. iteration \in 0..iterations-1 /\ iterations \in Iterations
    BY <2>2, BoundsAssumption DEF TypeOK
  <2> QED
    BY <2>3, <2>4, <2>5 DEF Places, AllSizes, InUse
<1> QED
  BY <1>1, <1>2 DEF Samples

(* Free of pairwise disjoint parts, all of what is allocated.              *)
LEMMA FreesAll ==
  ASSUME NEW n \in Nat, NEW parts, DOMAIN parts = 1..n,
         ~ fault, heap = UNION {parts[k] : k \in DOMAIN parts},
         \A j, k \in DOMAIN parts : j # k => parts[j] \cap parts[k] = {},
         Free(parts)
  PROVE  ~ fault' /\ heap' = {}
<1>1. heap' = {}
  BY DEF Free
<1>2. ASSUME NEW k \in DOMAIN parts
      PROVE  parts[k] \subseteq heap \ UNION {parts[j] : j \in 1..k-1}
  <2>1. \A j \in 1..k-1 : j \in DOMAIN parts /\ j # k
    OBVIOUS
  <2> QED
    BY <2>1
<1> QED
  BY <1>1, <1>2 DEF Free

LEMMA ResetFreesAll ==
  ASSUME TypeOK, InUse, Owned, pc = "prop", Reset
  PROVE  ~ fault' /\ heap' = {} /\ samples' = <<>> /\ args = <<>>
<1> DEFINE parts == [k \in DOMAIN samples |->
                       Frees(samples[k].gen, samples[k].sample, <<k>>)
                         \union {Cell(k), SampleAt(k)}]
<1>1. args = <<>>
  BY DEF InUse
<1>2. Len(samples) \in Nat /\ DOMAIN parts = 1..Len(samples)
  <2>1. samples \in Seq(Samples)
    BY DEF TypeOK
  <2> QED
    BY <2>1
<1>3. \A k \in DOMAIN samples :
        /\ parts[k] = SampleBlocks(k)
        /\ \A b \in SampleBlocks(k) : b[1] = k
  <2> SUFFICES ASSUME NEW k \in DOMAIN samples
               PROVE  /\ parts[k] = SampleBlocks(k)
                      /\ \A b \in SampleBlocks(k) : b[1] = k
    OBVIOUS
  <2>1. LET blocks == Behind(samples[k].gen, samples[k].sample, <<k>>)
        IN  /\ Frees(samples[k].gen, samples[k].sample, <<k>>) = blocks
            /\ \A b \in blocks : b[1] = k
    BY SampleIsGenerated, GeneratorAssumption DEF AllSizes
  <2> QED
    BY <2>1 DEF SampleBlocks, Cell, SampleAt
<1>4. heap = UNION {parts[k] : k \in DOMAIN parts}
  <2>1. heap = UNION {SampleBlocks(k) : k \in DOMAIN samples}
    BY <1>1 DEF Owned
  <2>2. DOMAIN parts = DOMAIN samples
    OBVIOUS
  <2> HIDE DEF parts
  <2>3. {SampleBlocks(k) : k \in DOMAIN samples} = {parts[k] : k \in DOMAIN parts}
    BY <1>3, <2>2
  <2> QED
    BY <2>1, <2>3
<1>5. \A j, k \in DOMAIN parts : j # k => parts[j] \cap parts[k] = {}
  <2> HIDE DEF parts
  <2>1. \A k \in DOMAIN parts : \A b \in parts[k] : b[1] = k
    BY <1>2, <1>3 DEF parts
  <2> QED
    BY <2>1
<1>6. ~ fault /\ Free(parts) /\ samples' = <<>>
  BY DEF Owned, Reset
<1> QED
  BY <1>1, <1>2, <1>4, <1>5, <1>6, FreesAll

LEMMA FreeArgsFreesAll ==
  ASSUME TypeOK, InUse, Owned, pc = "forAll", FreeArgs
  PROVE  ~ fault' /\ heap' = {} /\ args' = <<>> /\ samples = <<>>
<1> DEFINE parts == [k \in DOMAIN args |-> Frees(gens[k], args[k], <<k>>)]
<1>1. samples = <<>>
  BY DEF InUse
<1>2. Len(args) \in Nat /\ DOMAIN parts = 1..Len(args)
  <2>1. args \in Seq(Args)
    BY DEF TypeOK
  <2> QED
    BY <2>1
<1>3. \A k \in DOMAIN args :
        /\ parts[k] = ArgBlocks(k)
        /\ \A b \in ArgBlocks(k) : b[1] = k
  <2> SUFFICES ASSUME NEW k \in DOMAIN args
               PROVE  /\ parts[k] = ArgBlocks(k)
                      /\ \A b \in ArgBlocks(k) : b[1] = k
    OBVIOUS
  <2>1. PICK rand \in SampleRands : args[k] = Generated(gens[k], iteration, rand)
    BY SampleIsGenerated
  <2> QED
    BY <2>1, SampleIsGenerated, GeneratorAssumption DEF ArgBlocks
<1>4. heap = UNION {parts[k] : k \in DOMAIN parts}
  <2>1. heap = UNION {ArgBlocks(k) : k \in DOMAIN args}
    BY <1>1 DEF Owned
  <2>2. DOMAIN parts = DOMAIN args
    OBVIOUS
  <2> HIDE DEF parts
  <2>3. {ArgBlocks(k) : k \in DOMAIN args} = {parts[k] : k \in DOMAIN parts}
    BY <1>3, <2>2
  <2> QED
    BY <2>1, <2>3
<1>5. \A j, k \in DOMAIN parts : j # k => parts[j] \cap parts[k] = {}
  <2> HIDE DEF parts
  <2>1. \A k \in DOMAIN parts : \A b \in parts[k] : b[1] = k
    BY <1>2, <1>3 DEF parts
  <2> QED
    BY <2>1
<1>6. ~ fault /\ Free(parts) /\ args' = <<>>
  BY DEF Owned, FreeArgs
<1> QED
  BY <1>1, <1>2, <1>4, <1>5, <1>6, FreesAll

LEMMA UnionAdds == \A A, b : UNION (A \union {b}) = (UNION A) \union b
OBVIOUS

(* Where no property or function runs nothing is allocated.                *)
LEMMA NoneInUse ==
  ASSUME TypeOK, InUse, Owned,
         pc \in {"idle", "loop"} \/ (pc = "forAll" /\ iteration >= iterations)
  PROVE  samples = <<>> /\ args = <<>> /\ heap = {} /\ ~ fault
<1>1. samples = <<>> /\ args = <<>>
  <2>1. iteration \in Int /\ iterations \in Int
    BY BoundsAssumption DEF TypeOK
  <2> QED
    BY <2>1 DEF InUse
<1> QED
  BY <1>1 DEF Owned

LEMMA NoneInUseNext ==
  ASSUME samples' = <<>>, args' = <<>>, heap' = {}, ~ fault'
  PROVE  InUse' /\ Owned'
BY DEF InUse, Owned

-----------------------------------------------------------------------------
(* The invariant is inductive: one lemma per kind of step.                 *)

LEMMA StartInv ==
  ASSUME IInv, NEW n \in Iterations,
         StartProp(n) \/ \E gs \in ArgLists : StartForAll(n, gs)
  PROVE  IInv'
<1>1. /\ pc = "idle" /\ pc' \in {"loop", "forAll"}
      /\ tests < MaxTests /\ tests' = tests + 1
      /\ iteration' = 0 /\ iterations' = n /\ seedGen' = MadeFrom(tests')
      /\ UNCHANGED <<samples, args, heap, fault, report>>
      /\ pc' = "forAll" => gens' \in ArgLists
  BY DEF StartProp, StartForAll, Start
<1>2. samples = <<>> /\ args = <<>> /\ heap = {} /\ ~ fault
  BY <1>1, NoneInUse DEF IInv
<1>3. TypeOK'
  <2>1. tests' \in 1..MaxTests /\ tests' \in 0..MaxTests
    BY <1>1, BoundsAssumption DEF IInv, TypeOK
  <2>2. seedGen' \in TestRands
    BY <1>1, <2>1, MadeFromType
  <2>3. pc' = "forAll" => Len(args') <= Len(gens')
    <3>1. pc' = "forAll" => gens' \in Seq(Gens)
      BY <1>1, BoundsAssumption
    <3>2. Len(args') = 0
      BY <1>1, <1>2
    <3> QED
      BY <3>1, <3>2
  <2> QED
    BY <1>1, <2>1, <2>2, <2>3 DEF IInv, TypeOK
<1>4. InUse' /\ Owned'
  BY <1>1, <1>2, NoneInUseNext
<1>5. Chained' /\ ReportReplays'
  BY <1>1 DEF IInv, Chained, ReportReplays
<1> QED
  BY <1>3, <1>4, <1>5 DEF IInv

LEMMA EndsInv ==
  ASSUME IInv, PropEnds \/ ForAllEnds
  PROVE  IInv'
<1>1. /\ pc = "loop" \/ (pc = "forAll" /\ iteration >= iterations)
      /\ pc' = "idle"
      /\ UNCHANGED <<iteration, samples, args, heap, fault, report,
                     tests, iterations, gens>>
  BY DEF PropEnds, ForAllEnds, Ends, test
<1>2. samples = <<>> /\ args = <<>> /\ heap = {} /\ ~ fault
  BY <1>1, NoneInUse DEF IInv
<1>3. TypeOK'
  BY <1>1 DEF IInv, TypeOK
<1>4. InUse' /\ Owned'
  BY <1>1, <1>2, NoneInUseNext
<1>5. Chained' /\ ReportReplays'
  BY <1>1 DEF IInv, Chained, ReportReplays
<1> QED
  BY <1>3, <1>4, <1>5 DEF IInv

LEMMA IterateInv ==
  ASSUME IInv, Iterate
  PROVE  IInv'
<1>1. /\ pc = "loop" /\ pc' = "prop"
      /\ seed' = seedGen /\ seedGen' = After(seedGen, 1)
      /\ ctxGen' = MadeFrom(seed')
      /\ UNCHANGED <<iteration, samples, args, heap, fault, report,
                     tests, iterations, gens>>
  BY DEF Iterate, test
<1>2. samples = <<>> /\ args = <<>> /\ heap = {} /\ ~ fault
  BY <1>1, NoneInUse DEF IInv
<1>3. TypeOK'
  <2>1. seedGen \in TestRands
    BY <1>1 DEF IInv, TypeOK
  <2>2. seedGen' \in TestRands /\ ctxGen' \in SampleRands
    BY <1>1, <2>1, AfterType, MadeFromType
  <2> QED
    BY <1>1, <2>1, <2>2 DEF IInv, TypeOK
<1>4. InUse' /\ Owned'
  BY <1>1, <1>2, NoneInUseNext
<1>5. Chained'
  <2>1. samples' = <<>> /\ Len(samples') = 0
    BY <1>1, <1>2
  <2>2. Replays(MadeFrom(seed'), samples')
    BY <2>1 DEF Replays
  <2> QED
    BY <1>1, <2>1, <2>2 DEF Chained
<1>6. ReportReplays'
  BY <1>1 DEF IInv, ReportReplays
<1> QED
  BY <1>3, <1>4, <1>5, <1>6 DEF IInv

(* A property returns, or an assertion leaves it: both dispose of the      *)
(* samples.                                                                *)
LEMMA LeavePropInv ==
  ASSUME IInv, AssertFails \/ PropReturns
  PROVE  IInv'
<1>1. /\ pc = "prop" /\ Reset
      /\ \/ pc' = "idle" /\ iteration' = iteration
            /\ report' = [seed |-> seed, shown |-> samples]
         \/ pc' = "loop" /\ iteration' = iteration + 1 /\ report' = report
      /\ UNCHANGED <<seedGen, args, tests, iterations, gens>>
  BY DEF AssertFails, PropReturns, test
<1>2. samples' = <<>> /\ args' = <<>> /\ heap' = {} /\ ~ fault'
  BY <1>1, ResetFreesAll DEF IInv
<1>3. TypeOK'
  <2>1. samples' \in Seq(Samples) /\ Len(samples') <= MaxSamples
    BY <1>2, BoundsAssumption
  <2> QED
    BY <1>1, <2>1 DEF IInv, TypeOK
<1>4. InUse' /\ Owned'
  BY <1>2, NoneInUseNext
<1>5. Chained'
  BY <1>1 DEF Chained
<1>6. ReportReplays'
  BY <1>1 DEF IInv, Chained, ReportReplays
<1> QED
  BY <1>3, <1>4, <1>5, <1>6 DEF IInv

(* A function is called, satisfied or not: its arguments are disposed of.  *)
LEMMA CallInv ==
  ASSUME IInv, Satisfied \/ Counterexample
  PROVE  IInv'
<1>1. /\ pc = "forAll" /\ FreeArgs
      /\ \/ pc' = "forAll" /\ iteration' = iteration + 1 /\ report' = report
         \/ pc' = "idle" /\ iteration' = iteration /\ report'.seed = <<>>
      /\ UNCHANGED <<seedGen, samples, tests, iterations, gens>>
  BY DEF Satisfied, Counterexample, Called, test
<1>2. args' = <<>> /\ samples' = <<>> /\ heap' = {} /\ ~ fault'
  BY <1>1, FreeArgsFreesAll DEF IInv
<1>3. TypeOK'
  <2>1. args' \in Seq(Args) /\ Len(args') = 0
    BY <1>2
  <2>2. gens \in Seq(Gens)
    BY <1>1, BoundsAssumption DEF IInv, TypeOK
  <2> QED
    BY <1>1, <2>1, <2>2 DEF IInv, TypeOK
<1>4. InUse' /\ Owned'
  BY <1>2, NoneInUseNext
<1>5. Chained'
  BY <1>1 DEF Chained
<1>6. ReportReplays'
  BY <1>1 DEF IInv, ReportReplays
<1> QED
  BY <1>3, <1>4, <1>5, <1>6 DEF IInv

LEMMA NextArgInv ==
  ASSUME IInv, NextArg, NEW k, k = Len(args) + 1,
         NEW sample, sample = Generated(gens[k], iteration, MadeFrom(seedGen))
  PROVE  IInv'
<1>1. /\ pc = "forAll" /\ iteration < iterations /\ Len(args) < Len(gens)
      /\ args' = Append(args, sample)
      /\ heap' = heap \union Behind(gens[k], sample, <<k>>)
      /\ seedGen' = After(seedGen, 1)
      /\ UNCHANGED <<pc, iteration, samples, fault, report,
                     tests, iterations, gens>>
  BY DEF NextArg, test
<1>2. /\ samples = <<>> /\ args \in Seq(Args) /\ gens \in Seq(Gens)
      /\ seedGen \in TestRands /\ iteration \in Nat /\ iterations \in Iterations
  BY <1>1, BoundsAssumption DEF IInv, TypeOK, InUse
<1>3. k \in 1..Len(gens) /\ gens[k] \in Gens
  BY <1>1, <1>2
<1>4. iteration \in AllSizes
  BY <1>1, <1>2, BoundsAssumption DEF AllSizes
<1>5. MadeFrom(seedGen) \in SampleRands /\ seedGen' \in TestRands
  BY <1>1, <1>2, AfterType, MadeFromType
<1>6. sample \in Args
  BY <1>3, <1>4, <1>5 DEF Args
<1>7. /\ args' \in Seq(Args) /\ Len(args') = k /\ DOMAIN args' = 1..k
      /\ DOMAIN args = 1..k-1
      /\ args'[k] = sample
      /\ \A j \in 1..k-1 : args'[j] = args[j]
  BY <1>1, <1>2, <1>6
<1>8. TypeOK'
  <2>1. Len(args') <= Len(gens')
    BY <1>1, <1>2, <1>7
  <2> QED
    BY <1>1, <1>5, <1>7, <2>1 DEF IInv, TypeOK
<1>9. InUse'
  <2>1. \A j \in 1..k-1 : \E rand \in SampleRands :
          args[j] = Generated(gens[j], iteration, rand)
    BY <1>7 DEF IInv, InUse
  <2>2. args'[k] = Generated(gens[k], iteration, MadeFrom(seedGen))
    BY <1>7
  <2>3. k \in Nat
    BY <1>2
  <2>4. \A j \in 1..k : \E rand \in SampleRands :
          args'[j] = Generated(gens'[j], iteration', rand)
    <3>1. \A j \in 1..k : j = k \/ j \in 1..k-1
      BY <2>3
    <3> QED
      BY <1>1, <1>5, <1>7, <2>1, <2>2, <3>1
  <2> QED
    BY <1>1, <1>2, <1>7, <2>4 DEF InUse
<1>10. Owned'
  <2>1. heap = UNION {ArgBlocks(j) : j \in 1..k-1} /\ ~ fault
    BY <1>2, <1>7 DEF IInv, Owned
  <2>2. \A j \in 1..k-1 : ArgBlocks(j)' = ArgBlocks(j)
    BY <1>1, <1>7 DEF ArgBlocks
  <2>3. heap' = heap \union ArgBlocks(k)'
    BY <1>1, <1>7 DEF ArgBlocks
  <2>4. heap' = UNION {ArgBlocks(j)' : j \in 1..k}
    <3>1. 1..k = 1..k-1 \union {k}
      BY <1>2
    <3>2. {ArgBlocks(j)' : j \in 1..k}
            = {ArgBlocks(j) : j \in 1..k-1} \union {ArgBlocks(k)'}
      BY <2>2, <3>1
    <3>3. UNION ({ArgBlocks(j) : j \in 1..k-1} \union {ArgBlocks(k)'})
            = (UNION {ArgBlocks(j) : j \in 1..k-1}) \union ArgBlocks(k)'
      BY UnionAdds
    <3> QED
      BY <2>1, <2>3, <3>2, <3>3
  <2>5. {SampleBlocks(j)' : j \in DOMAIN samples'} = {}
    BY <1>1, <1>2
  <2> QED
    BY <1>1, <1>7, <2>1, <2>4, <2>5 DEF Owned
<1>11. Chained' /\ ReportReplays'
  BY <1>1 DEF IInv, Chained, ReportReplays
<1> QED
  BY <1>8, <1>9, <1>10, <1>11 DEF IInv

LEMMA GenerateInv ==
  ASSUME IInv, NEW g \in Gens, NEW size \in Sizes, Generate(g, size),
         NEW k, k = Len(samples) + 1,
         NEW entry, entry = [gen |-> g, size |-> size, from |-> ctxGen,
                             sample |-> Generated(g, size, ctxGen)]
  PROVE  IInv'
<1>1. /\ pc = "prop" /\ Len(samples) < MaxSamples
      /\ samples' = Append(samples, entry)
      /\ heap' = heap \union {Cell(k), SampleAt(k)}
                      \union Behind(g, Generated(g, size, ctxGen), <<k>>)
      /\ ctxGen' = After(ctxGen, Draws(g, size))
      /\ UNCHANGED <<pc, iteration, seedGen, seed, args, fault, report,
                     tests, iterations, gens>>
  BY DEF Generate, test
<1>2. /\ samples \in Seq(Samples) /\ args = <<>>
      /\ seedGen \in TestRands /\ seed \in TestRands /\ ctxGen \in SampleRands
  BY <1>1 DEF IInv, TypeOK, InUse
<1>3. entry \in Samples
  BY <1>2 DEF Samples
<1>4. /\ samples' \in Seq(Samples) /\ Len(samples') = k /\ k \in Nat
      /\ DOMAIN samples' = 1..k /\ DOMAIN samples = 1..k-1
      /\ samples'[k] = entry
      /\ \A j \in 1..k-1 : samples'[j] = samples[j]
  BY <1>1, <1>2, <1>3
<1>5. ctxGen' \in SampleRands
  BY <1>1, <1>2, AfterType, GeneratorAssumption DEF AllSizes
<1>6. TypeOK'
  <2>1. Len(samples') <= MaxSamples
    BY <1>1, <1>2, <1>4, BoundsAssumption
  <2> QED
    BY <1>1, <1>4, <1>5, <2>1 DEF IInv, TypeOK
<1>7. InUse'
  BY <1>1, <1>2 DEF InUse
<1>8. Owned'
  <2>1. heap = UNION {SampleBlocks(j) : j \in 1..k-1} /\ ~ fault
    BY <1>2, <1>4 DEF IInv, Owned
  <2>2. \A j \in 1..k-1 : SampleBlocks(j)' = SampleBlocks(j)
    BY <1>4 DEF SampleBlocks
  <2>3. heap' = heap \union SampleBlocks(k)'
    BY <1>1, <1>4 DEF SampleBlocks
  <2>4. heap' = UNION {SampleBlocks(j)' : j \in 1..k}
    <3>1. 1..k = 1..k-1 \union {k}
      BY <1>4
    <3>2. {SampleBlocks(j)' : j \in 1..k}
            = {SampleBlocks(j) : j \in 1..k-1} \union {SampleBlocks(k)'}
      BY <2>2, <3>1
    <3>3. UNION ({SampleBlocks(j) : j \in 1..k-1} \union {SampleBlocks(k)'})
            = (UNION {SampleBlocks(j) : j \in 1..k-1}) \union SampleBlocks(k)'
      BY UnionAdds
    <3> QED
      BY <2>1, <2>3, <3>2, <3>3
  <2>5. {ArgBlocks(j)' : j \in DOMAIN args'} = {}
    BY <1>1, <1>2
  <2> QED
    BY <1>1, <1>4, <2>1, <2>4, <2>5 DEF Owned
<1>9. Chained'
  <2>1. ctxGen = IF k = 1 THEN MadeFrom(seed)
                 ELSE After(samples[k-1].from, Draws(samples[k-1].gen, samples[k-1].size))
    BY <1>1, <1>2 DEF IInv, Chained
  <2>2. Replays(MadeFrom(seed), samples)
    BY <1>1 DEF IInv, Chained
  <2>3. ASSUME NEW j \in 1..k
        PROVE  /\ samples'[j].from
                    = IF j = 1 THEN MadeFrom(seed)
                      ELSE After(samples'[j-1].from,
                                 Draws(samples'[j-1].gen, samples'[j-1].size))
               /\ samples'[j].sample
                    = Generated(samples'[j].gen, samples'[j].size, samples'[j].from)
    <3>1. j # 1 => j-1 \in 1..k-1
      BY <1>4
    <3>2. CASE j = k
      BY <1>4, <2>1, <3>1, <3>2
    <3>3. CASE j # k
      <4>1. j \in 1..k-1
        BY <1>4, <3>3
      <4> QED
        BY <1>4, <2>2, <3>1, <4>1 DEF Replays
    <3> QED
      BY <3>2, <3>3
  <2>4. Replays(MadeFrom(seed'), samples')
    BY <1>1, <1>4, <2>3 DEF Replays
  <2>5. ctxGen' = After(samples'[k].from, Draws(samples'[k].gen, samples'[k].size))
    BY <1>1, <1>4
  <2>6. k # 0
    BY <1>2
  <2> QED
    BY <1>4, <2>4, <2>5, <2>6 DEF Chained
<1>10. ReportReplays'
  BY <1>1 DEF IInv, ReportReplays
<1> QED
  BY <1>6, <1>7, <1>8, <1>9, <1>10 DEF IInv

-----------------------------------------------------------------------------
(***************************************************************************)
(* The invariant of the tester: what is allocated is what its samples or   *)
(* arguments use, and what generate gave so far comes from the seed.       *)
(***************************************************************************)
THEOREM Invariance == Spec => []IInv
<1>1. Init => IInv
  <2> SUFFICES ASSUME Init PROVE IInv
    OBVIOUS
  <2>1. TypeOK
    BY BoundsAssumption DEF Init, TypeOK
  <2> QED
    BY <2>1 DEF Init, IInv, InUse, Owned, Chained, ReportReplays
<1>2. IInv /\ [Next]_vars => IInv'
  <2> SUFFICES ASSUME IInv, [Next]_vars PROVE IInv'
    OBVIOUS
  <2>1. ASSUME NEW n \in Iterations,
               StartProp(n) \/ \E gs \in ArgLists : StartForAll(n, gs)
        PROVE  IInv'
    BY <2>1, StartInv
  <2>2. ASSUME NEW g \in Gens, NEW size \in Sizes, Generate(g, size)
        PROVE  IInv'
    BY <2>2, GenerateInv
  <2>3. CASE Imperative
    BY <2>3, IterateInv, EndsInv, LeavePropInv DEF Imperative
  <2>4. CASE Functional
    BY <2>4, NextArgInv, EndsInv, CallInv DEF Functional
  <2>5. CASE UNCHANGED vars
    <3>1. TypeOK' /\ InUse'
      BY <2>5 DEF vars, test, IInv, TypeOK, InUse
    <3>2. Owned'
      <4>1. /\ pc' = pc /\ heap' = heap /\ fault' = fault
            /\ samples' = samples /\ args' = args /\ gens' = gens
        BY <2>5 DEF vars, test
      <4>2. /\ \A k : SampleBlocks(k)' = SampleBlocks(k)
            /\ \A k : ArgBlocks(k)' = ArgBlocks(k)
        BY <4>1 DEF SampleBlocks, ArgBlocks
      <4> QED
        BY <4>1, <4>2 DEF IInv, Owned
    <3>3. Chained' /\ ReportReplays'
      BY <2>5 DEF vars, test, IInv, Chained, ReportReplays
    <3> QED
      BY <3>1, <3>2, <3>3 DEF IInv
  <2> QED
    BY <2>1, <2>2, <2>3, <2>4, <2>5 DEF Next
<1> QED
  BY <1>1, <1>2, PTL DEF Spec

(***************************************************************************)
(* The tester frees each block its generators allocate once, also when an  *)
(* assertion leaves a property, and no test leaves a block behind.         *)
(***************************************************************************)
THEOREM NothingIsLeftBehind == Spec => []Owned
<1>1. IInv => Owned
  BY DEF IInv
<1> QED
  BY <1>1, Invariance, PTL

(***************************************************************************)
(* The seed that a failure reports gives the samples it shows again.       *)
(***************************************************************************)
THEOREM SeedsReplay == Spec => []ReportReplays
<1>1. IInv => ReportReplays
  BY DEF IInv
<1> QED
  BY <1>1, Invariance, PTL
-----------------------------------------------------------------------------
(* The loops of the tests count.                                           *)

LEMMA Naturals ==
  ASSUME TypeOK
  PROVE  iteration \in Nat /\ iterations \in Nat
BY BoundsAssumption DEF TypeOK

LEMMA CountsStep ==
  ASSUME TypeOK, Counts, [Next]_vars
  PROVE  Counts'
<1>1. iteration \in Nat /\ iterations \in Nat
  BY Naturals
<1>2. ASSUME NEW n \in Iterations,
             StartProp(n) \/ \E gs \in ArgLists : StartForAll(n, gs)
      PROVE  Counts'
  <2>1. n \in Nat
    BY BoundsAssumption
  <2> QED
    BY <1>2, <2>1 DEF StartProp, StartForAll, Start, Counts
<1>3. ASSUME NEW g \in Gens, NEW size \in Sizes, Generate(g, size)
      PROVE  Counts'
  BY <1>3 DEF Generate, test, Counts
<1>4. CASE Imperative
  BY <1>1, <1>4 DEF Imperative, Iterate, PropEnds, Ends, AssertFails, PropReturns, test, Counts
<1>5. CASE Functional
  BY <1>1, <1>5
     DEF Functional, NextArg, ForAllEnds, Ends, Satisfied, Counterexample, Called, test, Counts
<1>6. CASE UNCHANGED vars
  BY <1>6 DEF vars, test, Counts
<1> QED
  BY <1>2, <1>3, <1>4, <1>5, <1>6 DEF Next

LEMMA ImperativeShrinks ==
  ASSUME TypeOK, Counts, Imperative
  PROVE  Left' \in 0..Left-1
<1>1. iteration \in Nat /\ iterations \in Nat
  BY Naturals
<1>2. CASE Iterate
  BY <1>1, <1>2 DEF Iterate, test, Left
<1>3. CASE PropEnds
  BY <1>1, <1>3 DEF PropEnds, Ends, Counts, Left
<1>4. CASE AssertFails
  BY <1>1, <1>4 DEF AssertFails, Counts, Left
<1>5. CASE PropReturns
  BY <1>1, <1>5 DEF PropReturns, test, Counts, Left
<1> QED
  BY <1>2, <1>3, <1>4, <1>5 DEF Imperative

LEMMA FunctionalShrinks ==
  ASSUME TypeOK, Counts, InUse, Functional
  PROVE  Left' \in 0..Left-1
<1> DEFINE n == iterations - iteration
           m == Len(gens) + 1
<1>1. /\ iteration \in Nat /\ iterations \in Nat
      /\ pc = "forAll" /\ iteration <= iterations
  BY Naturals DEF Functional, NextArg, ForAllEnds, Satisfied, Counterexample, Called, Counts
<1>2. /\ Len(args) \in Nat /\ Len(gens) \in Nat /\ Len(args) <= Len(gens)
      /\ args \in Seq(Args)
  BY <1>1, BoundsAssumption DEF TypeOK
<1>3. n \in Nat /\ m \in Nat /\ m = Len(gens) + 1
      /\ Left = n * m - Len(args) + 1
  BY <1>1, <1>2 DEF Left
<1> HIDE DEF n, m
<1>4. n > 0 => n * m = (n - 1) * m + m /\ (n - 1) * m \in Nat
  <2>1. ASSUME NEW a \in Nat, NEW b \in Nat, a > 0
        PROVE  a * b = (a - 1) * b + b /\ (a - 1) * b \in Nat
    BY <2>1
  <2> QED
    BY <1>3, <2>1
<1>5. CASE NextArg
  <2>1. /\ Len(args') = Len(args) + 1 /\ Len(args) < Len(gens)
        /\ pc' = "forAll" /\ n' = n /\ m' = m /\ n > 0
    BY <1>1, <1>2, <1>5 DEF NextArg, test, n, m
  <2>2. Left' = n * m - Len(args') + 1
    BY <2>1 DEF Left, n, m
  <2> QED
    BY <1>2, <1>3, <1>4, <2>1, <2>2
<1>6. CASE ForAllEnds
  <2>1. iteration = iterations /\ pc' = "idle"
    BY <1>1, <1>6 DEF ForAllEnds, Ends
  <2>2. Len(args) = 0 /\ n = 0
    BY <1>1, <2>1 DEF InUse, n
  <2>3. Left = 1 /\ Left' = 0
    BY <1>3, <2>1, <2>2 DEF Left
  <2> QED
    BY <2>3
<1>7. CASE Satisfied
  <2>1. /\ Len(args) = Len(gens) /\ pc' = "forAll" /\ args' = <<>>
        /\ iteration' = iteration + 1 /\ n' = n - 1 /\ m' = m /\ n > 0
    BY <1>1, <1>7 DEF Satisfied, Called, FreeArgs, test, n, m
  <2>2. Left' = (n - 1) * m - 0 + 1
    BY <2>1 DEF Left, n, m
  <2> QED
    BY <1>2, <1>3, <1>4, <2>1, <2>2
<1>8. CASE Counterexample
  <2>1. Len(args) = Len(gens) /\ pc' = "idle" /\ n > 0
    BY <1>1, <1>8 DEF Counterexample, Called, n
  <2>2. Left' = 0
    BY <2>1 DEF Left
  <2> QED
    BY <1>2, <1>3, <1>4, <2>1, <2>2
<1> QED
  BY <1>5, <1>6, <1>7, <1>8 DEF Functional

(***************************************************************************)
(* A test ends after at most as many steps as its iterations and its       *)
(* arguments give, whatever its property does: on every path of the two    *)
(* loops an iteration is counted or the test is left, and asking for       *)
(* samples starts no loop over.                                            *)
(***************************************************************************)
THEOREM TestsAreFinite == Spec => LeftShrinks
<1>1. Init => Counts
  BY DEF Init, Counts
<1>2. IInv /\ Counts /\ [Next]_vars => Counts'
  BY CountsStep DEF IInv
<1>3. IInv /\ Counts /\ [Next]_vars
        => [ /\ Imperative \/ Functional => Left' \in 0..Left-1
             /\ pc = "prop" /\ pc' = "prop" => Left' = Left ]_vars
  <2> SUFFICES ASSUME IInv, Counts, [Next]_vars
               PROVE  /\ Imperative \/ Functional => Left' \in 0..Left-1
                      /\ pc = "prop" /\ pc' = "prop" => Left' = Left
    OBVIOUS
  <2>1. Imperative \/ Functional => Left' \in 0..Left-1
    BY ImperativeShrinks, FunctionalShrinks DEF IInv
  <2>2. ASSUME pc = "prop", pc' = "prop"
        PROVE  Left' = Left
    <3>1. \/ \E g \in Gens, size \in Sizes : Generate(g, size)
          \/ UNCHANGED vars
      BY <2>2 DEF Next, StartProp, StartForAll, Imperative, Iterate, PropEnds, Ends,
                  AssertFails, PropReturns, Functional, NextArg, ForAllEnds, Satisfied,
                  Counterexample, Called
    <3>2. iteration' = iteration /\ iterations' = iterations
      BY <3>1 DEF Generate, vars, test
    <3> QED
      BY <2>2, <3>2 DEF Left
  <2> QED
    BY <2>1, <2>2
<1> QED
  BY <1>1, <1>2, <1>3, Invariance, PTL DEF Spec, LeftShrinks
=============================================================================
