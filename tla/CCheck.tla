------------------------------- MODULE CCheck -------------------------------
(***************************************************************************)
(* The property tester src/ccheck/ccheck.c: a test runs a property for     *)
(* some iterations, either an imperative one that asks its context for     *)
(* samples (CCHECK_test_prop_impl), or a function that is called with one  *)
(* sample of each of a list of generators (CCHECK_test_forAll_impl).  The  *)
(* property is any function; CUnit starts the tests and is left by the     *)
(* longjmp of a fatal assertion.                                           *)
(***************************************************************************)
EXTENDS Integers, Sequences

CONSTANTS
  Gens,               \* the generators made before the first test
  Draws(_, _),        \* how many words generate draws for a size
  Generated(_, _, _), \* the sample it makes of a size and a SplitMix64
  Behind(_, _, _),    \* the blocks it allocates for the sample at a place
  Frees(_, _, _),     \* the blocks CCHECK_Gen_dispose frees
  Sizes,         \* the sizes a property asks for
  ArgLists,      \* the lists of generators of the tests of functions
  Iterations,    \* the numbers of iterations of the tests
  MaxSamples,    \* bound: samples of one iteration
  MaxTests,      \* bound: tests that are run
  Period         \* words until a generator repeats them

ASSUME BoundsAssumption ==
  /\ MaxSamples \in Nat /\ MaxTests \in Nat /\ Period \in Nat \ {0}
  /\ Sizes \subseteq Nat /\ Iterations \subseteq Nat
  /\ ArgLists \subseteq Seq(Gens)

(* A SplitMix64 is what it was made from, the number of a test or the word *)
(* that another gave, and how many words were drawn from it.               *)
After(rand, n) == [rand EXCEPT ![2] = (@ + n) % Period]
MadeFrom(word) == <<word, 0>>

TestRands   == (1..MaxTests) \X (0..Period-1)
SampleRands == TestRands \X (0..Period-1)
AllSizes    == Sizes \union UNION {0..n-1 : n \in Iterations}
Places      == 1..MaxSamples \union UNION {1..Len(gs) : gs \in ArgLists}

(* The cell of a sample in the list of the context, and its place: nothing *)
(* else is at an element numbered 0 or -1.                                 *)
Cell(k)       == <<k, 0>>
SampleAt(k)   == <<k, -1>>

(* What a test needs of its generators, those of ccheck.c or others: what  *)
(* is allocated for a sample is named after its place, and dispose frees   *)
(* what generate allocated.                                                *)
ASSUME GeneratorAssumption ==
  \A g \in Gens, size \in AllSizes :
    /\ Draws(g, size) \in Nat
    /\ \A rand \in SampleRands, k \in Places :
         LET sample == Generated(g, size, rand)
             blocks == Behind(g, sample, <<k>>)
         IN  /\ Frees(g, sample, <<k>>) = blocks
             /\ \A b \in blocks : b[1] = k /\ b \notin {Cell(k), SampleAt(k)}

VARIABLES
  pc,        \* "idle", "loop" and "prop" in test_prop, "forAll" in test_forAll
  tests,     \* how many tests were started
  iteration, iterations,
  seedGen,   \* the generator of the test
  seed,      \* ctx.seed
  ctxGen,    \* ctx.seedGen
  samples,   \* ctx.samples: the generator, the size and the sample of each;
             \* "from" is history: the ctx.seedGen that it was made of
  gens,      \* the generators of the arguments
  args,      \* values: the arguments generated in this iteration
  heap,      \* the blocks that are allocated
  fault,     \* a block was used, or freed, that was not allocated
  report     \* what the last failure showed

test == <<tests, iterations, gens>>
vars == <<pc, iteration, seedGen, seed, ctxGen, samples, args, heap, fault, report, test>>
-----------------------------------------------------------------------------
Init ==
  /\ pc = "idle" /\ tests = 0
  /\ iteration = 0 /\ iterations = 0
  /\ seedGen = MadeFrom(0) /\ seed = MadeFrom(0) /\ ctxGen = MadeFrom(0)
  /\ samples = <<>> /\ gens = <<>> /\ args = <<>>
  /\ heap = {} /\ fault = FALSE
  /\ report = [seed |-> <<>>, shown |-> <<>>]

(* A loop that frees the blocks parts[k] at its turn k.                    *)
Free(parts) ==
  /\ fault' = (fault \/ \E k \in DOMAIN parts :
                           ~ (parts[k] \subseteq heap \ UNION {parts[j] : j \in 1..k-1}))
  /\ heap' = heap \ UNION {parts[k] : k \in DOMAIN parts}

(* The test makes a generator of its own, from one it is given or from the *)
(* default generator: a function's when it is added to the suite.         *)
Start(n) ==
  /\ pc = "idle"
  /\ tests < MaxTests
  /\ tests' = tests + 1
  /\ iteration' = 0
  /\ iterations' = n
  /\ seedGen' = MadeFrom(tests')
  /\ UNCHANGED <<seed, ctxGen, samples, args, heap, fault, report>>

Ends ==
  /\ iteration >= iterations
  /\ pc' = "idle"
  /\ UNCHANGED <<iteration, seedGen, seed, ctxGen, samples, args, heap, fault, report, test>>

StartProp(n) == Start(n) /\ pc' = "loop" /\ gens' = <<>>

PropEnds == pc = "loop" /\ Ends

(* Mutant: the context goes on with the generator it has.                  *)
IterateOn ==
  /\ pc = "loop"
  /\ iteration < iterations
  /\ pc' = "prop"
  /\ seed' = seedGen
  /\ seedGen' = After(seedGen, 1)
  /\ ctxGen' = IF iteration = 0 THEN MadeFrom(seed') ELSE ctxGen
  /\ UNCHANGED <<iteration, samples, args, heap, fault, report, test>>

Iterate ==
  /\ pc = "loop"
  /\ iteration < iterations
  /\ pc' = "prop"
  /\ seed' = seedGen
  /\ seedGen' = After(seedGen, 1)
  /\ ctxGen' = MadeFrom(seed')
  /\ UNCHANGED <<iteration, samples, args, heap, fault, report, test>>

(* CCHECK_generate.                                                        *)
Generate(g, size) ==
  /\ pc = "prop"
  /\ Len(samples) < MaxSamples
  /\ LET k == Len(samples) + 1
         sample == Generated(g, size, ctxGen)
     IN  /\ samples' = Append(samples, [gen |-> g, size |-> size,
                                        from |-> ctxGen, sample |-> sample])
         /\ heap' = heap \union {Cell(k), SampleAt(k)} \union Behind(g, sample, <<k>>)
  /\ ctxGen' = After(ctxGen, Draws(g, size))
  /\ UNCHANGED <<pc, iteration, seedGen, seed, args, fault, report, test>>

(* Mutant: the samples are freed and not disposed of.                      *)
ResetShallow ==
  /\ Free([k \in DOMAIN samples |-> {Cell(k), SampleAt(k)}])
  /\ samples' = <<>>

(* CCHECK_Context_reset.                                                   *)
Reset ==
  /\ Free([k \in DOMAIN samples |->
             Frees(samples[k].gen, samples[k].sample, <<k>>) \union {Cell(k), SampleAt(k)}])
  /\ samples' = <<>>

(* CCHECK_assert_prop_impl on FALSE: the samples are shown, then disposed  *)
(* of, and the assertion leaves the test.                                  *)
AssertFails ==
  /\ pc = "prop"
  /\ report' = [seed |-> seed, shown |-> samples]
  /\ Reset
  /\ pc' = "idle"
  /\ UNCHANGED <<iteration, seedGen, seed, ctxGen, args, test>>

PropReturns ==
  /\ pc = "prop"
  /\ Reset
  /\ iteration' = iteration + 1
  /\ pc' = "loop"
  /\ UNCHANGED <<seedGen, seed, ctxGen, args, report, test>>
-----------------------------------------------------------------------------
StartForAll(n, gs) == Start(n) /\ pc' = "forAll" /\ gens' = gs

ForAllEnds == pc = "forAll" /\ Ends

(* Each argument has a generator split off that of the test; the iteration *)
(* is the size.                                                            *)
NextArg ==
  /\ pc = "forAll"
  /\ iteration < iterations
  /\ Len(args) < Len(gens)
  /\ LET k == Len(args) + 1
         sample == Generated(gens[k], iteration, MadeFrom(seedGen))
     IN  /\ args' = Append(args, sample)
         /\ heap' = heap \union Behind(gens[k], sample, <<k>>)
  /\ seedGen' = After(seedGen, 1)
  /\ UNCHANGED <<pc, iteration, seed, ctxGen, samples, fault, report, test>>

FreeArgs ==
  /\ Free([k \in DOMAIN args |-> Frees(gens[k], args[k], <<k>>)])
  /\ args' = <<>>

Called == pc = "forAll" /\ iteration < iterations /\ Len(args) = Len(gens)

(* Mutant: the loop does not count.                                        *)
SatisfiedUncounted ==
  /\ Called
  /\ FreeArgs
  /\ UNCHANGED <<pc, iteration, seedGen, seed, ctxGen, samples, report, test>>

Satisfied ==
  /\ Called
  /\ FreeArgs
  /\ iteration' = iteration + 1
  /\ UNCHANGED <<pc, seedGen, seed, ctxGen, samples, report, test>>

(* The report shows the arguments and no seed, and the test returns.       *)
Counterexample ==
  /\ Called
  /\ report' = [seed |-> <<>>,
                shown |-> [k \in DOMAIN args |->
                             [gen |-> gens[k], size |-> iteration, sample |-> args[k]]]]
  /\ FreeArgs
  /\ pc' = "idle"
  /\ UNCHANGED <<iteration, seedGen, seed, ctxGen, samples, test>>

Imperative == Iterate \/ PropEnds \/ AssertFails \/ PropReturns
Functional == NextArg \/ ForAllEnds \/ Satisfied \/ Counterexample

Next ==
  \/ \E n \in Iterations : StartProp(n) \/ \E gs \in ArgLists : StartForAll(n, gs)
  \/ \E g \in Gens, size \in Sizes : Generate(g, size)
  \/ Imperative \/ Functional

(* A property returns or fails, and then the test goes on.                 *)
Spec == Init /\ [][Next]_vars /\ WF_vars(Imperative \/ Functional)
-----------------------------------------------------------------------------
(***************************************************************************)
(* Types, and which data a state of the tester uses.                       *)
(***************************************************************************)
Samples ==
  {[gen |-> g, size |-> size, from |-> rand, sample |-> Generated(g, size, rand)] :
     g \in Gens, size \in Sizes, rand \in SampleRands}
Args == {Generated(g, size, rand) : g \in Gens, size \in AllSizes, rand \in SampleRands}

TypeOK ==
  /\ pc \in {"idle", "loop", "prop", "forAll"}
  /\ tests \in 0..MaxTests /\ iteration \in Nat /\ iterations \in Iterations \union {0}
  /\ pc # "idle" => seedGen \in TestRands
  /\ pc = "prop" => seed \in TestRands /\ ctxGen \in SampleRands
  /\ pc = "forAll" => gens \in ArgLists /\ Len(args) <= Len(gens)
  /\ samples \in Seq(Samples) /\ Len(samples) <= MaxSamples
  /\ args \in Seq(Args)

(* A context has samples while its property runs, a function has arguments *)
(* while it is called.                                                     *)
InUse ==
  /\ pc # "prop" => samples = <<>>
  /\ args # <<>> => pc = "forAll" /\ iteration < iterations
  /\ \A k \in DOMAIN args : \E rand \in SampleRands :
        args[k] = Generated(gens[k], iteration, rand)

(* The list is what generate gives in turn, the first time from rand.      *)
Replays(rand, list) ==
  \A k \in DOMAIN list :
    /\ list[k].from = IF k = 1 THEN rand
                      ELSE After(list[k-1].from, Draws(list[k-1].gen, list[k-1].size))
    /\ list[k].sample = Generated(list[k].gen, list[k].size, list[k].from)

(* The blocks of a sample, and of an argument, that are allocated.         *)
SampleBlocks(k) ==
  Behind(samples[k].gen, samples[k].sample, <<k>>) \union {Cell(k), SampleAt(k)}
ArgBlocks(k) == Behind(gens[k], args[k], <<k>>)

(***************************************************************************)
(* The blocks in use are those of the samples of this iteration, each is   *)
(* freed once (CCHECK_Context_reset and the loops that dispose of the      *)
(* arguments), also when a failure ends the test, and between tests none   *)
(* is left.                                                                *)
(***************************************************************************)
Owned ==
  /\ ~ fault
  /\ pc = "idle" => heap = {}
  /\ heap = (UNION {SampleBlocks(k) : k \in DOMAIN samples})
              \union (UNION {ArgBlocks(k) : k \in DOMAIN args})

(***************************************************************************)
(* The seed in the report of an imperative property is enough to see the   *)
(* failure again: the property, run once with a context made from it,      *)
(* gets the samples shown, in their order (CCHECK_assert_prop_impl).       *)
(***************************************************************************)
ReportReplays == report.seed # <<>> => Replays(MadeFrom(report.seed), report.shown)

(* While the property runs the context is where its last sample left it.   *)
Chained ==
  pc = "prop" =>
    /\ Replays(MadeFrom(seed), samples)
    /\ ctxGen = LET n == Len(samples)
                IN  IF n = 0 THEN MadeFrom(seed)
                    ELSE After(samples[n].from, Draws(samples[n].gen, samples[n].size))

IInv == TypeOK /\ InUse /\ Owned /\ Chained /\ ReportReplays

(***************************************************************************)
(* How many steps of its own a test has left at most, and that each step   *)
(* leaves fewer: the loops of CCHECK_test_prop_impl and                    *)
(* CCHECK_test_forAll_impl count up to the iterations on every path.       *)
(***************************************************************************)
Counts ==
  /\ pc # "idle" => iteration <= iterations
  /\ pc = "prop" => iteration < iterations

Left ==
  IF pc = "idle" THEN 0
  ELSE IF pc = "forAll" THEN (iterations - iteration) * (Len(gens) + 1) - Len(args) + 1
  ELSE 2 * (iterations - iteration) + (IF pc = "loop" THEN 1 ELSE 0)

LeftShrinks ==
  [][ /\ Imperative \/ Functional => Left' \in 0..Left-1
      /\ pc = "prop" /\ pc' = "prop" => Left' = Left ]_vars

(***************************************************************************)
(* A test that is started comes to an end, if its property does.           *)
(***************************************************************************)
TestsEnd == pc # "idle" ~> pc = "idle"
=============================================================================
