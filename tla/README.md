# mlkem-selkie in TLA+

This directory models the Rust crate `mlkem-selkie`, an implementation of ML-KEM
(FIPS 203), and the two programs of its CI that keep state, checks the models with
TLC and proves the main results with TLAPS.
Paths such as `src/lib.rs:491` are relative to the root of the crate, `PROJECT.json`
maps every definition to the lines it stands for, and the parts of this text that
name a property use the name of its definition.

Contents: [the system](#1-the-system), [modules](#2-modules),
[runs](#3-runs), [findings](#4-where-the-code-and-its-docs-differ),
[proofs](#5-proofs), [what is left out](#6-not-modelled), [plan](#7-plan),
[how to run](#8-running).

## 1. The system

The repository has two halves. The crate is a library of pure functions over fixed-size values. It has no threads,
no callbacks, no files and no timers, and every loop but one is bounded. What is
hard about it is therefore not scheduling but the following.

- **Objects that live long and travel as bytes.** Keys cache what they could
  recompute (a hash, a transposed matrix). They are exported, kept, perhaps damaged,
  cut or re-encoded by other software, and parsed again in any order with other calls.
- **Batching.** XOF and PRF streams are squeezed two or four at a time, buffered and
  handed out one by one. A batch straddles rows and vectors, and its lanes fill at
  different times.
- **One function, several kernels.** `build.rs` selects AVX2, NEON or portable code.
  All must give the same bytes, and the vector kernels read and write through raw
  pointers past what they need.
- **Lazy arithmetic.** Coefficients are `i16` representatives that are reduced only
  where a bound makes it necessary, products carry a power of the Montgomery radix
  R = 2^16, divisions are mul-shifts.

The other half are the CI programs that keep state outside the repository, and there
everything that the crate lacks is found: jobs that run side by side and are
cancelled between two calls, calls that fail before or after they took effect, and
people who work on the same objects.

- `ci-upload.rs` and `ci-signal.rs` replace the files of a data site, one remote call
  after the other, without a transaction or a lock.
- `track-issue.js` keeps one GitHub issue per check in step with the results of
  scheduled runs, and nothing but the issue itself remembers what was reported.

### Components

| Component (source) | State it keeps | Operations | What makes it correct |
|---|---|---|---|
| ML-KEM API (`src/lib.rs`) | `DecapsulationKey` (secret vector, encapsulation key, H(ek), z), `EncapsulationKey` (t, rho, A^T, H(ek)) | generate, share, to/from bytes of keys and ciphertexts, encapsulate, decapsulate | caches are those of the key; both ends agree; anything not encapsulated to this key is rejected implicitly; an accepted key reloads from its own bytes |
| K-PKE (`src/PKE.rs`) | the encryption and decryption keys | new_derand, encrypt, decrypt, byte forms, matrix expansion | matrix entries cancel, powers of R are consistent, noise streams are distinct, operands keep to the bounds of the kernels |
| Matrix sampling (`src/PKE.rs`, `src/sampling.rs`, `src/sampling/arch`) | lazy iterator, four XOF lanes, an output buffer per lane | refill, squeeze, reject, yield, transpose | entry (i, j) is the whole sample of its own stream; kernels agree; no store outside the buffer; the loop ends |
| Noise sampling (`src/sampling.rs`, `src/functions.rs`) | the sampler: next stream, streams remaining, a batch | new, refill, sample_element | n-th sample is stream first + n; no lane squeezed without need |
| Field (`src/algebraic/field.rs`) | none | new, reduce, Montgomery and Barrett multiplication, compress, decompress | exact modulo q and within the stated bounds for every machine word |
| Ring (`src/algebraic/poly*`, `vector`, `matrix`) | none; a multiplication cache per operand | ntt, ntt_inverse, multiply, accumulated_dot | transforms are those of FIPS 203 up to R; no `i16` wraps; cached products are products |
| Byte packing (`src/encoding*`) | a 128-bit accumulator, or none | pack, unpack | ByteEncode_d and ByteDecode_d for each width, backend and input length |
| AVX2 and NEON ring kernels (`src/algebraic/poly/arch/avx2.rs`, `neon.rs`) | registers; accumulator planes | the same operations in lanes, trips and, on Apple targets, pipelined assembly | the values of the portable backend, modulo q or to the bit |
| Parameter sets, hash functions (`src/parameters.rs`, `src/functions.rs`) | none | constants; wrappers of the crate `sha3_selkie` | taken as constants and injective terms |
| Publishing (`.github/scripts/ci-upload.rs`, `ci-signal.rs`) | per kind of data: status, latest, index and a file per commit; one manifest | signal, validate, put, index, prune, update the manifest | a clean upload publishes its commit; nothing recent is lost or pruned |
| Issue tracking (`.github/scripts/track-issue.js`, `toolchain-canary.yml`, `audit.yml`) | GitHub's issues and their comments | find, create, list comments, comment, close | one open issue per check; it shows the last report, and in the end the truth |
| Zeroization, `ctgrind.rs`, `build.rs`, report scripts, tests | none that another component reads | | not modelled, see section 6 |

### How they interact

All interaction is by call, downwards: the API calls K-PKE; K-PKE calls the matrix
expansion, the noise sampler and the ring; these call the field, the XOF and the
packing. The only shared state is what one call caches inside a key and a later call
reads (H(ek), A^T). The only messages are the byte strings that leave the library and
come back. The two CI programs share with each other and with the crate only the
results that its tests and benchmarks print. The hazards in `PROJECT.json` follow these seams and the numeric and
memory boundaries of the kernels.

## 2. Modules

```
                 MlKem  ---refines--->  IdealKem
                   |  EXTENDS
                 KPke                    what decrypt needs of K-PKE, as terms
                   .
                   .  justified by
                RingPke                  K-PKE over symbolic ring elements
               /   |    \
    MatrixExpand CbdRun  NttRun -------- NttAsmRun -- NeonAsm
        |          |       |             bounds, powers of R, streams
  RejectKernels CbdSampler VectorBackends -- Avx2Ring, NeonRing
                CbdBits    |                     |
                          Ntt               VectorLanes
                           |
    FieldSweep, VectorSweep ---- ZetaTables -- FieldElement

    BitLanes -- BitPacking -- BitWords   the byte forms RingPke and KPke abstract

    TrackIssue ---refines---> IdealTracker          CiUpload
```

| Module | Models | Variables and actions against the code |
|---|---|---|
| `KPke` | K-PKE as the KEM sees it | keys and ciphertexts are records of the seeds they come from; an encoding says whether a 12-bit field is at or above q |
| `MlKem` | `src/lib.rs` | `dk`, `ek`: the live objects; `bytes`: serialized forms outside; `verdict`: last `from_bytes` result; one action per public operation; `Alter` is the environment between two calls; `sent`, `opened`, `origin` are histories |
| `IdealKem` | no code: the promise of a KEM with implicit rejection as a table of issued secrets | `Issue`, `Answer` |
| `RejectKernels` | scalar and vector `rej_sample` | two kernels (`out`, `count`, `pos`, `busy`) on one stream; `ScalarChunk`, `VectorGroup`, their returns, `Squeeze`. A candidate is its position, the set `accepted` is the XOF's choice |
| `MatrixExpand` | `TqMatrix::expand`, the iterator behind it, `sample_ntt_x4`, `transpose` | `next`, `taken`, `batch` of the iterator; `sampler` with four lanes; `entries`, `transposed` |
| `CbdSampler`, `CbdRun` | `CbdSampler` and the batched PRF | `sampler` is the struct; `SampleElement` is `sample_element` with its refill |
| `CbdBits` | `sample_cbd_eta2`, `sample_cbd_eta3` | the masked copies, their sum and the fields cut from it, of the bits of a lane; extends `CbdRun` |
| `FieldElement`, `ZetaTables` | `field.rs` and the tables of `poly/arch.rs` | operators at machine width; an `i32` is an upper and a lower half |
| `FieldSweep`, `VectorSweep` | no code: hands every `i16` to the field, and the 16 or 8 adjacent ones to the lane kernels | `x` |
| `Ntt` | the portable transforms and base multiplication | a layer is an operator |
| `VectorLanes` | what the two intrinsics tiers share: lane-wise `mulhi`, wrapped sums, unpacking | a vector is a function on its lanes |
| `Avx2Ring`, `NeonRing` | the intrinsics of `avx2.rs` and `neon.rs` | one operator per function; a trip of a transform is a map of positions and zetas |
| `NeonAsm` | `ntt_stride128_asm`, `ntt_stride64_group_asm` | the instruction lists of the source, and a machine of `registers`, `memory` and a pointer, over terms |
| `VectorBackends` | `avx2.rs` and `neon.rs` side by side | the two instances `A` and `N` that a build selects from |
| `NttRun` | `ntt`, product and `ntt_inverse` on the chosen backend | `NttStep`, `InverseStep` apply one layer of the portable code; `HeadTrip`, `QuarterTrip` one trip of a vector backend; `bound`, `peak` follow the worst case. Its specification is `NttSpec` |
| `NttAsmRun` | the assembly of an Apple build, in front of its `ntt` | extends `NttRun`: `machine` of `NeonAsm`; `AsmStep` is one instruction, `AsmCall` the next call. When all have run, the transform goes on with `HeadTrip`, whose result `PipelineIsButterflies` compares with the memory that the instructions left |
| `BitWords` | machine words whose positions hold the numbers of the message bits there | |
| `BitPacking` | scalar `pack`, `unpack` | `accumulator`, `bits`, `words`, `out`, value by value; refill and store are inside the step as in the loop |
| `BitLanes` | AVX2 and NEON `pack`, `unpack` | extends `BitPacking`: after the scalar form, `Dispatch` hands the same input to each kernel that takes it. `StoreGroup` and `GatherValues` take one group of eight values per step, lookups, lane shifts and stores included; `ZipNibbles` is NEON's kernel for d = 4 |
| `RingPke` | `src/PKE.rs` | keys, a ciphertext, the result of decrypt; a polynomial is a function from monomials (sets of atoms with a power of R) to integer coefficients, next to a bound and whether every operand so far fitted. Its specification is `PkeSpec` |
| `CiUpload` | `ci-upload.rs` (`main`, `build_index`, `update_manifest`, validation) and `ci-signal.rs` | `site`, `manifest`: the files; `jobs`: the runs, one remote call a step; `record`: history. A payload is the commit it is of and whether it measured anything |
| `TrackIssue` | `track-issue.js` and the report job of its workflows | `runs`: a slot per workflow run, `issues`: GitHub's, `world`: what the checks would say now; `reported`, `touched`: histories. Each API call is an action and may fail before or after its effect (`LastCall`, `CallFails`, `Stopped`) |
| `IdealTracker` | no code: what is shown of a check changes only into what a report under way says | `Record`, `PutAway` |
| `*Proofs` | | theorems about the module they are named after; `BitPackingProofs` also about `BitLanes`; `FieldSweepProofs` about `VectorSweep`; `SamplingProofs` about `RejectKernels` and `MatrixExpand`; `PkeProofs` about `CbdRun`, `CbdBits` and `RingPke`; `NttProofs` about `NttRun` |
| `MC*` | | constants for TLC |

The layers are separate because each needs another abstraction; what one assumes of
the next is stated and is the subject of another run.

- `KPke!Decrypt` opens a ciphertext exactly when secret, t and A stem from one seed.
  `RingPke` shows why: with its own key all matrix entries cancel (`MatrixCancels`), with
  another one some entry stays (`ForeignKeyGarbles`).
- `RingPke` takes NTT and its inverse as changing only the power of R and the
  magnitude. `NttRun` shows, and `NttProofs` proves, the first for all four backends (`LayersHoldResidues`, `InverseOfProduct`) and, with
  `FieldSweep`, the second (`NothingWraps`, `SumsReduceExactly`, `ConstMulIsExact`).
- The trips of `Avx2Ring` and `NeonRing` use lane operations; `VectorSweep` shows that each
  lane is the field's operation (`LanesAreTheField`).
- `MatrixExpand` takes a kernel call as "some more of the lane's coefficients are
  filled, never beyond its size". `RejectKernels` shows that for both kernels.
- `RingPke` and `KPke` take the packing of a vector as its units side by side.
  `BitPacking` and `BitLanes` show it bit by bit.

Definitions whose comment begins with `Mutant` are used by no specification.
Each is a variant that a plausible mistake in the code would give. Put in place of
the definition that it imitates, it makes TLC find the property listed with it in
`PROJECT.json` violated; so each property is known to depend on the code's behaviour.

## 3. Runs

| Run | Asks | Instance, and why it is enough |
|---|---|---|
| `kem` | `CachesFresh`, `Agreement`, `RejectsEverythingElse`, `ReloadsItself`, `PeerHashesWhatItReceived`, and the refinement `ImplementsIdealKem`, over every order of calls | Two key seeds and two messages: a ciphertext can be for the other key and carry the right or the wrong message. One z: it only names the rejection secret. Two encapsulations and two decapsulations: properties relate at most two of each. One alteration: each field of each byte string is altered, alone or (hash and key) together; the proofs lift this bound. Seeds are symmetric |
| `kem_stored_hash` | a claim of the docs, see section 4 | that of `kem` |
| `reject` | both kernels interleaved chunk by group, for every pattern of accepted candidates | N = 5, vectors of 4, slack 4, two groups a block, two blocks: N is not a multiple of the vector or the block, so the buffer fills in the middle of a group, of a block, and across a squeeze |
| `expand` | entries, transpose, and that it ends | rank 2, 3, 4, the code's own; elements of 3 coefficients with one acceptance a block and three blocks in the first squeeze: a lane may fill at once, later, or in every mixture with the others |
| `cbd` | stream numbers, and that each coefficient counts its own bits | counts 1 to 12 (the crate uses 2, 3, 4, 5, 6 and 8), separators from 0, 3, 250 and 255, so that runs also wrap; bits mixed from stream and position, all fields of many words at once |
| `field` | exactness and bounds of every reduction, and the lane kernels against it | every one of the 65,536 `i16`, and for the lanes each aligned 16 of them; upper halves of sums at both ends of the range, their inner neighbours, 0 and -1 |
| `ntt` | transforms, products, bounds, for each backend | portable: each of the 256 monomials with coefficient q - 1, alone and in dot products of one, two and four components; both transforms are linear modulo q, so monomials decide; the proofs take any coefficient, and any exponents on any backend. AVX2 and NEON: 32 monomials, one in each vector of eight, in every lane in turn; what is particular to a backend is where a vector or a lane goes. Assembly: its terms are symbolic, so one monomial would do; four are taken. Magnitudes are not linear and are followed separately by worst case (`bound`) |
| `packing` | scalar packing, then each vector kernel on the same input | the crate's N = 256 and its widths 1, 4, 5, 10, 11, 12; inputs that lack 0, 1, 8 or 13 bytes end at, inside and across words |
| `pke` | algebra, streams and bounds of K-PKE | three parameter sets, two seeds (own and foreign key), one coin, two messages; each key as generated or through bytes |
| `upload` | what a clean upload publishes, what the index keeps, what is pruned, what the manifest names | two kinds, one serial and with a signal, one concurrent and without measurements; two runners, three starts, one fault, three commits and a pull request's; an index of two entries and one kept file, so that both limits cut. Two jobs are what a race needs; a third start sees what they left. Runners and commits are symmetric; the proofs lift every bound |
| `upload_lost` | a claim of the docs, see section 4 | two starts and no fault: the loss needs only the interleaving |
| `issue` | one issue, one comment per change, what is shown, the refinement, and that the truth is shown in the end | two workflow runs, three issue numbers, two legs, three reports (one is a failure with other output), one change of the world, one fault, one act of somebody else. Each is enough to come between any two calls; the proofs lift the bounds for the four safety invariants and the refinement |

`MlKem` and `TrackIssue` are checked for deadlock: `Generate` is always possible, and so is
another scheduled run. The other
machines stop when their computation is over or their bound is used up, and their configurations say so.

Bounds that are not the code's own: `MaxCalls`, `MaxAlterations` (`MlKem`),
`MaxBlocks` (`RejectKernels`), `PerBlock` (`MatrixExpand`), `MaxStarts`, `MaxFaults` (`CiUpload`),
`MaxChanges`, `MaxFaults`, `MaxMeddling` and `Numbers` (`TrackIssue`); `MaxIndex` and `MaxFiles` are the code's
`MAX_INDEX` and `MAX_FILES`, made small.

The type invariants of `MlKem`, `RejectKernels`, `MatrixExpand`, `CbdRun`, `CiUpload` and `TrackIssue` are proved (section 5)
and not repeated in the runs. Of the properties
that only a theorem states, `KernelsAgree` and `KeptStaysKept` say of the rejection kernels that
they keep the same coefficients and never change one, `NoLaneInVain` and `OneLaneInVain` what the
batches waste, `NewIsExact` that `FieldElement::new` reduces, `AccumulatorHasRoom` that no bit is
pushed out of the scalar accumulator.

What the runs found to hold, beyond the single properties: a live key never has a
stale cache, whatever was parsed before; a decapsulation key is never accepted that
its own `to_bytes` could not reload; only a ciphertext that encapsulate wrote for this
key yields a message-derived secret, so re-encryption, hash and matrix come from one
key; vector and scalar kernels keep the same coefficients after every block, although
the vector kernel reads and counts further inside one; the hand-scheduled assembly writes, for every
vector, the butterfly of the plain loop; the reporter never repeats a comment, not even
when the answer to the first was lost, because it reads the hash back from GitHub.

### What the models of CI assume

`CiUpload`. A kind's jobs belong to one workflow. `ci.yml`, `bench.yml` and `semver.yml` have a concurrency
group per branch with `cancel-in-progress`, so a later start kills the earlier job between two
calls (`Serial`); `audit.yml`, `coverage.yml`, `mutants.yml` and `ct.yml` have none for their uploads, and their jobs
run side by side. A failed call is a warning and the job goes on, as in `run`; a failed fetch reads as an
absent file. `HistoryKept` and `PrunesOnlyOlder` except what cannot be had without a lock or a
transaction: an upload that was torn between removing and putting the index, one whose fetch
failed, and two of one kind at the same time (`record.lost`). That the exceptions are real is the
subject of hazards; what the properties say is that nothing else loses data.

`TrackIssue`. The report jobs share the group `<workflow>-report` without `cancel-in-progress`: one
runs, at most one waits, and a newer one takes the waiting one's place. Other people may close an
issue, take its label away, comment, and copy a marker into an issue or a comment of their own; reopening an issue
is not modelled. A reporter sees what GitHub holds: its lists are taken as up to date.

### Fairness

`expand`: `WF(Next)` says that the call runs
on. `SF` for each lane says that a lane that is squeezed again and again is accepted
some candidate again and again: the loop of `src/sampling.rs:89` has no other reason to end, as an
XOF that never gave a value below q would keep it running. No lane is assumed to be as
fast as another.

`issue`: the schedule starts runs on the default branch again and again (`SF` on
`ProduceDefault`, as a slot may be taken by another branch's run), a run's jobs end (`WF` on `Wait`), and the
reporter goes on from call to call (`WF` on `Advance`; jobs have a time limit, and `Stopped` is
a fault). `SF` on `EnterDefault`: runs dispatched on other branches share the concurrency group and can take
a waiting run's place, but not each time. Nothing is assumed of faults and of other people except
the bounds. `EventuallyShown` excepts a check whose marker somebody else's open issue carries: the
reporter refuses to open another then, on purpose.

## 4. Where the code and its docs differ

Two runs end with a violation of what a doc comment says.

- `kem_stored_hash`: `from_bytes` of a decapsulation key compares the stored hash with the
  hash of the *re-encoded* encapsulation key, while its docs speak of a fresh hash of
  the embedded bytes. The two differ for an embedded key with an unreduced field. The code is
  consistent with its callers; the comment claims more.
- `upload_lost`: the manifest is described as mapping each kind to its latest SHA
  (`.github/scripts/ci-upload.rs:181`). Two jobs of different kinds that overlap each read it, set their entry and
  write it back, and the later writer restores or drops the other's. `ManifestNamesIndexed` is what holds.

## 5. Proofs

The theorems hold for every value of the constants under the assumptions named in
the modules: `DamagedAssumption`, `GarbleAssumption` (a garbled decryption is some
message), `BoundsAssumption`, `SizesAssumption` (sizes are positive, a store is at most
one lane wider than the slack), `ExpandAssumption`, `RunAssumption` (`CbdRun`; and `NttRun`: a coefficient of 1 to q - 1, at most four others in a product), `PkeAssumption` (`RingPke`: the crate's parameter sets, no seed is also a coin), `SweepAssumption`,
`BitsAssumption` (`CbdBits`: eta is 2 or 3, a bit is 0 or 1), `TablesAssumption` (the zetas are in range), `PackingAssumption` (N a multiple of 64, widths
1 to 16), `UploadAssumption`, `NothingAssumption` (`CiUpload`: positive limits, a missing file is no file's content),
`TrackerAssumption` (distinct keys, complete reports). All are evaluated by TLC in a run.
One more, `RootsAssumption` (`NttRun`), leaves nothing to choose: it says of the crate's literal tables that
their entries are the powers of 17, in the order in which the transforms take them. That is a finite
computation, which TLC does completely whenever it loads the module.

| Module | Proved | Argument |
|---|---|---|
| `MlKemProofs` | `TypeOK`, `CachesFresh`, `Agreement`, `RejectsEverythingElse`, `ReloadsItself`, `PeerHashesWhatItReceived`, `Spec => ImplementsIdealKem`; any seeds, messages, number of calls and of alterations | `IInv`: caches are fresh, each history record is what the call computed on a fresh key (`HistoryFaithful`), and a ciphertext that looks untouched was sent (`UntouchedWasSent`). Without the last two `Agreement` is not inductive: it speaks of calls long past. In the refinement each encapsulation is an `Issue`, each decapsulation an `Answer`, all else stutters; `MatchingSecret` and `SecretsIdentify` are its core |
| `SamplingProofs`, of `RejectKernels` | `TypeOK`, `StoresStayInside`, `FirstAcceptedInOrder`, `KernelsAgree`, `KeptStaysKept`; any N, even width, block, slack | each kernel has dealt with the stream up to its position (`StandsAt`): what it kept at index i has rank i among the accepted, and its count is the rank of the position while there is room. Lemmas on `Rank` carry it over a group |
| the same, of `MatrixExpand` | `ExpandTypeOK`, `EntriesOfTheirStreams`, `TransposedIsTranspose`, `NoLaneInVain`; any rank and size | sampled and yielded entries are aligned (`next + taken = Len(entries) + 4`), a batch in work is for streams `next` to `next + 3` |
| `PkeProofs`, of `CbdRun` and `CbdBits` | `TypeOK`, `NthStream`, `OneLaneInVain`, `DrawsOwnBits`; any count, eta, seeds, and any bits | the batch covers the streams after those read (`Covers`), and only the last batch is narrower than four (`Aligned`). For the bits: a masked copy of a word has a bit at the foot of each field and zeros elsewhere, so the word's bits add up field by field; a field counts at most eta ones, which is below 2^eta, and so carries into no other. The recursive sums are unrolled, their lengths being 2, 3 and the fields of a word |
| the same, of `RingPke` | `MatrixCancels`, `ForeignKeyGarbles`, `StreamsAreSeparate`, `OperandsFit`; any seeds, coins and messages, the three parameter sets | every polynomial of a run has all coefficients 1, and is multiplied only with an atom that none of its monomials has (`TimesAtom`): so it is the set of its monomials, sums are disjoint unions (`PlusOnce`), a product sum adds each component's atom (`DotOnce`) and decrypt leaves the symmetric difference of what v has and what u with the secret gives (`Difference`). `PkeInv` says which sets and which bounds secrets, keys, ciphertexts and plaintexts have, also after bytes (`VectorReadBack`, `CiphertextReadBack`); the four invariants alone are not inductive, since none says what a key or ciphertext consists of. What cancels is then an equation of two sets (`OwnKeyCancels`) that fails for another seed (`OtherKeyKeeps`) |
| `FieldSweepProofs` | `ReduceIsExact`, `SumsReduceExactly`, `ConstMulIsExact`, `NewIsExact`, `CompressRounds`; any set of upper halves, any widths to 12 | words modulo 2^16: a wrapped difference is the only word of its range with its residue (`WrapUnique`); `BarrettExact`, `MontgomeryExact`, `ConstMulExact`, `DivQExact` bound the quotient's error and conclude from that. For compression the error of the mul-shift, over a numerator below 2^24, is less than the distance of any quotient to the next integer, for each of the twelve widths |
| the same, of `VectorSweep` | `LanesAreTheField`; the same generality, every `i16` in every lane | one lemma per kernel and backend. The half that `mulhi` keeps, rounded and shifted again, is Barrett's quotient (`HighQuotient`); the Montgomery factor of a number is that of its low half, and what it takes away has a known upper half (`FactorOfWord`, `FactorHigh`, `DifferenceHigh`), whether the halves are subtracted (AVX2) or the difference halved (NEON). AVX2 packs two dividing halves without leaving the lanes' order (`PackedLow`, `PackedHigh`). NEON's ceiling multiplier exceeds 2^(31 + d) by at most q (`Multiplier`), an excess that a canonical value cannot make visible after the doubled, rounded product (`MultiplierDivides`) |
| `NttProofs` | `NothingWraps`, `LayersHoldResidues`, `InverseOfProduct`, `CachedProductIsProduct`; any monomials, any coefficient below q, any products of up to four, the four backends | see below |
| `BitPackingProofs` | `PacksInPlace`, `UnpacksInPlace`, `AccumulatorHasRoom`; any widths to 16, any N in whole words, any input length | the bits done plus the bits held are those of the words stored or loaded, and the accumulator holds exactly the held bits in order (`Packing`, `Unpacking`) |
| the same, of `BitLanes` | `FormsAgree`, `AccessesStayInside`, that the scalar form runs undisturbed beside the kernels; the same generality, for the widths that have kernels | `KernelInv`: after i groups the kernel has stored what the scalar form gives for 8 i values, and nothing beyond. One group is a case split over the widths, in which each bit of a lane is followed from the window through lookup, shift and mask to its byte or value |
| `CiUploadProofs` | `TypeOK`, `CompletedIsPublished`, `HistoryKept`, `PrunesOnlyOlder`, `ManifestNamesIndexed`; any kinds, jobs, commits, limits, starts and faults | `IInv` says of each job, at each of its calls, what it knows: which files are its own already, that the index it read is still the kind's history, which files its listing may remove (`WellFormed`, `Fits`); that two uploads of one kind are both known to be unsound (`Alone`); what a kind's directory holds while no one works on it (`KindsFit`); and that what a job remembers of the manifest was indexed once (`EntriesFit`). The four invariants speak of the directory at rest, and only what the jobs know carries them over an upload. `NewerIs` and its companions say what the rebuilt index is: the old one without the commit, after the commit |
| `TrackIssueProofs` | `TypeOK`, at most one reporter, `OneOpenIssue`, `ReportedIsShown`, `CommentsOnChange`; any trackers, legs, runs, issue numbers, changes, faults and meddling | `IInv` adds two parts. `Slot`: the concurrency group lets one run at a time between its first and its last call. `Grounded`: what that run believes of the issues, after each of its calls, is still so (the issue that it found is the only one, the hash that it read is the one there, or nobody's but a maintainer's hand has moved it). Neither property is inductive without them: creating an issue is safe only because the finding before it is still true. One lemma per action; `QuietStep` and `EndKeeps` serve those that write nothing or end a tracker. For the comments, the hash a comment follows is that of the last marker of the bot's before it, and `Grounded` says that the reporter has read just that one |
| the same | `Spec => ImplementsIdealTracker` | creating, commenting and closing are a `Record` of the run's own verdict (`CreateEffect`, `UpdateEffect`, `CloseEffect`), or stutter when somebody has put the issue away meanwhile; putting away the one open issue is `PutAway`; all else leaves `Shown` as it is. `OneOpenIssue` is what makes one write decide what is shown |

### The transforms

The theorems of `NttProofs` are about `NttSpec`, whose steps are layers, trips, and dot products; the
specification of the run, `NttAsmRun!Spec`, adds steps of the assembly that leave the variables of `NttRun`
alone. The four invariants are not inductive. They say nothing of which zeta is next, of how far a coefficient may have grown before a layer, or, at the end, of what a stored element consists of.
`IInv` adds that, phase by phase:

- `Shape`: types, and that `peak` is within an `i16`;
- `Forwards`, in `ntt`: after n layers block b of the 2^n is the residue modulo X^(256/2^n) - 17^Root[n][b] (`Carries`), no
  magnitude is above 3328 (n + 1) (`LayerCap`), and the next zeta is number 2^n;
- `AsElement` and `HatOf`, of a stored element: the same for n = 7, in the order of a `TqElement`, centred;
- `Backwards`, in `ntt_inverse`: the residues times 2^(7 - n), since a layer doubles what it
  undoes; caps (`InverseCap`) that the two reducing layers bring down again; the next zeta is number 2^n - 1.

A step preserves it along these lines. A residue modulo X^(2m) - z^2 has two halves, and their sum and difference
with z between them are the residues modulo X^m - z and X^m + z: that is a butterfly, with
the Montgomery factor of the tables cancelled by `ConstMulExact`; the inverse butterfly takes it back, times 2. A
position and its partner are found by the block arithmetic of `RootsAssumption`'s indices, for each layer
separately, as lengths and counts are then numbers (this unrolling replaces the induction over layers). The trips
of the vector backends are followed register by register and shown equal to two or three portable layers;
each of `VecPack`, `VecUnpack`, `VecCanonical`, `VecMultiply`, `VecAccumulate`, `VecReduce`, `VecInverseLayer` and `VecScaled` of both backends
is shown equal, or congruent, to its portable counterpart by the lane lemmas of `FieldSweepProofs`. In a dot product each pair's
gamma is the root of its block, so a product of residues is the residue of the product (`RootsAssumption` adds exponents modulo 256),
and four products fit the accumulator. What reaches `done` is then 2^7 times the polynomial times a known power of R, which the last scaling takes off.

Two devices replace induction over data, which the provers do not have. A least element of a set of
naturals exists (`LeastExists`, from the library's `WFMin`), so a least counterexample can be refuted; and a recursive
function over a sequence is given in closed form and shown to satisfy its own equation, or unrolled where its length is bounded.

Model-checked only, and why:

- `Expands`, `EventuallyShown`: liveness is out of the prover's reach.
- `PipelineIsButterflies`: the terms that the assembly leaves are evaluated by a recursive operator, which shuts the
  prover out of its module, `NttAsmRun`. Its terms are symbolic, so one run covers every input of the butterflies.

The docs of `from_product_sum` speak of any `i32`; `SumsReduceExactly` is stated and proved for the sums that the base
multiplication can form, up to 12 q^2 in magnitude.

## 6. Not modelled

- **SHA-3** is the library `sha3_selkie`: injective terms and numbered streams here.
- **Alignment and instruction latency** of the vector kernels: an access is at an array position, and the order
  of the assembly's instructions matters to the values only.
- **Assets, `head.json` and payload texts** of `ci-upload.rs`, and what a tool's output looks like: a payload is
  whose it is and whether it measured something.
- **Probabilities**: decryption failure, rejection rates, any computational assumption. A
  ciphertext altered "near" is one that still decodes to its message.
- **Loss of entropy** (`getrandom` panics) leaves no state behind.
- **Zeroization, ctgrind hooks, timing**: nothing that the models contain depends on them.
- **Report scripts** (`bench-diff.rs`, `kat-report.rs`, `instructions-report.rs` and their like, `scripts/mca.rs`): each turns one
  tool's text into another text in one pass, without state.
- **build.rs, tests, benches, examples, tools**: no state of the running system.

## 7. Plan

Done: the API and its refinement; both rejection kernels; the
expansion; the noise streams and their bits; the field; the transforms and products of all
backends, assembly included, and the proofs about all but the latter; packing in all backends; K-PKE over symbolic elements; publishing; issue
tracking and its refinement. In order of weight, what is left:

1. **A composed K-PKE**: `RingPke` with `CbdRun`'s streams and `MatrixExpand`'s entries in
   place of its own terms, by refinement mapping.
2. **Backend selection** of `build.rs` as a function of target and environment.

## 8. Running

In this directory:

    tlc -config MCMlKem.cfg MCMlKem
    tlapm MlKemProofs.tla

and likewise for the other pairs that `PROJECT.json` lists under `runs` and `theorems`. The
community modules `SequencesExt` and `FiniteSetsExt` must be on TLC's library path. Each run takes
about a minute or less on two workers.
