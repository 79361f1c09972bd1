# Verification of aes-gcm

TLA+ models, model-checking runs and machine-checked proofs for the `aes-gcm`
repository: a C implementation of AES and its modes of operation, OpenCL kernels
that run AES blocks on a GPU, a C++ wrapper around the OpenCL runtime, and a
benchmark that compares the two ciphers. File names below are relative to the
repository root; the code is in `src/`.

## 1. The system

### Components

| component | state it keeps | operations | interacts with | what makes it correct |
|---|---|---|---|---|
| GCM, GMAC (`aes-gcm.c`) | per call: cipher context, hash subkey H, J0, counter block, GHASH value, output buffer | `aes_gcm_ae`, `aes_gcm_ad`, `aes_gmac` | AES encrypt, the heap through `aes_encrypt_init` | no counter block is used twice; exactly the output is written; tags bind key, iv, aad and ciphertext; contexts are freed |
| CCM (`aes-ccm.c`) | context, CBC-MAC state, counter block | `aes_ccm_ae`, `aes_ccm_ad` | AES encrypt | as GCM; lengths fit their 16-bit fields |
| EAX, OMAC1, CTR (`aes-eax.c`, `aes-omac1.c`, `aes-ctr.c`) | working buffer, three MACs, data in place | encrypt, decrypt, vector MAC | each other, the heap | a failure leaves the data usable; the vector is read to its end and no further |
| key wrap (`aes-wrap.c`, `aes-unwrap.c`) | A and R[1..n] in the output buffer | `aes_wrap`, `aes_unwrap` | AES both ways | unwrap undoes wrap; any other input is refused |
| CBC, single blocks (`aes-cbc.c`, `aes-encblock.c`) | chaining block, data in place | encrypt, decrypt | AES both ways | decrypt undoes encrypt |
| AES (`aes-internal*.c`) | a key schedule with the number of rounds | key setup, encrypt, decrypt, init, deinit | used by all modes | the equivalent inverse cipher inverts the cipher; the small tables stand in for the large ones |
| kernels (`aes.cl`, `aes_vec.cl`) | per work-group: local tables, local round keys; per item: cipher state | `aes_rijndael_encrypt`, `aes_rijndael_decrypt` | barriers between the items of a group | an item computes only from what has been loaded, and what the processor would compute |
| comparison program (`aes-opencl-test.cc`) | host buffers, device buffers, verdicts | `initCL`, `testCL`, `testAES` | queue and kernels, AES on the host | what is compared belongs to the run it is reported for |
| queue, events (`opencl.cc`) | the runtime's queue; null or live events | enqueue read, write, kernel; wait, finish | OpenCL runtime | a rejected command is noticed |
| platforms, devices, contexts (`opencl.cc`) | lists of platforms, devices, contexts | `init`, `getDevices`, `createContext` | OpenCL runtime | devices of one context share a platform |
| programs, kernels (`opencl.cc`) | program cache, kernels by name | `createProgram`, `getKernel`, `setArg` | context, OpenCL runtime | objects outlive their uses; a failed build is not served again |
| byte order helpers (`aes-common.h`, `aes-internal.h`) | none | `AES_GET_*`, `AES_PUT_*`, `bswap_*`, `host_to_*` | everything that counts or pads | they agree with each other on hosts of either order |
| debug output (`aes-debug.c`), logging (`logging.cc`) | level, show keys, timestamp | `aes_printf`, four hex dumps | the console | every byte is shown once; keys that are to be hidden are |
| set-up test (`testCL`, `test.cl`) | three arrays, three buffers | one kernel over eight items | queue, programs | "Failed" is said of a driver that failed |
| test vector program (`aes-gcm-test.c`) | one GCM vector | `aes_gcm_ae`, `aes_gcm_ad` | GCM | |

### Where the difficulty lies

Each mode of operation is sequential, so what is hard is arithmetic at its edges
(a counter that wraps, a last partial block, lengths and paddings that must not be
confused) and the ways out of a function that fails in the middle. EAX, CTR and
CBC work in place, so that a failure in the middle of a call is seen in the
caller's data. The GPU side is concurrent: the items of a work-group share local
memory with one barrier between filling and using it, and the host runs ahead of a
device that works off a queue. The wrapper around OpenCL is a long sequence of
driver calls, each of which may fail, over objects whose lifetimes are shared
pointers. `PROJECT.json` lists the hazards one by one, at their lines, with the
property that would catch each of them, or the reason why none does.

## 2. The modules

| module | models |
|---|---|
| `Blocks` | the bytes all modes move about: GF(2)-vectors, padding, the ideal block cipher |
| `Aead` | what authenticated encryption promises: the abstract service |
| `Gcm` | `aes_gcm_ae`, `aes_gcm_ad`, `aes_gmac` and all they call in `aes-gcm.c` |
| `Ccm` | `aes_ccm_ae`, `aes_ccm_ad` |
| `Eax` | `aes_128_eax_encrypt`, `aes_128_eax_decrypt`: the order of the calls they make and the failure of each |
| `Ghash` | `ghash` with `gf_mult` and `shift_right_block`, bit by bit |
| `Omac` | `omac1_aes_128_vector`, `omac1_aes_128`, `gf_mulx`, byte by byte |
| `Ctr` | `aes_128_ctr_encrypt` with its carry |
| `Cbc` | `aes_128_cbc_encrypt`, `aes_128_cbc_decrypt`, `aes_128_encrypt_block` |
| `KeyWrap` | `aes_wrap`, `aes_unwrap`, and a peer between them |
| `Words`, `AesTables` | bytes, words, GF(2^8); the tables of `aes-internal.c` and the macros that read them |
| `Fips197` | AES as it is defined, without tables: the reference |
| `Rijndael` | `aes-internal-enc.c` and `aes-internal-dec.c`: contexts, key schedules, rounds |
| `KernelCipher` | the bytes one work-item computes, next to the processor (extends `Rijndael`) |
| `AesKernel` | both kernels of `aes.cl` and `aes_vec.cl`: groups, barriers, local memory, round keys |
| `GpuCompare`, `AddTest` | `testAES` and `testCL` with the queue, the events and rejected commands |
| `OpenclTest` | composes the two: `main` behind `initCL` |
| `ClDevices` | `opencl::init`, `getDevices`, `createContext`, extensions; `initCL` |
| `ClProgram` | `createProgram` and its cache, `getKernel`, the life of programs and kernels |
| `ClQueue` | `opencl_command_queue`, `opencl_event` for any caller |
| `ByteOrder` | getters, setters, swaps and host conversions, for hosts of either order |
| `DebugDump` | `aes_printf` and the hex dumps under every setting |
| `Library` | GHASH, OMAC, counter mode, CBC, key wrapping, byte order and dumps, one at a time |
| `ByteFacts` | what the bytes of the cipher's tables are, for every byte |
| `GcmProofs`, `CcmProofs`, `EaxProofs` | each mode: safety of a call, and that its calls are `Aead` |
| `AeadProofs` | the three carried over to the service of `MCAead` |
| `OpenclProofs` | the wrapper: queue, programs, devices |
| `OpenclTestProofs` | the comparison program: host, device and queue together; the groups and barriers of the kernels |
| `CipherProofs` | the block cipher, and the kernels' bytes next to it |
| `LibraryProofs` | the parts of `Library` (extends `CipherProofs`, for its bytes and words) |
| `MCGcmCall`, `MCAead`, `MCLibrary`, `MCOpencl`, `MCOpenclTest` | instances for TLC |

Operators named `X_y` next to an operator `X` (`Tag_running` next to `Tag`) are
mutants: `X` as a plausible bug would have it. No specification uses them; each is
there to show that the property it belongs to is one the code could break.

### Several parts in one instance

`MCAead`, `Library`, `MCLibrary`, `MCOpencl` and `MCOpenclTest` hold several
specifications that do not interact, or one under several settings. A variable
(`service`, `part`, `build`) says which of them a behaviour is about;
the next step is a step of that one, and the variables of the others keep one
value throughout. Variables of the same name are shared, except in `Library`, where
each part has variables of its own and those of the others stay 0; `MCLibrary` gives
it values and has the block cipher (`KernelCipher`) beside it. `MCOpenclTest` has
the comparison program and the kernels (`AesKernel`). The properties of such an
instance say for which part they hold. Nothing is composed that way in the sense
of running together; what does run together is: host and device (`GpuCompare`,
`AddTest`, `ClQueue`), kernel and processor (`KernelCipher`), the items of a group
(`AesKernel`), `testCL` before `testAES` (`OpenclTest`).

### Aead and what implements it

A service has the set of records it has `sealed` and the last `answer`. Sealing
adds a record whose tag no other (key, iv, aad, ciphertext) carries; opening
answers 0 exactly for what was sealed, with the plaintext; a call that fails on
the way answers -1 and seals nothing. `Gcm` and `Ccm` have the two variables
themselves, with every other step a stuttering step. For CCM the length of the tag
is part of the iv: it is encoded in B_0. `Eax` has `sealed` itself, and its
`answer` under the mapping `Outcome`, which takes the two refusals -1 and -2 of
`aes_128_eax_decrypt` for one.

### Gcm

*State.* `pc` says which statement of `aes_gcm_ae` or `aes_gcm_ad` comes next:
`init` (`aes_gcm_init_hash_subkey`), `j0`, `gctr` (the entry of `aes_gcm_gctr`),
`blocks` (the loop of `aes_gctr`), `ghash`, `tag`, `finish`. `call` holds the
arguments, `ctx` counts live cipher contexts, `J0`, `cb`, `S`, `T`, `xpos` are the
local variables of those names, `out` is the output buffer with 16 bytes behind it
that are not the call's. `ecb`, `sealed` and `answer` are history: the blocks
encrypted by the call, the results of sealing calls, and the last answer.

*Actions.* One per statement, and one per turn of the loop over full blocks:

| action | code |
|---|---|
| `CallAe`, `CallGmac`, `CallAd` | a caller enters; `aes_gmac` is `aes_gcm_ae` of an empty message |
| `InitFails`, `InitHashSubkey` | `aes_encrypt_init` returns NULL (no memory: always possible; key length: always then) or a context |
| `PrepareJ0` | `aes_gcm_prepare_j0`, both branches |
| `GctrStart` | `aes_gcm_gctr`: the early return for an empty input, `inc32(J0)` |
| `GctrBlock`, `GctrLast` | `aes_gctr`: a full block, and the last partial one if there is one |
| `Ghash`, `Tag` | `aes_gcm_ghash`, and `aes_gctr` of one block from J0 |
| `FinishAe`, `FinishAd` | deinit, and for `aes_gcm_ad` the comparison of the tags |

*Data.* Bytes are elements of a vector space over GF(2), kept as sets of atoms, so
that exclusive or is symmetric difference and `x XOR x` vanishes as it does in the
code. The block cipher is ideal: every byte it produces is an atom that only the
same key and block give again. A GHASH value is the polynomial in H that `ghash`
evaluates, so that the padding with zeros, the initial zero block, the lengths in
the last block and the loss of leading zero blocks are as they are in the code;
two different polynomials are taken to have different values. The counter has `W`
values, 2^32 in the code.

### Ccm

As `Gcm`, with `done` for the bytes encrypted, `x` for the CBC-MAC (as the blocks
that went into it), `auth` for the tag and `ecb` for the blocks given to the
cipher. The actions are the entry with its refusals (`InitFails`: more than 30
bytes of aad, a tag longer than a block, no context), `Authenticate`,
`EncryptBlock`, `EncryptLast`, and the ends. Opening unmasks the tag first,
decrypts, then authenticates, as `aes_ccm_ad` does. The blocks B_0 and A_i are
records of flags, nonce and a number of `W` values (2^16 in the code).
`EncryptLast` writes the whole block and then takes the exclusive or of the bytes
there are, as the code does (finding 3).

### Eax, Omac, Ctr

`Eax!Steps` is the order of the calls in each function; `step` is the place in it.
`Fails` is the failure of any of them (each allocates a context of its own). The
data is encrypted in place, so that encrypting may fail after the data has
changed: `EncryptAgain` is the caller who tries again with what is in the buffer.
`Omac` and `Ctr` are ideal in `Eax` and have modules of their own: `Omac` walks
over the elements of the vector byte by byte with the pointer of the source and
moves on when an element is used up (`BlockDone`, `RestDone`), `Ctr` carries
through the counter one byte a step. The reference of `Omac` doubles polynomials
where the code shifts bytes; that of `Ctr` takes the sixteen digits of the nonce plus
the number of the block by repeated division.

### KeyWrap and Cbc

One action per step of the 6n and per block. The block cipher is any permutation;
that, and what the lengths of the inputs are, is `Inputs` in each of the two. In `KeyWrap` a half
of a block is a number of more than one byte, and the step counter goes to its
last byte, which has `ByteVals` values. The peer hands to `aes_unwrap` what was
wrapped, or that with one half changed. `Cbc` works in place, in any order of the
three functions.

### Ghash

One `y` from `ghash_start` on, and one call of `ghash` after the other on it, as
`aes_gcm_ghash` (aad, ciphertext, lengths) and `aes_gcm_prepare_j0` make them. The
actions are the turns of the loop (`FullBlock`), the padded block (`LastBlock`),
the return, and `gf_mult` with one bit of `x` a step (`MultiplyBit`,
`Multiplied`). A block is four words of four bytes, because `shift_right_block`
takes its carries from the block while it changes it. The reference multiplies
polynomials first and reduces afterwards, where the code does both in turn. What
`Gcm` assumes of GHASH, a polynomial in H with the padded blocks as coefficients,
is `GhashIsPolynomial` and `PaddedApart`.

### Rijndael and KernelCipher

*State.* `rk` is the memory of a context, 61 words, with words that nobody has
written kept apart; `base`, `i`, `j`, `Nr` are the locals of the key set-up
(`base` is how far the local pointer `rk` has moved), `s` is the cipher state,
`live` counts contexts. `expanded` and `trace` are history: the schedule of the
encryption and its state after every round. One behaviour makes a context,
encrypts a block and frees the context, then does the same for decryption with the
same key.

*Actions.* `AllocFails`, `LoadKey`, `Unsupported`, `StoreNr` and `Deinit` are the
parts of `aes_encrypt_init`, `aes_decrypt_init` and the deinit functions;
`Expand128`, `Expand192`, `Expand256` one turn of the three loops of
`aes_rijndael_key_setup_enc`, the last turns with their early returns;
`InvertOrder` and `MixKeys` the two loops of `aes_rijndael_key_setup_dec`;
`Start`, `EncRound`, `DecRound`, `EncLast`, `DecLast` the rounds.

*Data.* Bytes are the bytes. The ten large tables are built from the two byte
substitutions of the source (`SBytes`, `SiBytes`) by the rule in the comment at
the head of `aes-internal.c`; a word of a table is the four bytes of its literal.
`SmallTables` is `AES_SMALL_TABLES`. `Fips197` shares nothing with `AesTables` but
the arithmetic of bytes: its substitution is computed by inversion.

`KernelCipher` adds a device to `Rijndael`: `Enqueue` copies the context,
`ReadBlock`, `KOddRound`, `KEvenRound`, `WriteBlock` are the kernel, and
`Processor` is a step of `Rijndael`, which waits for the kernel before it takes
the block itself, as `testAES` does. `tables` says how the kernels are compiled.
The decrypt kernel is left out with local tables, whose last round reads what
nobody has stored (finding 1). The device is little-endian, which the kernels take
for granted.

### AesKernel

*State.* Per item the program counter, the round counter `r`, the first round key
in use `rk`, and the two cipher states `s` and `t` a round goes back and forth
between. Per group, `loaded` is what has been stored in local memory and `visible`
what a barrier has published. A cipher state is kept as the list of round keys
added to it and whether all that was read on the way was good.

*Actions.* `LoadTables`, `LoadKey` (the copy under `AES_KEY_LOCAL`),
`TableBarrier` (only the decrypt kernel has it), `Barrier`, `Start` (read the
block, add key 0), `OddRound` (`ROUND(1,t,s)`, advance, leave the loop),
`EvenRound`, `LastRound`. The table entry a round looks up depends on the data:
any entry. A barrier is one joint step of its group.

`variant` is the kernel that has been launched, one of `Variants`: encryption or
decryption, and `KeyLocal`. The kernels of `aes.cl` are compiled with
`AES_KEY_LOCAL` 0, those of `aes_vec.cl` with 1, copying round keys in one piece
(encrypt) or in four (decrypt): `KeyPieces`. `TableSize = LocalSize` is an
assumption (`SizeAssumption`): an item copies the entry of its own number, so a
group must have exactly 256 items, which `testAES` asks for.

### GpuCompare

*State.* `Program` is `testAES` as a list of instructions, from the write of the
round keys to the last kernel; `at` is the host's place in it. `queue` holds the
commands enqueued and not yet executed, `device` and `ct`, `dt` the contents of
the device's and the host's buffers as far as the comparison tells them apart.

*Actions.* `Accept` and `Reject` are the two ways out of each enqueue call of
`opencl_command_queue`; after a rejected one, a null event is waited on (the host
dies) or dropped (it goes on), as the line in question has it. `Resume` ends a
blocking call or `opencl_event::wait`. `CpuEncrypt` and `CompareResults` are the
host's own work. `Device` executes the head of the queue.

### ClDevices

`GetPlatformIDs`, `ReadPlatform`, `ReadDevice`, `ReadAll` are `opencl::init` with
the ways out of it; `arrays` counts the identifier arrays that are allocated. A
query of a device that fails leaves a string empty and a number at any value (the
uninitialised field). A loop goes one turn to a step, and `at` is where it is:
`ParseExtension` in the text of a device (texts are sequences of characters, because
`parseExtensions` cuts them at blanks), `Turn` in `getDevices`, which `Ask` calls,
with its local variable `platform`, and `Choose` in `initCL`. When `getDevices`
returns (`Returns`) its caller takes the list: `GetDevices` does nothing with it,
`CreateContext` makes a context, `InitCL` exits or looks for the device that
`UseChosen` uses. `asked` and `listed` remember the last call for the properties.

### ClProgram

`CreateProgram` looks in the cache by its key, options and path joined by a comma;
if it is not there the constructor runs through `StatSource`, `ReadSource`,
`CreateWithSource`, `CreateKernels`, `NameKernels`, each with its early return,
and what was made is cached whatever became of it. `ChangeFile` is anybody
changing the source. `DropProgram`, `DropKernel`, `DestroyContext` end a handle;
what no handle reaches is released in that step (`Destroy`, `KeptKernels`), as
shared pointers do.

### ClQueue

`Enqueue(op, blocking, list)` is each of the enqueue functions: a command is
accepted, with its wait list, or rejected, with a null event. With `profiling` the
function waits for its own command before it returns. `Wait`, `Finish` and
blocking calls put their commands into `waiting`, `Resume` ends them. `Execute`
lets the device run any command that is ready, and succeed or fail; a command
fails if one it waits for has. `UseNull` is the crash on a null event. The queue
is in order or not.

### OpenclTest

`TestCL` is `AddTest`: the calls of `testCL` as a list, any of which may fail, and
the kernel `add` item by item; a buffer is a sequence of elements that are right
or wrong. `TestAES` is `GpuCompare`, after `testCL` has returned.

### ByteOrder and DebugDump

`ByteOrder` has memory, a value that is put at a place in one order and width and
read in another, and the host's own order. A byte has `Base` values; `Weight` is what
one counts for at its place, and `Joined` the number that some bytes are. `DebugDump`
has the three settings, the call and its lines as records of columns; a line has
`LineLen` bytes, 16 in the code. `DumpIsWhole` says of every line and column of it
which byte is there.

## 3. The runs

| run | instance | shows |
|---|---|---|
| `gcm_call` | one call; a supported and an unsupported key length; 6 ivs of 0, 1, 12, 16, 17 bytes and the zero iv of 12; 8 messages up to 48 bytes; 3 aads; W = 5; then one `aes_gcm_ad` with the tag, iv and aad of the first call and any ciphertext | `KeystreamFresh`, `GctrCorrect`, `ContextBalanced`; liveness `Returns` |
| `aead` | GCM: 2 calls, 2 keys, 3 ivs, 2 messages, 4 aads. CCM: 2 calls, 4 messages, 5 aads, 2 tag lengths; and one call with 9 messages up to 33 bytes, 6 aads up to 31, 4 tag lengths, 2 key lengths, 2 nonces. EAX: 3 calls, 2 nonces, 2 headers, 3 messages | refinement `AllImplementAead`; `CcmKeystreamFresh`, `CcmOutputCorrect`, `EaxBuffers` |
| `ccm_behind` | the same | violates `CcmOutputInside` (finding 3) |
| `opencl_test` | the program: 3 items in `testCL`, 3 turns of each loop of `testAES`. The kernels: a group of 5 items, 4 rounds; both kernels of `aes.cl` and of `aes_vec.cl`, round keys in global and in local memory | `ComparedIsNewest`, `FailMeansNeverRan`, `FailedMeansFailure`, `NothingOutlives`; `EncryptIsCpu`, `LoadedFirst`, `WalkInside`; liveness `ProgramCompletes`, `KernelFinishes` |
| `kernel_td4s` | the decrypt kernel of that | violates `BlockCorrect` (finding 1) |
| `gpu_compare_pass` | the program of that | violates `PassMeansComputed` (finding 2) |
| `library` | GHASH: 2 subkeys, data in three parts of 20, 17, 16 and 0, 16, 16 and 1, 0, 16 bytes. OMAC: up to 33 bytes in up to 3 elements, 3 subkeys. CTR: 6 counters that are full but for a rest, up to 48 bytes. CBC: up to 3 blocks. Key wrap: 1 to 3 halves, a byte of 16 values. Byte order: 8 bytes of one bit. Dumps: up to 5 bytes in lines of 2. Cipher: 6 keys of 16, 24 and 32 bytes, one of 20; 2 blocks; the processor with small and large tables, the kernels with local, small and large ones | `TypesOK`, `GhashIsStandard`, `MacIsOmac`, `CtrAllOrNothing`, `CbcSoFar`, `WrapIsStandard`, `UnwrapAccepts`, `HelpersAgree`, `DumpIsWhole`; `SchedulesStandard`, `EncryptionIsStandard`, `DecryptionInverts`, `ContextBalanced`, `KernelAgrees` |
| `key_wrap_long` | the same, with byte orders of 2 bytes and dumps of 1 | violates `WrapIsStandardAlways` (finding 4) |
| `omac_empty` | the same as `key_wrap_long` | violates `MacIsOmacAlways` (finding 6) |
| `opencl` | queue: 3 commands, 2 tasks. Devices: up to 2 platforms of up to 2 of 5 kinds of devices, driver calls failing; 13 installations of two devices whose type and size cannot be read. Programs: 2 sources, 2 options, 2 programs | `TypesOK`, `SelectedAsAsked`, `InitLeavesWhole`, `SharingAsReported`, `AnswerIsRight`, `Lifetimes`, `WaitListHonoured`, `AwaitedIsOver`; liveness `CallsReturn` |
| `cl_devices_exit` | up to 2 platforms of at most one device, no failing call | violates `ExitMeansNoGpu` (finding 5) |
| `devices_platforms` | the same | violates `ListedOnOnePlatform` (finding 7) |

*Why the bounds are enough.* In `gcm_call` the messages are empty, shorter than,
equal to and longer than a block by one byte either way, up to three blocks, which
is the limit of the definition for five counter values; the low words of hashed
ivs make the counter wrap at the first, second and later blocks. The theorems then
cover every width and length.

In `aead` the inputs are those padding could confuse: aads and ivs followed by
zero bytes, an aad that spells out the padded blocks and the lengths of a shorter
one, a nonce, a header and a message with the same bytes. Two calls are one seal
and one opening (or two seals), which is what `Aead` relates; EAX has a third for
the retry after a failure. The lengths of CCM lie on either side of a block for
messages, and for aads of 14 bytes (which fill a block behind their length) and of
30 (the limit).

The kernels' items are symmetric and interact only in their group: a barrier is
the group's own, and the theorems have any number of groups. Five items are as
many as there are round keys to copy. In `opencl_test` a turn depends on earlier
ones only through what is left in `ct` and on the device, so three turns have
everything that can happen; three items are enough for one to be done, one running
and one not begun.

A product in `Ghash` goes through all 128 bits of both factors, and a dense and a
sparse subkey give carries of either kind at each word boundary. The cuts of OMAC
are before, at and behind the ends of blocks, with empty elements in between. The
counters of `Ctr` carry through one, two and all sixteen bytes. A byte of sixteen
values is reached by the step counter of a wrapped key of three halves, one of 256
values by one of 43: both sides of finding 4 are in reach. `ByteOrder` has every
value of every width, since a helper moves whole bytes only.

The control of the block cipher depends on the length of the key alone; what the
data decide is which table entries are read. The twelve encryptions of the cipher
in `library` and their key schedules read several thousand entries, so that most of the 256 of
each table are read somewhere; `ByteFacts` besides states, and TLC evaluates in
this run, that all 256 substitutions and their inverses are the defined ones
(`SubstitutionsCorrect`), and the arithmetic of all bytes that the proofs use.

In `opencl` three commands are enough for one that waits for another and for a
third that was dropped or failed (`OpenclProofs` has any number); two platforms
of two devices have a first and a second of each, and every failure in the first,
the last and between them; two sources and two options strings are chosen so that
options and path run together to the same text. No caller of `createProgram` passes
options with a comma (`TextAssumption`): with one in them, two requests could have
the same key.

*Deadlock* is not checked where the system stops: callers may stop calling, a
kernel, `main`, a hash and a pair of calls of the block cipher end, a full queue
and a program that has crashed stop.

*Fairness.* `Gcm!FairSpec` is weak fairness of the steps of a call in progress (a
running function runs on), never of the calls. In `AesKernel` (`KernelFairSpec`) it is weak
fairness of the device as a whole, enough because every step makes progress and
nothing waits but at barriers. `OpenclTest!MainSpec` is weak fairness of the host
thread and of the device; neither is owed an accepted command. `MCOpenclTest!PartSpec`
has these two for the program, and that of the kernels for the kernels. `ClQueue!Spec` is
weak fairness of the device, which works off what is submitted (a call that waits
submits the queue), and of the return of a call whose commands are over.

### Findings

1. `kernel_td4s`: `aes.cl:874` and `aes_vec.cl:867` copy `Td4s_local` to itself
   where `Td4s` is meant. The last round of the decrypt kernel reads a local array
   nobody has filled. The program never runs the decrypt kernel.
2. `gpu_compare_pass`: `aes-opencl-test.cc:150` drops the event of the kernel. If
   a later turn's kernel is rejected, the buffer still holds an earlier turn's
   result and the turn is reported as `encrypt PASS`.
3. `ccm_behind`: `aes-ccm.c:105` encrypts A_i into the output for the last, partial
   block as well: up to 15 bytes behind the output are overwritten. What is inside
   it is right (`CcmOutputCorrect`).
4. `key_wrap_long`: `aes-wrap.c:52` adds the step counter to one byte, where RFC 3394
   and the comment above have a number of 64 bits. Keys of more than 42 halves are
   wrapped otherwise; `aes_unwrap` does the same, so that the two agree (`UnwrapAccepts`).
5. `cl_devices_exit`: `opencl::init` gives up at a platform whose devices cannot be
   listed, and a platform without devices is one. The GPU of the next platform is
   not seen and the program says there is none.
6. `omac_empty`: `aes-omac1.c:65` goes from an element that is used up to the one behind
   it, empty or not, and each byte is read before that is looked at. An empty element
   before data is therefore not skipped: the byte behind it enters the MAC, and the last
   byte of the data does not. `MacIsOmac` is about vectors with no empty element before
   data (`EmptyLast`), which are those EAX passes.
7. `devices_platforms`: `opencl.cc:1205` says that all devices are on the same platform.
   The variable it goes by is assigned for "all" and for names only: for "gpu" and
   "cpu" (`1209`, `1211`) `getDevices` returns devices of several platforms, of which no
   context can be made. `SelectedAsAsked` holds the list against what the line says
   for the other matches; for these two it must have all that is wanted and
   nothing that does not match, and may have more than one platform.

Seen while modelling, and kept in the models as the code has it, without a run of
its own:

- `aes-gcm.c:201`: an iv of length zero is accepted, where the definition of GCM wants at
  least one bit. GHASH of nothing is zero: J0 is the zero block, and the tag is masked
  with the hash subkey. `KeystreamFresh` states this one repetition and no other.
- `aes-omac1.c:65`: behind the last byte of the last element the vector MAC reads
  `addr[num_elem]` and `len[num_elem]`; the values are not used.
- `opencl.cc:83`, `aes-opencl-test.cc:46`: when the size of none of the GPUs listed can be read,
  `initCL` may end its loop without a device and uses the null pointer. `SelectedAsAsked` says
  that it has a device when one of the sizes was read (`ChosenIfRead`).
- `aes-opencl-test.cc:131`: a rejected command gives a null event, on which `wait` is called: the
  program crashes, which `ProgramCompletes` counts as an end.
- `opencl.cc:384`, `487`: a program whose source is missing keeps `clProgram` unassigned, and the
  destructor releases it.
- `opencl.cc:335`: a program that failed stays in the cache and is not tried again.
- `opencl.cc`: the source file is not closed; `enqueueTask` does not delete its wait list (`TasksLeak`).
- `aes-debug.c` sets `aes_debug_show_keys` to 1; `aes-debug.h:104` says that keys are hidden by default.

## 4. The proofs

TLAPS proves, for every value of the constants that meets the named assumptions of
the modules:

| module | theorems | of |
|---|---|---|
| `GcmProofs` | `TypeCorrect`, `FreshKeystream`, `CorrectGctr`, `BalancedContexts`, `AeadImplemented` | `Gcm` |
| `CcmProofs` | `FreshKeystream`, `CorrectOutput`, `BalancedContexts`, `AeadImplemented` | `Ccm` |
| `EaxProofs` | `BufferCorrect`, `BufferNotLost`, `AeadImplemented` | `Eax` |
| `AeadProofs` | `CcmFresh`, `CcmCorrect`, `EaxCorrect`, `ServiceImplemented` | the three as one service, `MCAead` |
| `OpenclProofs` | `TypeCorrect`, `WaitLists`, `ReturnsAfter`, `TasksLeak` | `ClQueue` |
| | `AnswersRight`, `LivesAsLong` | `ClProgram` |
| | `InitLeaves`, `SelectedRight`, `SharesRight` | `ClDevices` |
| | `TypesCorrect` | the three, `MCOpencl` |
| `OpenclTestProofs` | `ComparesNewest`, `FailsWithoutKernel`, `AddFails`, `NothingLeft` | `OpenclTest` with `GpuCompare`, `AddTest` |
| | `TypeCorrect`, `LoadBeforeUse`, `WalkStaysInside`, `EncryptCorrect` | `AesKernel` |
| `CipherProofs` | `CipherTyped`, `ContextsBalance`, `SchedulesMatch`, `EncryptionStandard`, `DecryptionIsInverse` | `Rijndael` |
| | `KernelsAgree` | `KernelCipher` |
| `LibraryProofs` | `MacStandard`, `HashStandard`, `CounterMode`, `CbcInPlace`, `WrappingStandard`, `UnwrappingInverse`, `HelpersCorrect`, `DumpsWhole`, `TypesHold` | `Omac`, `Ghash`, `Ctr`, `Cbc`, `KeyWrap`, `ByteOrder`, `DebugDump`, as parts of `Library` |

The proofs of the modes each begin with the lemmas on sequences and padding they use.
Where an argument is an induction over data it is made by the least
counterexample: `LeastElement` says that a set of numbers has a least one, and
`Climbs` that a set with 0 and the successor of each of its elements up to n has n.
A recursive function is known to the provers only as a `CHOOSE`; that one with the
wanted values exists is a lemma of each (`NumberIs`, `WeightIs`, `JoinedIs`, `UptoIs`,
`PowersAre`, `TermsAre`, `BlocksUpto`).

### The assumptions

Most are types: bounds are numbers, inputs are sequences, tables are booleans.
Those that say more:

- `LengthAssumption` of `Gcm` and of `Ccm`, the limits of the two definitions on the
  length of a message, and the tag lengths of CCM (`TagLenAssumption`): the code
  leaves them to its callers.
- The block cipher and GHASH are ideal, as section 2 says: that is the model, not a
  hypothesis of the theorems. What a tag is compared with is a term, and terms are
  equal only if what they are made of is.
- `ByteMessages`, the hypothesis of the theorems of `EaxProofs`: messages are
  sequences. `Eax` has no other use for their elements.
- `SizeAssumption` of `AesKernel`: a group has as many items as a table has entries,
  and the number of rounds is even. `KeyAssumption`: the items are enough to copy
  the round keys.
- `InputsAssumption` of `Rijndael`: keys and blocks are bytes, and a block is sixteen of
  them. A key may have any length; one the code does not know is refused.
- The formulas of `ByteFacts` have neither parameters nor variables. The provers cannot
  evaluate a table of 256 entries: TLC does, for all bytes, whenever the module is
  part of an instance (`library`), and the proofs take the result from there. What is
  proved is what follows for words, states, schedules and runs.
  For the shifts of OMAC and GHASH it has where the bits of a byte go when it is
  shifted by one (`BitsCorrect`), and the bits of 0x87 and 0xe1 (`PadBits`).
- `PartsAssumption` of `Library`, the `Inputs` of its seven parts: the block cipher of key
  wrapping and of CBC has an inverse and gives blocks, ivs and nonces are a block long,
  data of CBC is whole blocks (`aes_128_cbc_encrypt` takes `data_len / 16` of them), keys
  are wrapped from at least one half; what GHASH is given is bytes, with blocks of them
  for H; the elements of OMAC are sequences and its L is a block of bytes. Elements may
  be empty and any number of them passed: `MacIsOmac` itself excludes an empty one
  before data.
- `TextAssumption`: no caller of `createProgram` passes options with a comma.
- `SystemsAssumption`: platforms and devices are finite sequences, what a driver
  reports of a device is of the type the query is for, with a work group of at least
  one item, and no device has the name "any", "gpu", "cpu" or "all" (asked for such a
  name, `getDevices` takes it for the other thing).

### GCM: one call

*Why an inductive invariant is needed.* That no block is encrypted twice says nothing
of the block to come. `GcmProofs!Inv` adds what makes it inductive: `EcbInv` ties the
history to the program, step by step: the first block is the zero block, the next ones
are `BlockAt(J0, 1)`, `BlockAt(J0, 2)`, ... up to the number of blocks `xpos` has
passed, the last one is J0 itself; `J0Inv` says that only a J0 of an all-zero iv
shares its 96-bit base with the zero block, and then starts at counter 1, except for
the empty iv, whose J0 is the zero block (`HashedIvEmpty`: the GHASH of an iv is zero
for that one only, as the coefficients of `HashedIvCoefficients` have the length in
the last); `InputInv` keeps the length of the input in its limit also for ciphertexts
that were sealed before. From these, two equal entries of `ecb` would need
`BlockAt(J0, i) = BlockAt(J0, k)` with 0 <= i < k < W, which the lemma `BlocksDiffer`
excludes, or a wrap back to the zero block, which `ZeroBlockDiffers` excludes; what
remains is the last block of a call with an empty iv, which is the first one again,
and that is the exception `KeystreamFresh` makes (`MasksWithSubkey`). `GctrCorrect`
and `ContextBalanced` are inductive with `EcbInv`.

### CCM and EAX: one call

`CcmProofs!Inv` has the same shape: `Walked(k)` says that the call has encrypted its
first block and then A_1 .. A_k, and nothing else. An A_i is never a B_0, whose
flags hold the length of the tag (`B0Differs`), and two A_i with i below the
counter's width differ (`AiDiffer`); a message shorter than that has fewer blocks
than there are counter values (`BlocksBound`). The last step is the one where
`OutputCorrect` is not inductive by itself: `EncryptLast` writes a whole block, and
only the bytes there are of it are then made the output.

`EaxProofs!Inv` says what the steps behind a call have left (`Working`): the MACs
made so far are those of nonce, header and data, and `data` is the message or the
ciphertext, as the step has it. The buffer is freed on all ways out, which
`BufferNotLost` needs in `Idle`.

### Authenticated encryption

`AeadImplemented`, once for each mode: the initial state is the service's, and each
step is one of sealing, of opening, or no step at all. The invariant grows by what
was sealed (`SealedInv`: its ciphertext and its tag are the definition's) and by
what a call has computed so far (`MadeInv`). All the work is in one fact per mode,
that tags are equal only if all that they bind is: `TagForInjective`. For GCM it
goes through `GhashInjective`: the polynomial of aad and ciphertext determines
both, because the last block has their lengths (`LengthBlockInjective`), leading
zero blocks, which GHASH forgets, are then known by number, and padded blocks
determine the bytes of a text whose length is known (`PaddedBlocksInjective`); and
through `PrepareJ0Injective`, that J0 determines the iv. For CCM through
`AadBlocksInjective` (the length of the aad stands in front of it) and
`MacForInjective`; for EAX through the three MACs, each with its own prefix.
Decrypting undoes encrypting since both are the exclusive or with one keystream
(`GctrTwice`, `CryptTwice`).

`AeadProofs` instantiates the three for the constants of `MCAead`, shows that its
specification is theirs part by part (`SameGcm`, `SameTwo`, `SameEax`), and so has
`AllImplementAead` itself.

### The kernels

`WalkInv` relates `r` and `rk` (2r + rk = Nr at the top of the loop), `LoadedFirst`
gives every reader a group that has passed the barrier, and `StateInv` says that
the cipher state of an item is the list 0 .. rk of round keys with nothing bad
read. `EncryptCorrect` is about both encrypt kernels, whether or not they keep
the round keys in local memory.

### The comparison program

`GpuInv` is the argument why `testAES` compares what it should although it drops the
event of the kernel. Between a turn's enqueues the queue is empty, or has that
kernel, or that kernel and the read behind it (`QueueShape`); `Newest` says of a
buffer that it holds what the newest accepted kernel has computed, which holds of
the device's as soon as no kernel is ahead in the queue, and of the host's behind
the blocking read (`ResultsThere`). That a kernel computes the cipher needs its
inputs, which were written by blocking calls and are not written again
(`InputsThere`). `ProgramIs` gives the instructions of `testAES` by their index, for
any number of turns. `AddInv` says which of the arrays of `testCL` are right at each
of its calls, unless one has failed.

### The wrapper

For the queue the invariant is that events are numbers of commands that were there
before (`CommandsInv`: a wait list names older commands only, and is passed on as
it is; `HandlesInv`: what the caller holds exists) and `BlockedInv`: a command that
somebody waits for and that is not over is one the call in progress is blocked on.
`AwaitedIsOver` is `BlockedInv` for a caller that is blocked on nothing.
`WaitListHonoured` and `OnlyTasksLeak` are inductive with them.

For programs (`ProgramInv`): a key in the cache is that of the program it leads to,
every program is under its key until the context goes (`CacheInv`), and the one
under construction is of the last request and not in the cache yet (`MakingInv`).
That programs with one key are of one source needs that keys of different
requests differ, `KeysDiffer`: the last comma of a key may be one of the path, but
the first is the one behind the options. `ReleasedInv` holds during a construction
as well, when a kernel the driver has made has no name yet.

For devices (`DevicesInv`): how far `init` has come (`ReadingInv`), and that the list
has the devices of the platforms behind it, once and in order, and the first
`deviceIndex` of the one it is in (`ListInv`). The arrays are counted in
`ReadingInv`, so that each way out deletes as many as there are.

Each loop has an invariant of how far it has come. `ParsedUpTo`: the extension is in
the set of a device if and only if it is a word of its text before `at`, and `at` is
where a word begins (`OneMoreWord`: a turn adds the word up to the next blank, and no
other begins before that). Without the second half the first is not inductive: a
word may begin only behind a blank. `SelectInv` says what `getDevices` has listed of
the devices before `at`, for each of its three kinds of match: for "all" and names
the variable `platform` is that of the first device that matches, and null as long
as there is none, so that the devices it skips are those `Wanted` leaves out; for
"gpu" and "cpu" it is always null, and the list is all that matches; here it
is needed that `platform` of a device is never null, and that no device is called
"any", "gpu" or "cpu". `BestOf(at)`: what `initCL` has chosen is the first of the
largest before `at`, or null as long as all of them are 0. `SelectedAsAsked` is these
at the end of the loops (`WhenReturned`, `DevicesSelected`); `SharingAsReported` is
`Parsed`, the end of `ParsedUpTo`, at the time the context is made, and devices are
not written after.

### The block cipher

`CipherInv` follows a context from its allocation to its release. `ControlInv` says
how far a key comes and what `Nr` is; `ScheduleInv` what is in the context at each
loop: the words of the schedule up to the turn and none behind it (`Turning`, for
each of the three key lengths), the schedule with so many round keys at either end
exchanged (`Swapped4`), the reversed one with so many of them mixed (`Mixed`).
That each turn writes what the definition has is the lemma of that turn; since the
tables store four bytes to a word, it goes through the substitution of one byte
(`SubstitutionsCorrect`) and the exclusive or of words. `TraceInv` keeps the states
of the encryption in their order, each the definition's next after the one before;
a round of table look-ups is SubBytes, ShiftRows, MixColumns and the key by the
products of single bytes (`FactorsCorrect`). From it the decryption is followed
backwards: `InverseInv` says that the state after n rounds of the decryption is the
one the encryption had n rounds before its end. For a step of it the mixed round keys
matter: InvMixColumns of a sum is the sum of both (linearity, from `DoublingLinear`)
and undoes MixColumns (`MixInverse`), so that adding a mixed key and undoing a mixed
state come out as the equivalent inverse cipher of FIPS 197 claims they do. All that
needs no bound on the number of keys, blocks or rounds other than the code's own.

### The kernels next to it

`KernelAgrees` compares two programs that are not in step: the kernel runs first and
takes two rounds a turn, the processor one round a step. `KernelInv` says of the
kernel's state, while it runs, that it is the end of a path of so many rounds
(`Walking`, with the round counter and the place of the key pointer tied to each
other), and when it has finished, that the processor's states lie on the kernel's
path (`Followed`). Both read one schedule because the copy of the context is made
when it is complete and the processor waits until the kernel has ended. The
hypothesis that decryption does not use local tables (finding 1) is a guard of the
model, kept in `KernelControl`.

### Key wrapping

`WrapWay` says of wrapping and unwrapping alike where on the definition's way the
call is: `Reaches(k, m, n, x, y)` holds if the steps m + 1 .. n lead from x to y. A
wrapping call has reached step nj + i - 1 from the key; an unwrapping call has what
leads from its own state to the text it was given. A step and the step back undo
each other (`StepOf`, `BackOf`), so a way backwards is one forwards, and by determinism
the unwrapped key is the wrapped one if the initial value comes out. That the 6n
steps are counted once each, by j and i, is the uniqueness of quotient and remainder.
`WrapIsStandard` then has the definition's counter in place of the one byte, which
is the same where 6n fits (finding 4 is the other case).

### CBC, counter mode

`CbcSoFar` needs only to know what the next block is chained to (`CbcControl`): the last
block of the output when encrypting, and the last of what was given, which is
already overwritten, when decrypting. For counter mode `CtrNumber` says what the
counter block is in the middle of a carry: if the carry stands at byte i, the bytes
behind it are those of n + 1, and at byte i and before the bytes are those of n, one
is still to be added, since the quotient of n + 1 by the weight of that byte is one
more than that of n (`Carrying`). Behind the first byte it drops out, as it does from
the sixteen digits of the definition. With it the data up to the block is the
definition's (`CtrSoFar`), and on the ways out either all of it is or none.

### OMAC

`OmacControl` is the hard half: that the pointer of the source (element `e`, place `pos`
in it) is where the bytes read so far end. `PointsAt(v, e, pos, n)` says so by the sum
of the lengths of the elements before it, `Upto`. At the end of an element the source
moves on at once, so `pos` stays inside the element as long as bytes are left; that is
where `EmptyLast` comes in, for without it the next element may have no byte to point
at (`PointerOn`). `OmacData` then has the chained blocks as those of `Whole(vec)`, the
elements one after the other, byte by byte of the block in progress (`FilledFrom`), and
in the last block the one bit behind the data (`MarkedFrom`). The pads are doubled by
shifting bytes in the code and by exponents in the definition: `UpBits` says at which
bit of which byte an exponent is (`BitPlaces`) and that a shift of sixteen bytes is one
of all of them; what falls out at the top is 0x87 at the bottom (`PadDoubled`).
`OmacPads` has the one or the other pad, by whether the last block is full.

### GHASH

The definition multiplies polynomials, given as sets of exponents, by the parity of
numbers of pairs; the code shifts and adds. Between them is some algebra:

- Exclusive or is the addition of a group (`SumGroup`), and folding X^128 back is
  linear (`FoldLinear`). Two folds are enough for a product, and a third changes nothing
  (`FoldBounds`). X^128 + X^7 + X^2 + X + 1 folds to nothing (`QIsNothing`), from which it
  follows that reducing may be done before or after a multiplication by X
  (`ReducedShift`). This is why the code may reduce after each shift.
- A product is linear in its first factor, because the parity of a symmetric
  difference is the sum of the parities (`OddSum`, `ProductLinear`), and X^n times b is
  b shifted by n (`ProductPower`).
- A linear function is known by what it does to the powers of X (`LinearSame`, one
  exponent after the other). Two sides of an equation that are linear and equal for
  powers are then equal: `TimesMulX`, that MulX can be drawn out of a product, and from
  it the associativity of the product, `TimesGroup`.
- So the sum of the blocks by powers of H can be had one block at a time, Horner's
  rule: `HashOn`, what the definition gives for one block more is (what it gave, plus
  that block) times H.

On the other side are the words: `DownTerms` follows each of the 128 bits through
`shift_right_block` with its carries, taken from the last word to the first, and
`NextVIs` has the step of `gf_mult` as multiplication by X. The invariant `GhashInv` is
then short. `GhashProduct` says that `v` is H after `bit` multiplications by X, `z` the
product with those terms of `x` that are below `bit`, and that `x` times H is what the
definition gives for the blocks up to this one; `GhashSum` that y is the definition's hash of the blocks
hashed. `GhashPlace` (a call's position is a multiple of the block until its last one)
and `GhashBlocks` (the blocks hashed are those of the calls before, and then of this
one up to its position) carry `PaddedApart`.

### Types

`TypesHold` rests on the invariants of the parts, and on two more things that no other
theorem needed: that a context is live exactly during a call of CBC (`CbcContext`), and
what is in the buffers and counters of key wrapping while nothing uses them
(`WrapRest`).

### Byte order and dumps

For byte order all is one fact: `Joined` and `PutByte` undo each other for any number of
bytes, because a byte put on top leaves those below it alone (`Weight` and the
uniqueness of quotients again). `BytesInv` keeps what the last write has left, byte by
byte, and the three parts of `HelpersAgree` follow for any base and any number.

`DumpSoFar`: the lines before `pos` are there, each whole, and each loop of the code
adds one; at the end their number is that of the definition. `DumpHidden`: of a key
that is to be hidden there is the title only.

### Only model-checked

- Liveness (`Returns`, `KernelFinishes`, `ProgramCompletes`, `CallsReturn`), which is out of the
  provers' reach, as are the violation runs.
- That the formulas of `ByteFacts` hold, which TLC evaluates in `library`.

Every invariant, action property and refinement of the passing runs is a theorem.

## 5. What could come next

1. `Gcm` with `Ghash` in the place of its ideal hash, and the modes with `Rijndael` in
   the place of the ideal cipher: what is proved on either side would meet there.
2. The wrapper with buffers: `ClQueue` and `GpuCompare` know commands and their order,
   and only `GpuCompare` what is in the buffers.

## 6. Not modelled

`createBufferFromGLBuffer` and the queries of a buffer in `opencl.cc` (nothing
calls them); the numbers of `getProfilingInfo` and `getExecutionStatus`, which
come from the driver and are printed; the properties of devices and platforms
nothing decides on; `logging.cc` (formats and prints, no state that is read back);
`aes-gcm-test.c` (one fixed vector through the calls `Gcm` has); wording and
layout of messages; timing; build files.
