# A TLA+ verification project for libcxxrt

libcxxrt is a C++ runtime library: it implements the Itanium C++ ABI functions
that compiled C++ code calls to throw and catch exceptions, to initialise
function-local static variables, to cast between classes and to demangle names.
This directory models its stateful parts in TLA+, checks them with TLC on small
instances and proves the central results with TLAPS.

## 1. Inventory

| Component (source) | State | Operations | What is hard |
|---|---|---|---|
| Static-variable guards (`guard.cc`, `atomic.h`) | one guard word, or an init word and a lock word, per variable | `__cxa_guard_acquire`, `__cxa_guard_release`, `__cxa_guard_abort` | several threads, each atomic access a step; constructors that throw; a spin loop |
| Exception lifetime (`exception.cc`, `cxxabi.h`) | a header per exception (class, `referenceCount`, `handlerCount`, `nextException`, `primaryException`, type, destructor); per thread `caughtExceptions`, `uncaughtExceptions`, `foreign_exception_state` | `__cxa_allocate_exception`, `__cxa_free_exception`, `__cxa_init_primary_exception`, `__cxa_throw`, `__cxa_begin_catch`, `__cxa_end_catch`, `__cxa_rethrow`, `__cxa_rethrow_primary_exception`, `__cxa_current_primary_exception`, the two reference-count functions, `__cxa_call_unexpected`, `exception_cleanup`, `thread_cleanup` | destructors, constructors and handlers are user code that re-enters the runtime; exceptions are shared between threads; exceptions of other languages |
| Emergency buffers (`exception.cc`) | 16 buffers and their flags, a mutex, a condition variable, a counter per thread | `alloc_or_die`, `emergency_malloc`, `emergency_malloc_free` | blocking, wakeups, failing and recovering `calloc` |
| Thread info and handlers (`exception.cc`, `terminate.cc`) | a lazily created structure per thread, two global atomic handlers, four function-local statics that cache a thread's structure | `thread_info`, `set_terminate`, `set_unexpected`, `get_terminate`, `get_unexpected`, `terminate`, `unexpected`, `__cxa_call_unexpected`, `set_use_thread_local_handlers` | cached pointers to another thread's structure; handlers change between throw and use |
| Personality and two-phase lookup (`exception.cc`, `unwind-*.h`) | the cached landing pad in the header | `__gxx_personality_v0`, `check_action_record`, `check_type_signature` | the answer of phase 1 is used in phase 2 |
| DWARF tables (`dwarf_eh.h`) | none | LEB128, encoded values, LSDA header, call-site search | integer widths, table ends |
| Type information (`typeinfo.*`, `dynamic_cast.cc`, `auxhelper.cc`) | none | `__do_catch`, `__do_upcast`, `cast_to`, `__dynamic_cast` | ambiguous and virtual bases |
| `operator new` (`memory.cc`) | the atomic `new_handler` | `new`, `delete`, `set_new_handler` | the handler may change, throw or free memory between attempts, and other threads take that memory |
| `__cxa_atexit` (`cxa_atexit.c`, `cxa_finalize.c`; Solaris) | a list of handlers, a mutex | `__cxa_atexit`, `__cxa_finalize` | handlers run with the mutex held |
| Demangler (`libelftc_dem_gnu3.c`, `typeinfo.cc`) | output, substitution candidates, template parameters, pending qualifiers | `__cxa_demangle` and the parser | candidates are numbered by side effects of reading; printing order differs from reading order; the caller's buffer and its size |
| Exception classes (`stdexcept.*`, `noexception.cc`) | none | destructors, `what` | nothing |

The components interact through calls only. `__cxa_allocate_exception` uses the
emergency buffers; the throwing functions read the thread info and the
handlers; the unwinder (an external library) calls the personality function,
which reads the tables with `dwarf_eh.h`, compares types with `typeinfo.h`, and
transfers control to compiled code, which calls `__cxa_begin_catch` and
`__cxa_end_catch`. `operator new` throws through the same machinery, and
handlers of all four kinds (terminate, unexpected, new, exit) are code of the
program that may call the runtime again. The default terminate handler demangles
the type of the exception. The guards are independent of the rest.

What makes each modelled component correct:

* guards: the constructor runs in one thread at a time and never again after
  it returned; nobody uses the variable before that; nobody spins for ever;
* exceptions: the reference count equals the number of references, so nothing
  is freed early or leaked; the list of caught exceptions and the handler
  counts mirror the handlers the thread is in; `uncaughtExceptions` counts the
  exceptions in flight;
* emergency buffers: a buffer backs one exception at a time, is zeroed when
  handed out, and a thread that sleeps for one is woken;
* personality and casts: the first matching handler of the innermost frame that
  has one runs, with a pointer to a subobject of its type, after all cleanups
  of the frames inside it and no others;
* handlers: the one that runs is the one in force, at the call or at the throw;
  no freed structure is read; `operator new`, `__cxa_atexit` and
  `__cxa_finalize` come to an end; exit handlers run once, in reverse order;
* demangler: the text is the declaration the name was made of, and it fits the
  buffer.

## 2. Modules

| Module | Models |
|---|---|
| `OnceInit` | abstract specification of the guards: owners, done, users |
| `GuardClient` | the code compilers emit around a static variable, and the properties common to both guards |
| `GuardSingle`, `GuardDouble` | the classes `SingleWordGuard` and `DoubleWordGuard`, with one action per atomic access; each has `OnceInit` as an instance |
| `GuardSingleProofs`, `GuardDoubleProofs` | the TLAPS proofs about them |
| `EmergencyPool` | the emergency buffers |
| `EmergencyPoolProofs` | the TLAPS proofs about them |
| `SharedOwnership` | abstract specification of what the reference counts promise: objects and their owners |
| `Exceptions` | the life of exceptions; has `SharedOwnership` as an instance |
| `ExceptionsInvariant`, `ExceptionsProofs` | the TLAPS proofs about it: lists and counts, the inductive invariant; its preservation, the refinement and the theorems |
| `TypeInfo` | casts and the matching of handler types over class hierarchies, and a definition of both without a search |
| `CallSites` | the call-site table as a sequence of regions, and the region of a return address |
| `Personality` | the two phases of unwinding with `__gxx_personality_v0`; extends `TypeInfo` and `CallSites` |
| `PersonalityProofs` | the TLAPS proofs about it, casts included |
| `DwarfEH` | the same tables as octets, and the functions of `dwarf_eh.h` that read them; its properties say that it finds what `CallSites` finds |
| `DwarfEHProofs` | the TLAPS proofs about its two searches |
| `Program` | the program around the callbacks: threads, call stacks, what a program uses |
| `Handlers`, `NewHandler`, `AtExit` | terminate and unexpected handlers with the thread infos; `operator new`; the exit handlers. Each extends the one before |
| `Callbacks` | their composition: `Init`, `Next`, fairness |
| `CallbacksProofs` | the TLAPS proofs about it |
| `Demangler` | the recursive descent of `libelftc_dem_gnu3.c`, one operator per function |
| `MangledNames` | declarations, their mangled names and their texts, from the Itanium C++ ABI and the language |
| `Demangle` | the driver `__cxa_demangle_gnu3` and the buffer of `__cxa_demangle` |
| `MC...` | instances for TLC: byte positions, symmetry, hierarchies, frames, programs, declarations |

### 2.1 Guards

A guard word is the set of its bits that are 1, so that the layouts of
`guard.cc` (`<31,0>`, `<63,0>`, `<0,56>`, `<0,24>`) are instances of
`LockedBit`, `InitBit` and `FirstByte`, and the inline test of the first byte
that compiled code makes before it calls `__cxa_guard_acquire` is the test
`FirstByte \cap val # {}`. `pc[t]` is the place of thread `t`: `acquire` (the
first load), `try` (the exchange), `recheck` and `undo` (the two-word guard's
second load and its store of 0), `yield`, `locked`, `construct`, `release`,
`abort`, and for the two-word guard the two stores and the assertion of
`unlock`. `object` tells whether the variable is raw, partly built or built.
`WeakCAS` makes the exchange fail spuriously, as `__atomic_compare_exchange_n`
may in `atomic.h`. Loads and stores are sequentially consistent steps: the
code's acquire and release orders are enough for that because every thread
reads the object only after an acquire load of the word the constructor's
thread stored with release.

### 2.2 Exceptions

`header[e]` is the `__cxa_exception` (or `__cxa_dependent_exception`) of block
`e`; its `class` also says whether the memory is allocated: `free`, `raw`
(allocated, no class yet), `primary`, `dependent`, `dying` (its destructor is
running, it will be freed). `object` tells whether the thrown object was
constructed. `eh[t]` is the `__cxa_thread_info`. `stack[t]` is the part of the
call stack that matters: the scopes thread `t` is in. It is what the program
does; `header` and `eh` are what the runtime believes, and the invariants
compare the two. User code runs in every scope but `unwind`, and can throw,
rethrow, copy and drop `exception_ptr`s in any of them: in a handler, in a
destructor run by the unwinder (`cleanup`), in the destructor of an exception
(`destroy`), in the constructor of a thrown object (`construct`).

One action is one call of the runtime up to the next point where user code
runs, which is exact for the data other threads see: of a header only
`referenceCount` is shared, and it is changed by one atomic instruction per
call. The call of a destructor splits the action (`ReleasedHeader` and a
`destroy` scope, then `DestructorReturns`). The unwinder is abstracted to the
choice of what happens next: a handler, a cleanup, or leaving the scope. Its
first phase is kept: an exception without a handler ends the program before
anything is unwound (`RaiseFails`, only while `aux = "search"`).

What the program may do is read off its scopes, never off the runtime's
variables: `throw;` is allowed wherever the innermost handler's exception is not
itself on its way through a scope further in (`MayRethrow`). What the runtime
then finds in `caughtExceptions` and `handlerCount` decides between the rethrow,
the failed assertion of `exception.cc:909` and, where a foreign header is taken
for a `__cxa_exception`, undefined behaviour. `AssertionsHold` is about that
assertion and the one of `__cxa_end_catch`. Those of `emergency_malloc_free` and
`__cxa_free_dependent_exception` (`exception.cc:621`, `740`) are not modelled:
the first compares a pointer with the bounds of the buffers, which are numbers
here, and the callers of the second pass it dependent exceptions only.

`ThreadExit` frees what the thread has caught in one step, so the destructors
that `thread_cleanup` calls do not call the runtime in the model.

`SharedOwnership` forgets headers, lists and scopes: an object has no life, is
live with a set of owners, or is being destroyed. `Life(e)` and `OwnersOf(e)` map
the headers to it: the owners of an exception are its throw (from `__cxa_throw`
until it is no longer in flight or caught), the `exception_ptr`s and the dependent
exceptions that lead to it. A step of `Exceptions` is, for each object, one of
`Create`, `Join`, `Leave`, `LastLeaves`, `Destroyed` or nothing; a thread that ends
may leave several objects at once. The refinement says more than that the counts
are exact: an owner joins only a live object, one at a time, and the destructor
runs when the last one leaves and not before.

`Habits` names what else a program may do; see section 6.

### 2.3 Emergency buffers

Only what happens after a failed `calloc` is modelled. Any thread may free any
buffer in use, as an `exception_ptr` may be dropped by any thread. `allocator`
and `recovered` are history variables. A thread that reaches `tooLarge`,
`overLimit` (both `std::terminate`) or `nullInfo` (a null `__cxa_thread_info`
is read) ends the program.

### 2.4 Casts and the personality function

`TypeInfo` has no state. A hierarchy maps a class to its base records; the three
`__class_type_info` classes are one search because a class with a single base
at offset 0 is a sequence of length one. A pointer is the subobject it points
to, named by the classes on the way from the complete object or from the last
virtual base, so two different ways to a virtual base give the same pointer and
two ways to a repeated base do not. `SubobjectsOf` and `IsMatch` define the answer
without a search, as the set of ways to a base. They are the language's rules but
for one thing they take over from the code: an ambiguous base matches, and so
does one that is not public (`typeinfo.h:94`), where the language says no. So the
comparison shows that the depth-first search is complete and that a virtual base
is found at its own place; it cannot show the disagreement with the language,
which section 6 records.

`Personality` starts with a program that calls functions (`Call`) and throws. A
frame is the part of its LSDA the code looks at: the return address, the
call-site table and the action chain of each region. The header fields
`catchTemp`, `handlerSwitchValue` and `adjustedPtr` are variables, since they
outlive the phase, and the throw, in which they were written. One action is one
call of the personality function (`SearchContinues`, `SearchFindsGap`,
`SearchFindsHandler`; then `UnwindContinues`, `InstallCleanup`,
`InstallForeign`, `TerminateAtGap`, `InstallHandler`). The unwinder itself is
external: it asks each frame from the innermost outwards, starts phase 2 at the
innermost frame again, and passes `_UA_HANDLER_FRAME` where phase 1 ended. The
compiled landing pad (`LandingPad`) does what the selector says. Each landing
pad has an address of its own for every throw, so using an old one shows. A
dependent exception behaves as its primary here: the type is read from the
primary, the cached fields from the dependent header.

`StopFrame`, `StopClause` and `HasCleanup` describe the same stack as the source
text shows it, without tables and phases; a clause matches as `IsMatch` says. The
properties compare the two.

### 2.5 Exception tables

`DwarfEH` shows that reading regions and chains as sequences, as `Personality`
does, is right. `Layout` is what a compiler emits for a table: the header with
and without `@LPStart` and type table, the call sites, action records with
displacements that point back into shared chains, the type table growing
downwards and the lists of specifications growing upwards. The actions decode
it: the header, one record of the call-site table at a time, one action record
at a time. `OctetsReadBack` says that each number, the header, each call-site record
and each action record with its types is read as it was written, and that what
lies behind the last call site does not read as a region of an address in a gap.
Memory does not end with the table: the next functions' LSDAs
follow, because the search reads one record too many. Widths are scaled so that
TLC can enumerate beyond an `int`: 3-bit digits, 14-bit `int`, 28-bit pointers
for 7, 32 and 64, in the same proportion (four whole digits and a part of the
fifth fit into an `int`, nine and a part into a `uint64_t`).

### 2.6 Callbacks

`stack[t]` is the call stack of thread `t`, innermost frame first: code of the
program (`main` and the four kinds of handlers), functions of the runtime in the
middle of their work (`new`, `nothrow`, `atexit`, `finalize`) and an exception in
flight (`throw`). Code of the program may make any call its `program`, a set of
operations chosen at the start, contains, so a new handler can allocate, an
unexpected handler can throw and an exit handler can end in `terminate`.

`info[t]` is the `__cxa_thread_info`, `none`, `live` or `freed`; `cache` holds
the statics of `set_*`, `terminate` and `unexpected`, which the first caller
fills. A frame of a handler keeps the handler that ran and the one that was due,
computed from `own`, what the thread itself has set. An exception in flight keeps
its class and the unexpected handler that `throw_exception` stored, which may be
null: at a violated specification (`CallUnexpected`) a primary exception with a
handler runs that one, a dependent exception (`RethrowPtr`) or one without
runs `std::unexpected()`, with the handler in force then. `ThreadExit` happens
outside handlers only: a handler returns, throws or ends the program. A read through a dangling
cache gives what the memory held or crashes, as does `h = h->next` after
`free(h)` in `__cxa_finalize`. `operator new` has a step for each `malloc`, for
the load of the handler and for its call. `__cxa_atexit` holds the mutex for one
step; `__cxa_finalize` holds it while handlers run.

A new handler does what the language requires: it makes memory available,
throws, ends the program, or, when it has nothing left, removes itself. An
exception is assumed not to pass through the C frames of `__cxa_finalize`: if
the exit handler does not catch it, nothing does.

### 2.7 Demangler

Every `cpp_demangle_*` function is an operator on the `struct cpp_demangle_data`.
The functions that call each other go through `Read(symbol, d)`, which also holds
the two checks they all begin with: give up after a failure, and at the end of the
name.
A mangled name is a sequence of tokens (a source name with its length is one) and
a text a sequence of words, which keeps everything the code does with strings:
concatenation, cutting back, comparing, and comparing by prefix, where
`NamePrefix` says which names start with which. The loops that the code stops
after 128 rounds fail in the first round that reads nothing, which comes to the
same for names of fewer than 128 parts: a round that reads nothing changes
nothing, so the following ones do not either. The operators were
also compared with the compiled C code, name by name, over all declarations of
the run and over several thousand other and malformed names.

`Demangle` steps through the driver: encoding, return type, arguments, the
buffer, and a second call with the buffer and size of the first. `MangledNames`
is the other side: `Mangle` numbers the substitution candidates as the ABI
prescribes and `PDecl` writes the declaration as the language would, also where
the demangler does not (`sizeof(3)`, `operator int`, the `const` of an argument).
The two sides share the tables of words (operators, builtin types) and the
demangler's layout where the language leaves it open, as in `vtable for`.

## 3. Runs

| Run | Instance | Result |
|---|---|---|
| `GuardSingle` | 3 threads, 2 failing constructors, bits `<0,56>`, weak exchange | all properties, `ImplementsOnceInit` and `AcquireReturns` hold |
| `GuardDouble` | 3 threads, 2 failing constructors, bits `<0,24>`, weak exchange, assertions on | the same, with `LockWordIsLock`, `InitWordWrittenUnderLock` and `ReleaseAssertionHolds` |
| `EmergencyPool` | 3 threads, 3 buffers, 2 per thread | all hold |
| `EmergencyPoolCounter` | 3 threads, 2 buffers, 2 per thread | violates `RefusedOnlyAtLimit` (finding) |
| `Exceptions` | 2 threads, 3 blocks, 2 `exception_ptr`s, 3 scopes per thread | all hold, `ImplementsSharedOwnership` among them |
| `ExceptionsForeign` | 1 thread, 3 blocks, 2 foreign exceptions, 1 `exception_ptr`, 5 scopes, another language catches C++ exceptions, thread exit in handlers | all hold |
| `ExceptionsDependentType` | 1 thread, 1 `exception_ptr` | violates `CurrentTypeIsRight` (finding) |
| `Personality` | 5 hierarchies of 4 classes (with and without virtual and repeated bases), 4 thrown types, foreign and forced, 17 frames, 3 of them on the stack, one rethrow | all hold |
| `DwarfEH` | 5 tables, 3 encodings of call sites, 4 of types, all return addresses up to 30 | all hold |
| `Demangle` | about 6400 declarations: all pairs of 60-odd parameter types, operators, member functions, templates, values, builtin types, special names, local entities; a fresh or a small buffer, two calls | all hold |
| `Callbacks` | 2 threads, 2 functions as handlers, 1 block of memory and 1 in reserve, 2 shared objects, 8 kinds of programs, 5 calls | all hold |
| `HandlersThreadLocal` | the same with thread-local handlers | violates `ThreadLocalHandlers` (finding) |

Bounds. `MaxThrows` (2) is how often constructors fail: with three threads a
lock is given back twice and fought for again each time. `NumBuffers` and
`MaxHeld` are 16 and 4 in the code; 3 and 2 with three threads let the pool run
full, let one thread reach its limit while buffers are left, and let two
threads sleep. `MaxDepth`
bounds the scopes per thread: 3 is enough for a handler inside a cleanup of an
exception in flight in each of two threads, 5 for a rethrown exception in the
handler of a handler with a cleanup on top. Three blocks allow a primary
exception, a dependent one and one more at once. `exception_ptr`s, blocks and
threads are interchangeable, so symmetry is used; the runs with a liveness
property do without. `MaxDepth` also caps `uncaughtExceptions` in
`ForeignCatch`, which nothing else bounds.

For `Personality`, three frames give a handler frame, a frame between and the
throwing one; the second throw of the same exception is what the cached fields
could confuse. Every frame has a region with a `catch (...)` on either side of
the one the call is in, so a call-site search that is off by one finds the
wrong handler.

For `DwarfEH`, 30 lies behind the last region of every table, and offsets of
more than one digit occur in all of them.

For `Demangle`, names of two parameters over nested types are enough for a
candidate to be made by one part of the name and used by another, with
qualifiers and templates in between. The run has names that the demangler gets
wrong, too: `SubstitutionsAgree` leaves out those of `Renumbered`, and `RoundTrip`
those whose references are numbered wrongly and those of
`TemplateBySubstitution` and `Misprinted`. Each case is one of section 6, and
without any one part of `Misprinted` the run fails. The cases are described by
the form of the declaration, so some names that come out right are left out with
them; and forms that no declaration of the run has are not claimed anything of.

For `Callbacks`, `MaxCalls` (5) is the number of calls the program makes, nested
ones included: enough for one thread to set a handler, throw and exit while the
other sets another handler and terminates, for a handler to be set or removed
between a throw and the violation of a specification, for two threads in the loop of
`operator new` with one block between them, and for handlers of two shared
objects to be registered and finalized from two threads. Programs are sets of
operations that interact; all operations at once would only multiply states.

Deadlock is not checked where the program may end (`std::terminate`, a failed
assertion) or the bounds stop it; it is checked for `GuardSingle`.

Fairness is assumed in three runs. In `Callbacks` every thread that is inside the
runtime, or inside a handler, keeps running (weak fairness of `Step(t)`): the
kernel schedules every thread and handlers return. Nobody is forced to make a
call. A mutex need not be fair, as a program makes finitely many calls. In the
guards, a thread inside `__cxa_guard_acquire`,
the constructor, release or abort keeps running (weak fairness; the loop calls
`sched_yield` and the kernel schedules every runnable thread), and a weak
exchange that is repeated for ever does not fail spuriously each time while the
word is 0 (strong fairness of the winning exchange, which is what load-linked
and store-conditional loops rely on). No thread is forced to call the function
or to return from it. With strong exchanges weak fairness is enough. The
bound on failing constructors matters here: a thread can lose the exchange to
others for as long as their constructors keep throwing.

## 4. Proofs

Everything is proved for any values of the constants that satisfy the named
assumptions, which TLC evaluates in every run.

`GuardSingleProofs` and `GuardDoubleProofs` (assumption: the initialised bit
lies in the first byte and the lock bit does not). The invariant `IInv` adds to
the checked properties what each thread may rely on at its place in the code
(`PlaceInv`): a user arrived after the word became initialised, an owner has
not built the object before `release`, and, with two words, the owner saw
`init_word` 0 under the lock. That last part is what the second load in
`try_lock` is for, and without it exclusivity is not inductive. Each action
preserves `IInv`; the checked properties follow from it, among them
`ReleaseAssertionHolds`, which needs that whoever wins the lock after the
variable is initialised leaves `init_word` alone, and
`StepRefines` maps each step to a step of `OnceInit` or a stuttering one, which
gives `Spec => ImplementsOnceInit`.

`EmergencyPoolProofs` (assumption: finitely many threads, and a limit per thread
between 1 and the number of buffers). Exclusivity needs the place of the lock
(`LockOwner`) and of the buffer being given back (`FreeingPlace`). The limit
needs `CountCovers`: `emergencyBuffersHeld` is at least the number of buffers
the thread has allocated, and `RoomToCount`: it is below the limit from the
check on. That no wakeup is lost follows from a counting argument,
`WakeupsSuffice`: while somebody sleeps and the heap stays exhausted, there are
at most as many free buffers as threads on their way to take one. Freeing a
buffer adds one to both sides, since it wakes a sleeper; taking one subtracts
one from both; going to sleep requires that there is no free buffer. The
theorems are `BuffersAreExclusive`, `LimitIsRespected`, `NoLostWakeup` and
`SleeperWaitsForOthers`.

`ExceptionsProofs` (assumptions: finitely many blocks and `exception_ptr`s, foreign
exceptions are not blocks of this runtime). All theorems but `NoUndefined` have
the hypothesis `ProperUse`: `useInForeign`, `foreignCatchShared` and `exitInCatchShared` are not
in `Habits`, since with them the properties are false (section 6).
`UncaughtIsExact` also excludes `foreignCatch`, `OnlyBuiltDestroyed`
`makePtrThrows` and `AssertionsAreTrue` `rethrowWhileUnwinding`, for the same
reason; the instances of the two passing runs satisfy what they need. The
invariant `IInv` says, in its order:

* `ConstructsOK`, `DestroysOK`: a block under construction or destruction belongs
  to exactly one scope, and nobody else can reach it;
* `LiveOK`, `OneThread`: an exception in flight or caught is allocated, and all
  scopes that have it belong to one thread. This is why `handlerCount` and
  `nextException` need no lock;
* `ThreadsLinked`: `caughtExceptions` is the chain of the thread's handlers without
  repetition, innermost first, each `handlerCount` is the number of handlers of the
  exception, negative while it is rethrown, and `uncaughtExceptions` counts the
  flights. It is stated over sets of positions of the stack (`Linked`), because the
  list is cut and relinked in the middle when an exception leaves a handler;
* `HeadersOK`: what the fields of a header of each class may hold;
* `PtrsOK`, `RefsOK`: `exception_ptr`s lead to built primary exceptions, and
  `referenceCount` is the number of `exception_ptr`s, of dependent exceptions, and
  one if the exception itself is in flight or caught.

`RefCountExact` is not inductive without the rest: `__cxa_end_catch` gives up a
reference when `handlerCount` reaches 0, which is the last handler only because
the counts are exact, and those are because of the shape of the list.
`ProgramOK` (no undefined behaviour and no failed assertion so far) is carried
along. `AssertionsAreTrue` rests on it: that `handlerCount` is positive where the
program says `throw;` is `ThreadsLinked`, since the sign of the count tells
whether the exception is in flight and `MayRethrow` says that it is not.

`NoUndefined` excludes `useInForeign` only, the case in which it is false. The
programs it is about may do anything else, also what makes `IInv` false: free
shared exceptions from another language or at thread exit. It has an invariant
of its own, `Apart`, that does without counts and lists: a thread whose
`foreign_exception_state` is `none` has no foreign exception as its current one
(`KnownInfo`), no foreign exception is further down a list of caught exceptions,
where `__cxa_end_catch` would uncover it (`PlainHeader`), and what is constructed
or in flight is an exception (`KnownScope`).

`OwnershipIsShared` is the refinement of `SharedOwnership`. Every lemma that shows
that an action preserves `IInv` also shows `OwnersStep`: what the action does to
each exception is a step of its object. The two belong together. That
`releaseException` destroys the object in the step in which its last owner leaves
is `RefsOK` before the step, and that nobody joins a dying object is `PtrsOK` and
`HeadersOK`. `OwnersStepRefines` turns that into a step of the instance.

`CallbacksProofs` (assumption: `Null` is no function and no thread).
`RightHandlersRun` needs that while only global handlers are set no thread info
holds one, so it does not matter whose info the function-local statics point to,
and that where one thread alone uses them its own info holds what it has set
(`SettledOK`); and that an exception in flight keeps the handler due at its throw. `InfoNeverStale` needs `CachedOK`: the thread whose info `terminate`
or `unexpected` keeps is still inside that function, so `thread_cleanup` has not
freed it. `ExitHandlersInOrder` needs `ListOK` (a registered handler is in the
list, later ones first, or has run) and `LoopsOK`: a loop of `__cxa_finalize` holds
the mutex, stands in the present list and has passed only handlers of other shared
objects. That must survive a handler which leaves by `terminate` or whose thread
ends, and other threads that wait for the mutex.

`PersonalityProofs` (assumption `PersonalityAssumption`: the tables are as
compilers emit them: regions sorted and disjoint, which the code relies on in
`dwarf_eh.h:423`; action records only with a landing pad; one type for a handler and
none for a cleanup). `CallSiteFacts` shows that the search of the table finds the
region that covers the call, and no other covers it. The invariant says that
phase 1 ended in the innermost frame that stops the exception (`StopOK`), that the
header caches that frame's landing pad and selector until it is used there and
nothing at any other time (`CacheOK`), that exactly the cleanups of the frames left
have run (`CleanupsOK`), what a landing pad is entered with (`PadOK`) and that
`adjustedPtr` is the handler's as long as no specification is passed
(`PointerOK`). `LandingPadNeverStale` and `CleanupsAlwaysRun` follow without more.
`FirstMatchRuns` and `HandlerGetsItsObject` compare with the source text, so they
need that `__do_catch` answers as `IsMatch` does for each hierarchy, handler type
and thrown type (`MatchingRight`). That is the other half of the module, and
`CastsAreRight` states it together with `__dynamic_cast`. Its assumption is
`TypesAssumption`: hierarchies are finite and no class is a base of itself, and
what is thrown or caught is a class or a pointer to one, with any qualifiers.
`do_upcast` and `Ways`, the subobjects of a class, are recursive functions over the
hierarchy. Every class has a rank above those of its bases; both functions are
shown to exist on the classes below each rank, where a least rank without one is
contradicted by extending the one below (`UpDefinedBelow`, `WaysDefinedBelow`), which
gives their defining equations (`UpUnfolds`, `WaysUnfold`). The same kind of argument,
a class of least rank for which the claim fails, shows that the depth-first search
answers with one of the ways to the class asked for if there is any (`UpRight`).
So it finds the only subobject where there is one, whether it is reached
through a virtual base by several ways or not.

`DwarfEHProofs` (assumption `TablesAssumption`: a call site starts a chain of the
table, and a chain goes on at an earlier record, the order in which compilers
write them). `CallSiteFound` and `ChainFound` are about the two loops: under the
hypothesis `[]OctetsReadBack`, which the run `DwarfEH` checks, they hold for tables
and chains of any length. The invariant of the first loop (`Searching`) is that
every record before the present one starts at or before the return address and
does not cover it, or that the record behind the table has been passed too. So the
loop ends at the region that `CallSites` defines; that a sorted table has no
covering region behind the record at which the search stops is `CallSiteFacts` of
`PersonalityProofs`. The invariant of the second (`Following`) is that what has been read,
followed by the chain that starts at the present record, is the chain of the call
site. `Chains` is a recursive function too, defined by the same argument.

The inductive invariants were checked by TLC before they were proved, on small
instances such as those of section 3.

Model-checked only:

* `AcquireReturns`, `NewReturns` and `ExitFunctionsReturn`: liveness under
  fairness is out of the prover's reach;
* `OctetsReadBack`, on which the theorems about `DwarfEH` rest: a LEB128 number is a
  sum over its digits and a layout a concatenation of its parts, and both are
  folds that take an operator, about which the provers know nothing;
* the properties of `Demangle`: the parser is a set of recursive operators, which
  the prover cannot load, and what it computes is an induction over names.

## 5. Not modelled, and what is left

Left to do: a proof that LEB128 numbers read back for every width, which needs a
prover with induction over data; liveness proofs for the guards; ARM's unwinder
interface.

Not modelled:

* `stdexcept.*`, `noexception.cc` (no state), the stub `terminate` of
  `terminate.cc`, printing in the default terminate handler;
* ARM's cleanup list (`__cxa_begin_cleanup`, `unwind-arm.h`): a second unwinder
  interface of the same algorithm, compiled on ARM only;
* threads that do not exist (`fakeTLS`) and a failing `calloc` in `thread_info`
  outside `EmergencyPool`;
* in the demangler: floating-point literals (`push_fp`, `decode_fp_*`: bit
  patterns printed by `snprintf`), failing allocations (its containers are
  values in the model), and the `_GLOBAL__I_` branch, which no name reaches
  because names that do not start with `_Z` are read as types first
  (`libelftc_dem_gnu3.c:553`);
* in the tables: text- and data-relative encodings;
* the external unwinder, `malloc` and pthreads beyond what the code relies on.

## 6. Known limits of the code, and the `Habits` constant

The passing runs of `Exceptions` restrict the program by leaving members out of
`Habits`. Adding one back and checking the property named here shows the
behaviour:

* `rethrowWhileUnwinding`: `AssertionsHold`.
  After `throw;` the handler count is negative until the handler is left; a
  destructor that runs meanwhile and executes `throw;` inside a `try` block,
  which is valid C++, fails the assertion at `exception.cc:909`.
* `useInForeign`: `NoUndefinedBehaviour`. A C++ handler nested in a handler of a
  foreign exception sets `foreign_exception_state` to `none`
  (`exception.cc:1307`); the foreign header is then read as a
  `__cxa_exception`. `std::current_exception` in such a handler misreads it at
  once.
* `foreignCatchShared` with an `exception_ptr`: `NoDangling`. `exception_cleanup`
  frees the exception whatever its reference count (`exception.cc:391`).
  With `foreignCatch` alone `UncaughtExact` does not hold, since
  `uncaughtExceptions` is not decremented.
* `exitInCatchShared`: `NoDangling` and `NoLeak`. `thread_cleanup` frees caught
  exceptions whatever their count, and a dependent exception without releasing
  its primary (`exception.cc:411`).
* `makePtrThrows`: `DestroyOnlyBuilt`. `__cxa_free_exception` runs the destructor
  that `__cxa_init_primary_exception` stored before the object was constructed.

Two more, outside `Exceptions`: the assertion at the end of
`DoubleWordGuard::unlock` (`guard.cc:253`) reads the first byte after the lock
was released, so after `__cxa_guard_abort` it can meet another thread's
initialisation and fail (pc `aborted` is reachable in run `GuardDouble`); and a
thread whose first throw happens when memory is exhausted reads a null
`__cxa_thread_info` in `emergency_malloc` (`exception.cc:563`; pc `nullInfo`).
When the heap recovers, `SleepOnlyWhenFull` no longer holds: a woken thread
that gets memory from `calloc` (`exception.cc:574`) leaves the buffer it was
woken for to nobody.

In `Personality`:

* An exception specification that lets an exception pass still writes
  `adjustedPtr`, in phase 2 too (`exception.cc:1212`), so a handler of the thrown
  class gets the base subobject the specification named. For that reason
  `HandlerGetsObject` leaves out stacks with a specification between throw and
  handler. It writes the selector as well (`exception.cc:1045`): with a cleanup
  earlier in the chain, the order GCC emits for a function with a specification
  and a local object with a destructor, the landing pad is told to call
  `__cxa_call_unexpected` for an exception that is allowed (pc `unexpected`).
* A foreign exception that meets a call outside all regions jumps to address 0
  (pc `nullJump`), although the comment at `exception.cc:1174` asks for
  `terminate()`.
* A forced unwind passes by the cleanups of a frame whose handler would catch the
  exception (`exception.cc:1214`): `CleanupsRun` makes no claim about forced
  unwinding.
* A base that is ambiguous is taken where the search meets it first, and one that
  is not public like any other; the language would not match. `IsMatch` and
  `CastsFindTheBase` follow the code here, with repeated bases in the run, and
  claim nothing about which of several subobjects is found. `__dynamic_cast`
  likewise looks from the complete object only and ignores which subobject it
  was given.

In `DwarfEH`:

* `dwarf_eh_find_callsite` reads one record behind the table (`dwarf_eh.h:416`).
  An action table there is harmless: compilers write the end of a chain first,
  and its displacement 0 is taken for the size of a region. Where the next LSDA
  follows (`ff ff 01 n`), the record would be the region of `n` octets at offset
  32767, so only a function of that length could be misled; the scaled run does
  not reach that far.
* `digit << bit` is an `int` (`dwarf_eh.h:171`): numbers of 32 bits and more are
  misread. `OctetsReadBack` is stated for numbers an `int` can hold.
* The list of an exception specification is read octet by octet
  (`exception.cc:1062`) although it is written as LEB128, so type indices above
  127 are misread; the tables of the run have none.

In `Callbacks`:

* Thread-local handlers belong to whichever thread came first (run
  `HandlersThreadLocal`), and to a dangling structure once it has exited.
* `unexpected` caches the first caller's structure too. Its handler may leave by
  an exception and its thread may then exit, with global handlers only: the next
  call reads freed memory. `NoStaleInfo` is stated for programs whose unexpected
  handlers do not throw (operation `leave`). `terminate` is safe: its first
  caller never gets away.
* A handler run by `__cxa_finalize` that calls `__cxa_atexit` or `__cxa_finalize`
  waits for the mutex its own thread holds (operation `nested`, left out of
  `ExitFunctionsReturn`).
* `__cxa_throw` stores the terminate handler in the header, and nothing reads it.

In `Demangle`, what `Renumbered`, `TemplateBySubstitution` and `Misprinted` leave
out:

* A new candidate that is a prefix of an older one is taken for it
  (`libelftc_dem_gnu3.c:186`): the last parameter of `_Z1fP6foobarP3fooS1_` comes
  out wrong.
* Abbreviations of `std::` types become candidates (`_Z2fnPSsS_`), template
  parameters do not and equal ones are numbered once (`_Z1fIiiEvT_T0_` is
  refused), a pointer to a function makes one candidate instead of two, and the
  name of a function with a local entity is not popped.
* A qualifier of a substituted template's instance is printed before the template
  arguments (`S_` followed by `I`), and the `const` of a member function that
  contains a local entity at the end of everything (`QualifiedLocal`).
* `read_function` leaves `push_qualifier` at the non-cv qualifiers while it reads the
  arguments of a pointed-to function (`libelftc_dem_gnu3.c:1687`), and a `const` or
  `volatile` in them is lost: the cases commented out at `demangle_cases.inc:26`,
  `33` and `54` of the tests record it (`QualifiedArgument`).
* A unary expression is printed behind its operand, `3sizeof`, and a conversion
  function as `operator(cast)` without its type (`UnaryValue`, `Conversion`).
* `read_v_offset` fails where it has succeeded (`libelftc_dem_gnu3.c:3849`), so
  names of virtual thunks are never demangled (`VirtualThunk`).
