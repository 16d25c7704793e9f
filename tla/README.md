# A verification model of go-pcre2-lite

go-pcre2-lite wraps the vendored PCRE2 10.47 engine in a small C file
(`internal/pcre2lite/wrapper.c`), exposes it to Go as `lib.Regexp`
(`internal/pcre2lite/pcre2lite.go`, re-exported by the root package), and builds
on that a replacement for `dlclark/regexp2` (package `regexp2`). These modules
model the parts of it where order, sharing, resumption or an unusual algorithm
matter. In the Go and C layers: who may touch which C memory when, how a scan is cut
into chunks and resumed, how `FindNextMatch` chooses between a buffered and a fresh
search, what happens to all of it when `SetMatchLimits` replaces the compiled pattern,
how `ReplaceFunc` goes on while its evaluator does as it likes, and whether a lookbehind
matched backwards inside a callout gives what ECMAScript prescribes. In the engine:
how a pattern is parsed, compiled, optimised and searched for, and whether what the
optimisations skip could have matched.

## 1. Inventory

### Components, their state and how they interact

| Component | State | Operations | Interacts with |
|---|---|---|---|
| `lib.Regexp` (pcre2lite.go) | `mu` RWMutex, `closed`, `ptr`, `pool` {`mu`, `free`, `all`, `re`}, finalizer | `Match`, `Find`, `FindFrom`, `FindFromCallout`, `FindAll`, `NewIter`, `Close`, `finalize` | calls the C wrapper with the read lock held; a callout calls back into Go in the middle of a match |
| C wrapper (wrapper.c) | `p2l_regex` {code, match context}, `p2l_scratch` {match data, error record} | `p2l_compile`, `p2l_match`, `p2l_match_callout`, `p2l_match_all`, `p2l_scratch_new/free`, `p2l_free` | calls PCRE2, `p2l_go_callout` |
| Global matching | C cursor `pos`, `mopts`; Go resume token `start`, `opts`; the chunk | `p2l_match_all`, `FindAll`, `Iter.Next`, `Iter.fill` | holds the read lock for a chunk, nothing between chunks |
| regexp2 iteration | `matchState` {`subject`, `iter`, `iterActive`, `iterNext`}, `Match` {`endByte`, `Length`} | `FindStringMatch…`, `FindNextMatch`, `findCore`, `armIter`, `iterServe` | `lib.Regexp.Find`, `lib.Iter` |
| Replace (replace.go), offsets (match.go) | the text so far, `runeStarts` | `replace`, `byteToRune`, `alignByteStart`, `makeGroup` | the iteration above; calls the evaluator between two searches |
| regexp2.Regexp | `re`, `lookbehinds`, `backendPattern`, no lock | `Compile`, `SetMatchLimits`, `UnmarshalText`, matching | owns one `lib.Regexp` for the pattern and one per static lookbehind |
| ECMAScript lookbehinds (ecma_lookbehind.go) | the plans | `compileECMAScriptLookbehinds`, `evaluate` | runs a second match inside a callout of the first and writes captures into the engine's live frame |
| Pattern rewriting (compat.go), `Escape`/`Unescape`, replacement parsing | none | pure functions of strings | feed `lib.Compile` |
| Engine: parser (pcre2_compile.c, first half) | `parsed_pattern`, options, nest_saves, groups and names, quantifier, callout and class state | `parse_regex`, `check_escape`, `read_repeat_counts`, `manage_callouts` … | its items are read twice by the compiler, in a buffer sized before |
| Engine: code generation (pcre2_compile.c, second half) | the code, first and last required code unit | `compile_branch`, `compile_regex`, lookbehind lengths, `is_anchored`, `is_startline`, `find_firstassertedcu` | passes facts to study and search |
| Engine: study and auto-possession | minimum length, start bits; possessive iterators | `find_minlength`, `set_start_bits`, `auto_possessify` | change the code, or what the search skips |
| Engine: interpreter and search (pcre2_match.c) | the frame (position, captures); `start_match`, `req_cu_ptr`, `memchr_found` | `match()`, the bumpalong loop | what the wrapper calls |
| Options, errors, constants, re-export | none | | |
| Unicode data, tables, accessors, tools, tests, CI | | | generated, build-time, or read as documentation |

### What is hard here

* **Interleaving.** Matching goroutines share the scratch pool; `get` leaves the
  pool's mutex to allocate. `Close` and the finalizer free everything the pool
  ever handed out. Whether this is safe rests on one fact, that the read lock is
  held across the C call, and on `pool.all` and `closed` agreeing with it.
* **Callbacks.** Go code runs in the middle of a C match, with the read lock of one
  `lib.Regexp` held, and takes the read lock of another. An evaluator runs between two
  searches of `replace` and holds the match that `replace` goes on from.
* **Resumption.** `p2l_match_all` stops in the middle of a scan and hands a cursor
  and options, converted between two bit layouts, through Go to a later call.
* **Partial failure.** An error in the middle of a chunk; a plan that does not
  compile after others did; an allocation that fails.
* **Direction.** A lookbehind runs on the reversed subject with a reversed body: offsets,
  assertions, group numbers and references all have to turn round together.
* **Staleness.** `FindNextMatch` takes any earlier match; the iterator in the
  `matchState` remembers the compiled pattern it was made for; `SetMatchLimits`
  closes that pattern. In the engine, the search remembers places it has found at an
  earlier start, and the parser a callout it may use again.
* **Optimisations.** Required code units, minimum lengths, start bits, anchoring and
  possessive iterators are all derived from the pattern by different code, each with
  its own reading of repeats, conditions, recursion and lookarounds. One that is wrong
  is a match silently lost.
* **State in one loop.** `parse_regex` reads ahead for nothing: what a character means
  depends on some twenty variables that earlier items have set, and it writes into
  a buffer whose size was computed from the length of the text.
* **Liveness.** `Close` must get through a stream of matches and a match through a
  series of `Close` calls; loops over empty matches must end.

### What makes each component correct

* `lib.Regexp`: memory is not used after it is freed, freed once, not leaked; a
  scratch serves one match at a time; `Close` waits, later matches get `ErrClosed`;
  everybody returns.
* C wrapper: every path frees what it allocated and nothing else; the engine runs under
  the limits asked for; the error reported is of this call.
* Global matching: chunking is invisible; matches do not overlap or repeat; scans end.
* Iteration: the batched path cannot be told from the unbatched one. Replace: the result
  is the text with the matches of the unbatched scan replaced.
* `SetMatchLimits`: what is in use survives, what is replaced is released, the
  fields never point to something closed.
* ECMAScript lookbehinds: the match and every group are those of right-to-left evaluation.
* Parser: the items are those the pattern stands for, fit the buffer, and are in the grammar
  the compiler takes for granted; a closing parenthesis restores what its own group saved.
* Compiler, optimisations, interpreter and search: a search finds what trying the pattern
  itself at each start finds.

## 2. Plan

| Step | Modules | State |
|---|---|---|
| 1 | `GoRWMutex`, `RegexpHandle` (abstract), `RegexpLifecycle` (implements it), `RegexpLifecycleProofs` | done |
| 2 | `Pcre2Match` (engine contract and reference scan), `GlobalMatch` | done |
| 3 | `CompatIter`, on `Pcre2Match` | done |
| 4 | `SetLimits`, on `GoRWMutex`, and `SetLimitsProofs` | done |
| 5 | `WrapperMemory`: allocation and error paths of the wrapper, and `WrapperMemoryProofs` | done |
| 6 | `EcmaLookbehind`: rewriting into plans, evaluation in the callout, capture write-back | done |
| 7 | `Replace`, on `CompatIter`: `replace`, its evaluator, the offsets | done |
| 8 | the engine from the tree of a pattern: `Pcre2Tree` (abstract), `Pcre2Compile`, `Pcre2Scan`, `Pcre2Study`, `Pcre2AutoPossess`, `Pcre2Interpret`, and `Pcre2Bumpalong`, composed in `Pcre2Search`, which discharges the contract of `Pcre2Match` | done |
| 9 | the engine's parser: `Pcre2Escape`, `Pcre2ParseState`, `Pcre2ParseGroup`, `Pcre2ParseClass`, `Pcre2Parse`, with its reference `Pcre2Syntax` | done |
| 10 | `ScanTheorems` (lemmas on `Pcre2Match`), `GlobalMatchProofs`, `ReplaceProofs` (`CompatIter` and `Replace`), and the bound of the pool in `RegexpLifecycleProofs` | done |
| 11 | `BumpalongProofs`: the search, from the facts that the compiler gives it | done |
| 12 | `ParseProofs`: groups, what they save and how they are counted, in the parser | done |

What a further step could take: the rewriters of compat.go as functions of the items of
`Pcre2Parse`; `Escape` against `parse_regex` (a quoted text parses to its
literals); verbs and callouts in `Pcre2Interpret`; UTF widths in `Pcre2Search`;
`parse_regex`'s trees and `Pcre2Tree`'s as one, so that parser and compiler compose; the
lookbehind evaluation or the compiler's scans written with recursive functions, so that
lemmas about them can be proved, the facts that `BumpalongProofs` starts from among them.

The abstract specifications are `RegexpHandle` (refined by `RegexpLifecycle`), the
reference scan `FullScan` (what `GlobalMatch`, `CompatIter` and `Replace` are compared
with), a single `Find` per call for `CompatIter`, the meaning of a tree
(`Pcre2Tree`) and the items of a tree (`Pcre2Syntax`). `SetLimits` could refine a regexp
whose limits change atomically only if it gave no `ErrClosed`; section 5 shows why it
does not.

## 3. Modules

### Go and the wrapper

**GoRWMutex** — Go's `sync.RWMutex` as operators on a value, with the two facts that
matter for liveness: a waiting writer keeps new readers out, and its `Unlock`
admits every reader that queued up. External: modelled from the use made of it.

**RegexpHandle** — what the comments of `Regexp` and `Close` promise, without locks or
memory: `open`, `active` matches, an `outcome` per caller.

**RegexpLifecycle** — one `lib.Regexp`. `pc[p]` names the place in `runMatch`,
`runMatchAll`, `runMatchCallout`, `Close` or `finalize`; a step is a critical
section, a lock operation or a C call. `ScratchNew` runs outside the pool's mutex
as `p2l_scratch_new` does; `heap` says which scratch addresses are live, so a
use after free is a state. `LeaveC` chooses any result. `Finalize` is enabled once
no goroutine refers to the Regexp.

**Pcre2Match** — the engine as a table: for each start offset the ways a pattern
can match there, in backtracking order, or the point where the match limit it. `Accepts`, `MatchAt`, `Search` and `NextCursor` follow `OP_END`, the bump-along
loop and `pcre2_next_match`; `Scan` is the reference, one search after the other.

**GlobalMatch** — `p2l_match_all` one search per step, `runMatchAll` around it,
`FindAll` and `Iter` as its two consumers, and a `Close` by another goroutine
between chunks.

**CompatIter** — a `matchState`: the first search, then `FindNextMatch` with any
Regexp and any match found so far. `NextNone`, `NextServed` and `NextSearched` are
the paths of `findCore`; `last` records what the call returned and what one `Find`
would have returned. `SetMatchLimits` recompiles to another member of the Regexp's
set of patterns, those that differ in the match limit alone.

**Replace** — `replace` on the actions of `CompatIter`. `ReplaceStart` is the first search,
from an offset in the caller's string that `AlignByteStart` moves into the subject (whose
bad bytes have become three bytes each); `ReplaceNext` copies the runes up to a match, takes
the evaluator's text and searches on; `ReplaceRefuses` are the calls that do not
search: a count of 0, or an offset that is no boundary. Between them `Caller` lets the evaluator
call anything of `CompatIter` on the `matchState` it shares with `replace`. The text is a
sequence of runes copied and marks for what a match is replaced by; a slice whose end
is before its start is the status "panic". What the result must be is said in two parts:
`NothingLostOrRepeated`, the pieces tile the text, and the rest of `ReplacedLikeReference`, the
marks are those of the unbatched matches, in order and as many as the count allows. Together
they determine it.

**SetLimits** — a `regexp2.Regexp` shared by matches and `SetMatchLimits` calls.
Every read and write of `re.re` and `re.lookbehinds` is a step, because no lock
protects them. (Under Go's memory model this is a data race; the fields are a
pointer and a slice whose length and capacity are the same in every generation,
so what a racing read can return is the old or the new value.) A generation's
plans are compiled one by one and may fail. `backendPattern` is rewritten with the
same text and left out. Plans whose pattern depends on outer captures are compiled
and closed inside one callout and are not shared, so they are left out too.

**WrapperMemory** — `p2l_compile` and `p2l_match_impl` with every allocation free to
fail: the C objects allocated and freed, the result code and the error record.

**EcmaLookbehind** — `Compile` cuts the lookbehinds out of an expression and leaves
callouts (`RewriteBody`, from `compileECMAScriptLookbehinds`); a plan keeps the body
reversed (`ReverseBody`) and the groups it owns. `Find` searches from any offset, as
`findCore` does for `FindNextMatch` too; `Evaluate` is the callback: it splices in the
captures of outer groups, matches the reversed body anchored at the mirrored offset, and
writes the mirrored spans back. An expression is its syntax tree, where the code scans the
pattern text: what the scanners recognise are the kinds of atoms. The matcher below it is
external and runs in both directions, forward as PCRE2, and for `LikeECMAScript` with
lookbehinds from right to left as the README promises. Left out: the limit of 255
callouts, option letters in groups, and errors of the inner compilation.

### The engine, from the tree of a pattern

**Pcre2Tree** — patterns as trees and what they mean, as the ways to match at an offset
in order. Nothing in it is translated: it is the reading the documentation gives, and
what the rest is compared with. Over eleven characters that differ in case, type and
newline.

**Pcre2Compile** — `compile_branch` and `compile_regex`: from tree to code, with the
copies, loops and wrappers of repeated brackets, the lengths of lookbehinds, and the
first and last required code unit carried through alternatives and repeats. The code is a
tree with the brackets of the real code.

**Pcre2Scan** — the scans of the finished code: `first_significant_code`, `find_bracket`,
`is_anchored`, `is_startline`, `find_firstassertedcu`.

**Pcre2Study** — `find_minlength` with its caches, `set_start_bits`, and what
`study` makes of them.

**Pcre2AutoPossess** — `autoposstab` and the property tables, `get_chr_property_list`,
`compare_opcodes` and the walk of `auto_possessify`.

**Pcre2Interpret** — `match()`: a handler returns the states it continues from, in
the order in which it tries them.

**Pcre2Bumpalong** — any number of calls of `pcre2_match`: `Start` with its early returns,
one of the `Seek…` actions, `Check` for length and required code unit, `Attempt`, which is
`match()` at one start, and `Return`. What a pattern means (`PatternWays`), what `match()`
finds (`match`) and what is in the code (`re`) are parameters and state that the module says
nothing of but `FindsFirst`, `IsBounded` and `StartsWhereSought`, what the compiler owes the
search. `SearchKeepsPromise` compares what a call returns with `Pcre2Match!Search` on the
table of the pattern's ways: it is the assumption that `GlobalMatch`, `CompatIter` and
`Replace` make of the engine.

**Pcre2Search** — the stages of `pcre2_compile` as steps (`Compile`, `Possess`, `Scanned`,
`Studied`), then the steps of `Pcre2Bumpalong` with the code that they made. The
configurations give `PatternWays` the meaning of a tree in `Pcre2Tree`, and `match` the
interpreter.

### The engine's parser

**Pcre2Escape** — the readers `parse_regex` calls: numbers, repeat counts, names,
`pcre2_check_escape` in all its dialects, POSIX class brackets.

**Pcre2ParseState** — the variables of `parse_regex` and what each item goes through before
its own case: white space in extended patterns, callouts, the quantifier check; and the
size computation of the buffer, `max_parsed_pattern`.

**Pcre2ParseGroup**, **Pcre2ParseClass** — everything that begins with a parenthesis; the
loop over a class in its four modes.

**Pcre2Parse** — the rest of the main loop, and its end. A step is one pass of that loop or
of the loop over a class.

**Pcre2Syntax** — the reference: the text and the items of a syntax tree, the words they
need, and a reader that accepts what the compiler can read.

The `MC…` modules hold the patterns, subjects and symmetries of the runs. Operators whose
comment begins with *Mutant* are altered copies of the definition that follows them.
They are used by no specification; each shows that a property can fail.
`EcmaLookbehind`, the engine modules but `Pcre2Match`, and `Pcre2Syntax` use recursive
operators and are for TLC only.

## 4. Runs

| Run | Question | Bounds |
|---|---|---|
| `lifecycle` | Is the shared, pooled, closable Regexp memory safe, leak free and free of deadlock; does it implement `RegexpHandle`; do `Close` and matches return? | 2 goroutines and the finalizer, 3 scratch addresses (no symmetry: liveness) |
| `globalmatch` | Is chunking invisible to `FindAll` and `Iter`, and do they end? | all patterns with up to two ways to match, and the match limit, at each boundary of a subject with a one-byte and a two-byte character, and with one way for three characters; chunks of 1 to 3; limits -1, 0, 2, 3 |
| `compatiter` | Is the batched `FindNextMatch` the unbatched one, as far as limits allow, and `replace` the replacement of the unbatched matches? | 2 or 3 characters, chunks of 2, five calls, one `SetMatchLimits` per Regexp; counts -1, 0 and 2 from every offset of the string; the evaluator acts while there were at most three searches |
| `compatiter_earlyerror` | Is it identical even when a match limit is hit? | 3 characters, one way to match each, one Regexp |
| `setlimits` | Is replacing the compiled pattern safe and leak free, with two racing setters too, and does everybody return? | 1 matching goroutine, 2 setters, 2 plans, 2 replacements |
| `setlimits_refused` | Is the Regexp "safe for concurrent use"? | 1 and 1 |
| `wrapper_memory` | Do all error paths of the wrapper free what they allocated and say what went wrong? | every combination of arguments and failures, two calls on a compiled pattern |
| `lookbehind` | Do callouts on reversed patterns match and capture as ECMAScript says? | some 600 expressions in the shapes of the tests, with lookbehind bodies of up to 3 atoms; subjects of 2 to 4 characters over two letters; every start offset |
| `lookbehind_quantified` | The same for a quantified outer reference | two expressions |
| `parse` | Does `parse_regex` write what the pattern stands for, in the room there is, and only what the compiler can read; are its saves those of the open groups, and all named groups counted? | 11,162 patterns with options (below) |
| `search` | Does a search find what trying the pattern itself at every start would find? | 1,027 patterns with options (below), subjects of up to 4 characters |
| `search_possess` | May every iterator that `auto_possessify` makes possessive be? | the seven patterns it is wrong about |

Why the bounds are enough. *lifecycle*: a scratch can be in use, in the pool or being
allocated; two goroutines show each of these against the other, and a third address lets
an allocation succeed whatever the others hold. All invariants are proved for any number
of either. *Chunks*: a chunk of two on three characters has a full chunk, a partial
chunk, a refill and a cut between an empty match and its resumption. In `compatiter`
five calls reach the second chunk and then a stale match; two searches by the evaluator,
between two of `replace`, can drain and re-arm the iterator. The safety properties of
both runs are proved without these bounds; the runs show that the cases happen.
*setlimits*: two generations are what a match can straddle, a third is a repetition, and
the safety properties are proved for any number. *lookbehind*: a body of three atoms has
something on both sides of a group, and four characters let a quantified atom match one,
two or three of them around it.

*search*. The patterns are families, one for each optimisation: an iterator and what may
follow it, types and properties among them; bracketed bodies under every kind of
quantifier; pairs of alternatives that agree or not on their first and last characters;
what anchors and what does not; lookarounds, conditions, calls and recursion; with and
without `ANCHORED`, `FIRSTLINE`, `ENDANCHORED` and `MATCH_UNSET_BACKREF`; called with
`NOTBOL`, `NOTEOL`, `NOTEMPTY`, `NOTEMPTY_ATSTART`, `ENDANCHORED` and offset 1. The facts
`MatchFindsFirst`, `BoundsAreSound` and `StartsAreSound` are checked for each of these calls,
at every start. Four characters are what the longest of them needs to match in two ways. `REQ_CU_MAX` is 2 in place of
5000, so that the required code unit is looked for at one start and not at another.

*parse*. Trees: groups of every kind two or three deep, with option settings in and around
them; named groups and what numbers them in `(?|`; sequences of three or four items
between callouts; quoted text. Pieces: every concatenation of three out of 11 pieces of a
class, of 8 pieces of a UTS#18 class and of 12 of a Perl extended class; 150 ways to open a group
or a class, with four ways to end it; 84 escapes under five sets of options; 120 quantifiers; whole-pattern options. The limits are small enough to be met: names of
8 characters, 7 levels of nesting, 5 saved options, 3 names, verbs of 8 characters, 2
levels of classes.

`compatiter` and the lookbehind runs check no deadlock, as the caller may stop, nor does
`parse`, where the end of a pattern is the end of a behaviour; elsewhere a state without a
successor would be a real one, and finished behaviours stutter explicitly.

The type invariants (`TypeOK`, and the typed parts of the inductive invariants of section 6)
are proved, so the runs do not check them again.

Fairness. Goroutines that are inside a method are scheduled (weak fairness). The
C call returns although it may call out again and again: PCRE2 counts its steps
against the match limit whatever the callbacks do (strong fairness of `LeaveC`).
`sync.Mutex` gives a waiter that has starved for 1 ms the lock next, so a goroutine
that wants the write side gets it (strong fairness of `AnnounceWriter`). Nothing is
assumed of the callers: they may never call, never close, never forget. The engine and its
parser are sequential; that a search ends is the action property `StartsAdvance`, that a
batch does is `Terminates`.

## 5. What the checks show

The locking, pooling, freeing and chunking are right, `replace` is as long as one Regexp is
served in batches, and so is the engine on most of what the runs give it. What fails is shown by a run that ends in a counterexample,
or is left out of a passing run and named here.

### Shown by a run

1. `compatiter_earlyerror`: `FindNextMatch` may return `ErrMatchLimit` for a match that
   one `Find` would return, because a later search in the same chunk hit the limit and
   `Iter.fill` drops the chunk. findCore's comment (regexp2.go:369-373) says the
   behaviour is identical to the unbatched path.
2. `setlimits_refused`: a match that read `re.re`, or a callout that read
   `re.lookbehinds`, before `SetMatchLimits` closed them returns `ErrClosed`, although
   regexp2.go:59-60 calls the Regexp safe for concurrent use.
3. `lookbehind_quantified`: `evaluate` splices the captured text into the pattern without
   a group around it, so in `(..)+(?<=^\1+)` the `+` repeats the last character only.
4. `search_possess`: `auto_possessify` makes an iterator possessive that must give back.
   `compare_opcodes` forgets, for all branches of a group but the last, that it
   entered one (`a*(?>b?|c)a` on "aaa", pcre2_auto_possess.c:709);
   `autoposstab` allows `\R` before `\s` and before a dot, and a dot before `\R`
   (line 88); `propposstab` takes L& and Xan for one set (`\P{L&}+\p{Xan}` on "11",
   line 129); `posspropstab` has no Pc for WORD (`\p{Xwd}+\p{Pc}` on "a_", line 177).

What remains true of 1 is `AgreesOrFails` and `ErrorsDoNotStick`: a call may fail,
but no match is skipped or invented, and the next call is sound. Of 2, `ClosedOnlyByRace`.
Of 3, `LikeECMAScript` for every expression without this ingredient.

### Left out of the passing runs

In regexp2:

* A lookahead inside a lookbehind becomes a PCRE2 lookbehind on the reversed subject, so
  its repetitions happen in the opposite order and a repeated group keeps the wrong one
  (`LookaheadExpressions` of `MCEcmaLookbehind`); README.md:145 promises JavaScript's
  captures.
* Two Regexps without lookbehinds on one `matchState`: `iterServe` (match.go:190-211) uses the
  iterator there is whichever Regexp asks, and `findCore` compares offsets only. After
  `m, _ := r1.FindNextMatch(m0)`, `r2.FindNextMatch(m)` returns `r1`'s next match without any
  limit in play, against the comment of 1. `compatiter_tworegexps.cfg` (module
  `MCCompatIter`, kept for this and not among the runs) gives the counterexample, in four
  states. In `compatiter` all Regexps but one have lookbehinds, and that is the hypothesis
  `OneBatched` of the theorems of section 6.
* One more path leaves the unbatched behaviour of 1, and `CompatIter` shows it when asked
  for `IdenticalToUnbatched`: after `SetMatchLimits` the armed iterator still belongs to
  the closed pattern, so its buffer is served and then `FindNextMatch` returns `ErrClosed`,
  once.

In the compiler and study; each of the patterns does not match its subject, or is given a
bound that is too high, although trying it character by character matches:

* `find_minlength` does not ignore a branch whose back reference is into its own group:
  `(aaa|b\1?)` on "b" (pcre2_study.c:565-640).
* The code unit a lookahead asserts and the required one are taken for different places if
  they differ in case: `(?=A)(?i)b?a` on "A" (pcre2_compile.c:11123); `study` does not clear
  a caseless last code unit either: `(?=A*A)(?i)b?a` on "A" (pcre2_study.c:2031).
  `find_firstassertedcu` compares a caseless and a caseful character by value:
  `(?=a|(?i)a).` on "A".
* Auto-possession takes the end of the pattern for the end also where the whole pattern is
  called: `(?:x(?R)a|y)a*` on "xya".
* `is_anchored` and `is_startline` read possessive groups as plain ones:
  `(?s)(?:.*?aba)++c` on "ababac".
* `(?1){2,}+` is not atomic: `(a|ab){0}(?1){2,}+c` on "aabc".
* `first_significant_code` skips a group repeated zero times by its first alternative:
  `(a|^b){0}c` on "bbc".
* `find_minlength` keeps the minimum of a back reference in a recursion and uses it outside:
  `(aaa|b(?2))(c|d\1)\1` on "bccbc".

In the parser:

* `\x` and other escapes in the name of a verb set `okquantifier`, which
  pcre2_compile.c:3352 says only repeatable items do.
* The error for an unclosed parenthesis in a Perl extended class is always replaced by the
  one for a missing bracket (pcre2_compile.c:4695-4704).
* With automatic callouts, a manual `(?C255)` before another callout is taken for an
  automatic one and lost; and a setting that changes nothing before the end of a pattern
  leaves its length in the last callout (pcre2_compile.c:2853-2879).

## 6. Proofs

**RegexpLifecycleProofs** proves, for every set of goroutines and every set of scratch
addresses, from `LifecycleAssumption` alone (the finalizer's goroutine is none of the
callers, nil is no scratch):

* `TypeCorrect`, `PoolIsExclusive`, `MatchesAreMemorySafe`, `FreesAreUnique`,
  `CloseLeaksNothing`: `TypeOK` and the invariants of `lifecycle` but `PoolBounded`,
  which is at the end;
* `ImplementsHandle`: the specification implements `RegexpHandle`.

None of these is inductive. The invariant `IndInv` adds: the lock agrees with the
program counters (`LockInv`: a goroutine past `RLock` is a reader or queued, a goroutine
in `Close` owns the writer side, and the finalizer never reads); every live scratch is in
`pool.all` or in the hands of the goroutine that just allocated it, `free` and the
scratches held are disjoint and without repetition, and all of them are live
(`PoolInv`); `closed`, `ptr` and `regex` follow the phases of `Close`, and nobody
matches while a writer is inside (`CloseInv`). `IndStep` has a step for each action.
The temporal theorems combine `IndInit` and `IndStep`; the refinement is `HandleStep`:
`CheckClosed` is a `Begin` or a `Refuse`, `PoolPut` and the failing
allocations are an `End`, `MarkClosed` is a `Close`, and all else stutters.

`PoolStaysBounded` needs `IsFiniteSet(Caller)` too; without it there is nothing to count.
`Len(all)` alone is not inductive: `get` decides to allocate in one critical section and
registers in a later one. `BoundInv` counts the scratches together with the goroutines
between the two (`Counted`), and says that a scratch not free is somebody's (`Accounted`),
so that a `get` which finds `free` empty knows that every scratch has a goroutine other than
itself (`RoomForOneMore`).

**SetLimitsProofs** proves, for any number of matching goroutines, setters, plans and
generations, from `SetLimitsAssumption` (a goroutine is a matching one or a setter, the
numbers are natural, `ErrClosed` is no error of a limit): `NeverFreedInUse`,
`FieldsStayOpen`, `RefusedOnlyByRace` and `OnlyKnownLeaks`, the four invariants of
`setlimits`. `IndInv` adds to them: a generation that its setter has not yet
published is known to nobody else, and what a setter is about to close is not what the
fields point to (`GenInv`, which is why racing setters never close the
current pattern); which handles exist at each point of a setter (`StateInv`); a goroutine in C
holds the read lock of what it matches on (`ReaderInv`); a match that no setter has
overlapped has met nothing closed (`RaceInv`); and every open handle is pointed to by a
field, pending with a setter, or in `lost` (`LeakInv`). There is one lemma per
action, and `IndStep` puts them together.

**WrapperMemoryProofs** proves `NothingLeaks`, `LimitsAlwaysApply` and `ErrorsAreFresh`, the
three invariants of `wrapper_memory`, for every set of limits, codes and groups that
satisfies `WrapperAssumption`. `IndInv` says what exists at each point of each function
(`LiveInv`) and that the context has the limits, and the record is clear, when the
engine runs (`CallInv`).

**ScanTheorems** holds what GlobalMatchProofs and ReplaceProofs need of `Pcre2Match`, for every
pattern and subject. Induction over the length of a scan is done without the library's theorems that
take an operator: `LeastNatural` is `WFMin` on the relation `<`, `Induction` and `Recursion`
follow from it for sets and functions, and `ScanUnfolds` applies them to the recursive
function in `Scan`. On these rest: a search returns a boundary of the subject and begins
where it should (`SearchIsMatchAt`, `SearchFinds`); a cursor moves on or excludes the empty
match (`NextCursorAdvances`), so a scan is over after two searches for each offset and one
more (`ScanEnds`, by the measure `Left`); and a scan of i + k searches is the scan of i,
followed by the scan of k from its cursor (`ScanSplits`), which makes a full scan what the
first search finds followed by the full scan from there (`FullByFirstSearch`).

**GlobalMatchProofs** proves `TypeOK` (`TypeCorrect`), the three invariants of `globalmatch`
and `CursorAdvances`, from `GlobalMatchAssumption` and `StartOptsAssumption`. No invariant of the run is inductive:
that `out` is a prefix of the reference says nothing of where the cursor stands. `IndInv` is
an account of the reference, one for each place of `pc`: between chunks (`AtGo`), what the
caller has, followed by the chunk, followed by the full scan from Go's resume token, is the
reference; in the C loop (`AtLoop`), the same with the buffer and the C cursor; back from C
(`AtBack`) and at the end (`AtEnd`), what the result code makes of it. A step moves matches
across that sum or unfolds one search of the rest.

**ReplaceProofs**, first on `CompatIter`, proves `IterInStep` and `ErrorsDoNotStick` from
`CompatIterAssumption`, and `IdenticalWithoutLimits` and `AgreesOrFails` if `OneBatched`: at most one of the Regexps
on the matchState has no lookbehinds. The hypothesis is what `compatiter` assumes of its
constants, and `compatiter_tworegexps.cfg` shows that both are false without it (section 5).
`IndInv` says what the iterator is (`InStep`): there is a pattern of the same expression
with which it was filled, its present one while it is open, such that the full scan from
`iterNext` is the chunk followed by the full scan from the iterator's cursor (`Follows`).
That the *current* pattern, perhaps with another limit, would return the head of the chunk
or hit its limit is `SearchAgrees`, and the fast path as a whole is `AdvanceServes`. The
bounds on calls play no part: `AnyCall` is a step without them.

Then it proves of `ReplaceSpec` `NothingLostOrRepeated`, which the run checks as
the first conjunct of `ReplacedLikeReference`, the whole of that (if `OneBatched`), and
again what holds of `CompatIter`, as `replace` and its evaluator use the `matchState` too.
It assumes `ReplaceAssumption`: a string has as many boundaries as the subject made from it.
`RepInv` is `IndInv` and `Settled`. `Placed`: the pieces of the result
tile the runes up to `prevat`, which is where the current match ends, and that match is one
the caller holds; so the next match, which starts no earlier, cannot make a slice turn
backwards. `Sequential`: for every pattern of the expression without a limit, the marks so
far are its matches, one search after the other, the search after the current match is the
one that counts as next, and `count` is what is left of the limit. Offsets become runes by
counting boundaries (`Rank…`).

**BumpalongProofs** proves, for every program, subject, offset, set of options and
`REQ_CU_MAX`, from `SearchAssumption`, which gives calls their type:

* `SearchIsRight`: if the compiled code keeps the three promises `MatchFindsFirst`,
  `BoundsAreSound` and `StartsAreSound`, then every call returns what the caller is
  promised. Those are the invariants that `search` checks of the compiler when it is ready;
  so no skipping of starts can go wrong but by a fact that is false.
* `StartsNeverGoBack`, the action property `StartsAdvance`, from no promise at all.

`SearchKeepsPromise` says nothing until a call is done, so it is far from inductive.
`Places` bounds what moves: `start_match` and what memchr remembers lie in the subject, in its first
line under `FIRSTLINE`, and where the call began if it is anchored. This alone gives
`StartsAdvance`: what is remembered and behind the start is looked for again. `Skips` is
the argument of the loop: no start behind `start_match` can match, and each case of the
first code unit does not occur from `start_match` up to where it is remembered to be
(`Ahead`). There is one lemma for each reason to move. For `SeekStartline` it goes back in time
(`LineSkips`): a match inside a line would have been found at the start of that line, or
where the search began, which the invariant says cannot match. For the required code unit it needs
no invariant: a remembered place is used only to skip the search for it. `DoneAsPromised`
compares what the loop ends with to the search of `Pcre2Match`, an operator over the whole
table (`EngineSearch`): the least start and there the least way, with the captures of
the first way that ends where it does (`FirstWayEndsFirst`). The lemmas on `Min` and `Max` of
sets of natural numbers come from `WFMin` on `<`. `Pcre2Search` extends the same
definitions, so that its `Spec`, from the step to `ready` on, is `SearchSpec`; the theorem cannot
be stated in it, as its compiler uses `RECURSIVE` operators.

**ParseProofs** proves, for every pattern text, with any options, and for all limits that
are natural numbers (`ParseAssumption`):

* `NestsFit`, which is `SavesAreInStep`: the `nest_save` records stay within their workspace and
  belong to open groups, each to another one, so that the test `top_nest->nest_depth ==
  nest_depth` finds at a parenthesis what this group has saved and nothing else;
* `NamesHaveRoom`, which is `NamesAreCounted`: the number of every named group is at most
  the final `bracount`, by which the compiler allocates;
* `GroupNumbersFit`: the conversions to `uint16_t` in `reset_group` and `max_group` lose nothing.

What a step writes does not matter here. The first half of the module shows that each of the
parser's actions does one of seven things (`ScopeStep`): it leaves groups and saves alone
(`Idle`), opens a group, with a number (`OpensCounted`) or a save (`OpensSaved`) or neither,
saves for the group around (`SavesHere`), begins a branch or closes. The second half has one
lemma for each of these seven. `SavesAreInStep` is not inductive without the types in
`CountsOK`. `NamesAreCounted` is far from it, as it speaks of the moments outside all groups: in the second
branch of a `(?|` a name of the first has a higher number than `bracount`. `IsCounted` says
where it is remembered then: in the `max` of some save with `RESET`. That save may be covered
by others, and is merged into `bracount` when its group closes; no `RESET` save has depth 0
(only `(?i)` outside all groups makes such a save), so at depth 0 none is left.

### What the theorems assume

* Of the engine: `IsPattern`, a table of ways at each character boundary that begin no
  earlier than they were tried and end no earlier than they begin. `\K` is refused in
  lookarounds (pcre2_compile.c:8328-8336), and what is left, a `\K` that is called from a
  lookaround, is reported as an error by `OP_END` (pcre2_match.c:1018-1032) or may move the
  start back within the search; such patterns are outside the table. `search` checks
  `Pcre2Match!Search` against the interpreter, and `SearchIsRight` proves it of the search
  if the compiler keeps its promises.
* Of the compiler, for `SearchIsRight`: `FindsFirst`, `IsBounded` and `StartsWhereSought`,
  which `search` checks for 1,027 patterns.
* Of an expression: `SameWays`, two compilations that differ in the match limit have the
  same ways in the same order up to where one gives up. `SetMatchLimits` recompiles the same
  text with the same options (regexp2.go:193-210), and `match()` compares its two counts
  with the two limits in one place (pcre2_match.c:875-876).
* Of options: those `NewIter` is called with are options the wrapper translates.
* Every other assumption gives a constant its type.

Only model-checked. Liveness (`CloseReturns`, `MatchReturns`, `Terminates`…): fairness and
ENABLED are beyond the prover; of `Terminates`, `ScanEnds` and `LoopAdvances` are the safety
part. Everything about `EcmaLookbehind`, what the engine's compiler and interpreter do
(`CompiledLikePattern`, `PossessifiedAlike`, and the three promises that `SearchIsRight`
starts from) and what the parser writes (`ParsedLikePattern`, `ParsedFits` and
`ParsedIsWellFormed`, `Pcre2Parse` against `Pcre2Syntax`): the definitions on one side or both
are `RECURSIVE` operators over trees, with which the prover's arithmetic is not available, and
the characters of a text, on which the size of the buffer depends, are out of its reach.

## 7. Not modelled

* In the engine's matching: verbs, callouts inside the code, partial matching, UTF widths and UCP
  matching, duplicate names, `\K`, `\X`, `\C`, recursion that returns captures, the depth limit of
  `compare_opcodes`, the complexity limit of `find_minlength`, the offset limit. A class is a set of
  characters, without the bit maps and lists it is compiled to. The parsed pattern between
  parser and compiler is not shared: each has its own trees.
* In the parser: where an error is reported; the settings at the start of a pattern
  (`(*UTF)`…); characters beyond ASCII; newlines other than LF; script names, the length of
  property names, and the long names of lookarounds.
* Unicode data and tables, accessors, contexts and memory management of PCRE2 (the wrapper's
  use of them is in `WrapperMemory`); exhaustion of memory inside PCRE2.
* `parseReplacement` and `applyTokens` (what a match is replaced by), the rewriters of compat.go
  and the scanning of pattern text, `Escape` and `Unescape`, `UnmarshalText`: sequential
  functions of their arguments, without state or order, where a table of tests reaches as far.
* Lazy groups, and concurrent use of one `matchState` or `Match` (`populate` is not
  synchronised): the package promises it for `Regexp` only.
* A callback that matches on the very Regexp it is called from: with a `Close` waiting,
  the recursive read lock would block for good. Package regexp2 calls only other Regexps
  from its callbacks, so the model lets callbacks end on their own.
* Wall-clock `MatchTimeout` (documented as not enforced), options and error declarations,
  the re-exporting package, tools, tests, CI.
