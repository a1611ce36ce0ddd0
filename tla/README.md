# llvm-viz in TLA+

llvm-viz turns an LLVM-IR module into one HTML page: a section for each function, a table for each
basic block, and links between the uses of a value and its definition. A second program, stringify,
is run by the build and turns jQuery and Bootstrap into C++ functions that return their text, which
llvm-viz puts into the page.  This directory holds specifications of both, their TLC configurations
and proofs.

## Inventory

| part | source (below `src/src/`) | state | operations |
|---|---|---|---|
| ValueNameMangler | `llvm-viz/ValueNameMangler.*` | `_ids`, the ids made so far; the slot tracker | `getId`, `ref`, `asOperand` |
| HtmlPrinter | `llvm-viz/main.cpp:597-1221` | `_renderers`, `_attrs`, `_basic_block_stylers` | `run`, `emitFunction`, `emitBasicBlock`, `emitInstruction` |
| Analyses | `llvm-viz/main.cpp:54-112` | dominator tree, loops, assumptions, SCEV of one function at a time | `recalculate` |
| Renderers | `llvm-viz/main.cpp:232-518` | none | create attribute renderers; render a cell |
| Stylers | `llvm-viz/main.cpp:521-591` | none | style the rows of a block; style rules; check boxes |
| HTML tree | `llvm-viz/HtmlUtils.*` | children, attributes, style of each tag | `add`, `addAttr`, `addClass`, `print` |
| LongStringLiteral | `support/PrintUtils.*` | the text | `print` without common indentation |
| CfgToDot | `llvm-viz/CfgToDot.cpp` | the number of the next cluster | `printFunction`, `printLoop`, `printBB` |
| page scripts | `llvm-viz/main.cpp:889-945` | classes of elements, queued animations | click and change handlers |
| main | `llvm-viz/main.cpp:1223-1280` | the output file | parse, run, keep |
| stringify | `stringify/stringify.cpp` | two temporary files, their streams, the input | check, read, write, rename |

How they interact.  `HtmlPrinter::run` asks each renderer for style rules, check boxes, and, once
per function, for attribute renderers and stylers, which keep references to the one `Analyses`
object and call it while a block is rendered.  Everything that names a value goes through the one
`ValueNameMangler` of the page.  The tree is printed at the end, to stdout or to a file that LLVM's
`tool_output_file` removes unless `main` gets as far as `keep()`.  Everything in llvm-viz runs on
one thread.  In the browser the scripts of the page handle clicks one at a time, and jQuery animates
what they ask for later.  The build runs up to three stringify commands at the same time, in one
directory, and again after a failure.

What is hard.  State that is kept from one function to the next (`Analyses`, `_attrs`,
`_basic_block_stylers`, `_ids`); ids that must be unique although they are built from names that may
contain almost anything; asserts, unreachables and an unbounded recursion in the middle of a page;
failures between the two renames of stringify, and runs side by side; text that is split into lines
twice on its way into the page; an output file that is half written at each exit in between;
attributes that are printed without escaping, and flow style, which is an indentation of `~0u`;
clicks that come while animations wait.  PROJECT.json lists each of these hazards with its line and
the properties that cover it.

## Modules

### Ids: `IdAlphabet`, `EscapeName`, `EscapePair`, `IdAlphabetLemmas`, `EscapePairProofs`

`IdAlphabet` has the characters and what `getId` writes for each.  A letter stands for its class:
`Alnum`, `Hex`, `Other` (printable, without a case in the switch) and `Unprintable`.  `EscapeName`
is the loop of `getId` (`ValueNameMangler.cpp:62-107`), one step per turn: `buf`, `i` and `out` are
the code's `buf`, `i` (counted from 1) and what was written to `OS`; `status` is "aborted" after a
failed assert.  The CMake files choose no build type, so asserts are on.  `EscapePair` runs two
copies of `EscapeName` on different names, to say that ids are unique: `DistinctIds` relates two
executions.

Run `escape_pair` takes all pairs of names of a set with words that spell an escape, names with
escapes at every position, also cut off ones, and names with characters the switch does not know.
Of each call it also checks that it ends, with the escape of the name or at the assert, so it stands
for a single call too.  Run `escape_blank` is expected to fail: a blank is legal in an LLVM name and
the assert of the default case rejects it.

### The mangler of a page: `LLVMNames`, `ValueNameMangler`, `ValueNameManglerProofs`

`LLVMNames` is external: how LLVM prints a name, with quotes and `\xx` escapes. `ValueNameMangler`
has `_ids` (`ids`), and what was done with the ids: `anchors` and `links`.  Its actions are `getId`
for an element (`Anchor`) and `ref`, for any value of the module in any order.  Each of the four
modules of run `mangler` has names that could be confused once function name, dot and sigil are put
together.  What the proofs assume of a module (`WellTyped`, `OneValuePerName`, `Renderable`) is
checked of these four.  Runs `mangler_unnamed` and `mangler_metadata` are expected to fail: two
functions without names share ids, and `ref` of metadata ends the program.

### The printer and its program: `HtmlPrinter`, `Program`, `HtmlPrinterProofs`

`HtmlPrinter::run`, from the registration of the renderers to the print of the page. Each loop of
the code is an action that does one round: over functions, over `_renderers` (twice), blocks,
instructions and attribute renderers.  `analyses` records for which function each analysis was made;
`_loops` is a set because `LoopInfo::analyze` does not forget.  `page` is the list of the elements
with ids and of the rows of tables, `links` the values linked to.  An id is the value it stands for,
which is what the modules above establish.  The last child of a block is a `<tbody>` with a row in
it ("border"), which gets the styler's class instead of its row; the style sheet has rules for `tr`
only, so `RowsAreStriped` asks for a color of the rows before it and for none of that row and of the
empty one that follows each block ("gap").  What a cell spans is left out.  A value for which no id
can be made (`Metadata`) and metadata that comes back to itself (`Cycle`, as `!llvm.loop` does) end
the run ("aborted"): by `llvm_unreachable`, and by a recursion that does not end.

`Program` is `main` around it.  `main` (the variable) is where the function `main` is, `out` what is
in the file or was written to stdout, `watched` whether the signal handler will remove the file,
`keep` and `error` the flags of `tool_output_file` and of its stream. `Run` is a step of
`HtmlPrinter`.  The page is printed only when the tree is complete, so what fails while the tree is
made finds an empty file, and the assert of `print_str` a part of the page; `raw` says whether some
text has a character `isprint` rejects, which is so for names of functions and strings of metadata
that LLVM allows but does not escape.  External, from LLVM 5: `RemoveFileOnSignal` comes before the
file is opened; a file that could not be opened is not removed; a write that fails sets a flag, and
the destructor of the stream then calls `report_fatal_error`, which runs the handlers and exits with
1; the handlers may not run when the stack is full.  `Return` is `return 0` and changes no file:
whether the page is there by then was decided by `Keep`, `Close` and `Release`.  Only stdout is
flushed on the way out, by the destructor of `outs()` (`FlushOuts`).  Faults can come at any step:
`ParseFails`, `OpenFails`, `WriteFails`, `Interrupt` (a signal that is handled) and `Kill` (one that
is not).

Run `printer` takes every module of up to three functions of five kinds: a declaration, a caller of
the first function, two nested loops, a call of a debug intrinsic and a loop with `!llvm.loop`
metadata.  Three functions are enough for state to be kept from one function to the next across a
declaration.  `MAX_DEPTH` and `maxLoopDepth` are 1 there (7 in the code), so that a block can be
deeper than both.  Each module is printed to stdout and to a file, new or old.  `NoHalfPage` excepts
what no code could help: a kill, and a full stack.

### Rows: `HtmlTree`, `HtmlWriter`, `IrValues`, `CellRenderer`, `HtmlBrowser`, `Cells`, `CellReading`, `PageProofs`

What is in a row, which `HtmlPrinter` leaves out.  `HtmlTree` has the nodes of `HtmlUtils.hpp`, with
`addClass`, which looks for an attribute that is there already and which, as it asserts, has a
value; and the trees that can be made of them (`TreeOf`). `IrValues` has the values and SCEVs that
rows are made from, and `CellRenderer` makes the rows of a block: `frames` is the stack of tags in
the making, each with what is still to be added, so that the recursion of the SCEV visitor and of
`MetadataRenderer` is a step for each call; `Overflow` is a full stack.  `HtmlWriter` prints a tree,
with the tags that are open as its stack; levels are unsigned and wrap around. The source of a
script or style sheet goes through `LongStringLiteral` (`PrintSource`, `HtmlUtils.cpp:92`), by the
function `PrintedLines` of `SourceLines`, which the two loops compute: `PrintsItsLines` of run
`embedding` says so. `HtmlBrowser` is external: the tokenizer of a browser, as far as these pages
need it. `Cells` puts them in a row and says what a tree should look like (`Look`): what each node
shows, and where blanks are, which the style of all tags around decides.  Of a source it shows the
lines that are not empty, but for the first one and what follows the last line break, which
`LongStringLiteral` drops (`SourceLook`); that the lines have lost their common spaces and gained an
indentation is no more than blanks.  `PageReadsBack` compares the events of the tokenizer with it.
`CellReading` reads the cells: `RowTells` compares the elements, texts and attributes of the row
with the instruction, and `CellTellsExpression` parses the SCEV that is shown.

Texts are sequences of characters where a character matters (`<`, `&`, quotes, blanks) and one
element for a word where none does.  Run `cells` takes rows with SCEVs of up to two operations, of
all kinds, each at each operand of each other, with all flags; metadata that is shared, empty,
cyclic or has a string that cannot be printed; lists of up to three blocks; and trees three tags
deep with every kind of node in both styles, values with `"`, `>` and `<`, and scripts whose source
starts with a line break, as the raw literals of `main.cpp`, or with a line, as the embedded files,
and ends with one or not. `FLOW_STYLE` is 255 there, an odd number above every column that occurs,
as `~0u` is: `StackAssumption` asks for as much, that the stack is full before a column is as great.
The other assumptions of `Cells` are about its inputs: SCEVs that the stack has room for, metadata
whose nodes there are (`MetadataAssumption`), and other trees no deeper than rows, without `<`, `/`
or `script` as the name of a tag, with scripts and style sheets that have a line break, as every
literal and every embedded file has, and no `</` (`JobsAssumption`).  The two `VerbatimTag`s over a
piece of markup in `run` (`main.cpp:859` and `947`), whose source is not text but tags, are not
among the trees.  `WordsAssumption` only says that the words of the program are strings; the provers
do not know that of literals. What the page does not tell, the properties leave out by name: `Told`
says that both wrap flags of a sum are printed as `<nuw>` (`main.cpp:412`) and that a cast prints
the type of its operand twice (`main.cpp:321`), `Plain` and `Harmless` that a quote in the type of a
value breaks the tag it is in.  No doc of the program says otherwise.

### The page in a browser: `PageUi`, `PageProofs`

One action for each event handler of the scripts in `HtmlPrinter::run`: a check box, the collapse
button of a function, the one of all functions, the overlay.  `collapsed`, `allBtn` and `body` are
classes of elements, which change at once; `queue` has the animations that jQuery still has to run
for each function, the first under way, and `shown` what the last one that ended left on display
(both external).  `Reload` is external too: the page is as it was printed, but a browser may put
check boxes back to what they were; `touched` are those the user has changed since.  Run `page_ui`
has two functions, two of the four boxes and six clicks, enough to collapse all while one function
is on its way down and to reload in between.

### Publishing files: `Stringify`, `AtomicPublish`, `StringifyProofs`

`Stringify` is one command per element of `Runners`: `pc` is where `main` is, `run` how often the
command was run, `name` the random part of the names of its temporary files, `temps` what all
temporary files contain, `dst` what the destinations contain.  `Fail` is `error()`, a signal or a
crash at any step, after which no destructor runs.  `Close` and `Rename` are the two halves of
`~OutputFile`; the `.cpp` goes first because its `OutputFile` is declared last.  `AtomicPublish` is
what the build relies on, and `KeepsPromise` says that `Stringify` implements it: `phase` is a
function of `pc`, `attempt` is `run`, `published` the run of what is at a destination.

Run `stringify` has two commands side by side that the build runs three times between them, and
three random names: enough for two runs beside a file that a failed one left behind, and for a
second run of a command after its first has succeeded or stopped half way.  Names are symmetric.

### Text into the page: `LiteralText`, `Getline`, `SourceLines`, `LongStringLiteral`, `Embedding`, `EmbeddingProofs`

`LiteralText` is `escape`, one token for each character, and what a compiler reads in the literals
(external): `\x` takes all hexadecimal digits that follow, and a byte from 0x80 on is written with
its sign extended to 64 bits.  `Getline` is the loop of `main` that writes the `.cpp` and the calls
of `getline` in it: one step for each `fgets`, with the `assert` that `back()` makes on a chunk that
starts with a NUL.  `buf` may contain anything when `getline` is called, as the code does not
initialize it.  `LongStringLiteral` is `print`: one step for each line that is split off and one for
each line that is printed.  Its variables are the locals of the code, which counts lines from 0; an
index behind the lines is an assert of `SmallVector` and ends in "aborted".  `SourceLines` is what
the two loops should compute, as a function of the text. `Embedding` puts them in a row: stringify
reads a file, a compiler makes a string of the literals, and `VerbatimTag` prints that string.  A
file without a line break has no literal, and its `.cpp`, with nothing after `src[] =`, does not
compile: nothing is printed then (`PrintTag`).

Run `embedding` takes all files of up to six characters of spaces, letters and line breaks, and all
of up to four with quotes and NULs or with bytes that are written as `\x`, through a buffer of
three: chunks end before, at and after a line break, and three lines with different indentation fit.
The properties speak of texts that survive as literals (`Ordinary`): ASCII, with no hexadecimal
digit after a control character. `NothingLostOrDoubled` and `OnlyTheEndsAreLost` are the two ends of
this: within stringify nothing is lost as long as it reads, and at the end only the first and last
line may be.  `IsPrinted` says that the print gets to its end, so no counter of the first loop leads
the second behind the lines; `PrintsItsLines` says what it has printed then. `Indent` is not 0:
`VerbatimTag` prints its text two columns further in than itself (`HtmlUtils.cpp:92`).  Without
indentation a line of nothing but common spaces would become empty.

They are: run `embedding_unterminated` is expected to fail because a last line that no line break
ends has no literal (`stringify.cpp:189`), and run `embedding_first_line` because
`LongStringLiteral` takes 0 for "no first line yet" (`PrintUtils.cpp:41`).  Its literals in
`main.cpp` start with a line break and do not show it; the files that stringify embeds start with
text.  Both minified Bootstrap files open with `/*!` on the first line, which the page does not
have, and end with a line without a break, which it does not have either.

## Fairness

`EscapeName`, `EscapePair`, `Getline`, `LongStringLiteral`, `Embedding` and `Cells` assume weak
fairness of their next-state relations: one thread, with nothing to wait for but the disk. `Program`
assumes it of what the program does (`Step`), never of a fault.  `PageUi` assumes it of each
animation, since a browser's timers go on, and not of the user, who may stop. `Embedding` also
assumes that the build goes on once stringify has succeeded.  `Stringify` assumes no fairness:
nothing promises that the build runs a command again.

## Proofs

TLAPS checks the theorems for all values of the constants, from the assumptions on them alone; each
is about an invariant that one of the runs checks on a small instance.

**`SequenceLemmas`** has what the proofs need of recursion over data.  The induction theorems of the
library take the predicate as an operator, which no prover here can instantiate; but that `<` is
well founded on the natural numbers is a fact about a set, and so is induction over the numbers that
belong to a set (`InductionOverSet`).  From it follow the existence and uniqueness of recursive
functions (`StepsExist`, `StepsAreUnique`), what `FlattenSeq` computes (`FlattenIs`,
`FlattenAppend`, `FlattenRange`, `FlattenPart`).

**`EscapePairProofs`**: `getId` gives different names different ids, for every set of names of any
length.  `DistinctIds` is not inductive.  The invariant is `PrefixFree`: the two calls have read and
written the same so far, or what they have written already differs at some position, or one of them
has ended with a shorter text than the other, or one has failed an assert.  A step leaves "the same"
only by reading different characters, and the words for different characters differ at a position
both have (lemmas on `CodeWord` and `HexWord`); the invariant has to speak of positions because ids
of different length must be kept apart too.  A second invariant, `BothInOrder`, says of each call
that it has written the escape of what it has read and has not read a character the switch does not
know: a call that ends has written `Escaped` of its name (`EscapeIsComplete`), and it ends exactly
on names that are `WellFormed` (`OnlyKnownNamesGetIds`).  `IdAlphabetLemmas` has what `Escaped` is,
by induction over the name, and that it is a prefix code.  Assumed: `CharAssumption`, that the
classes of characters do not overlap, and that names are sequences of characters.

**`ValueNameManglerProofs`**: the ids of a module.  The invariant is that every id in `_ids` is the
escape of the string of its value and that every anchor and link has an id from there; ids are never
changed, so a link that was made before its anchor has the same one (`LinksLead`).  That ids are
unique (`IdsAreUnique`) is then a matter of strings: the name of a function, a dot, a sigil and what
LLVM prints for a name, put together without separator.  A text that LLVM prints either is in
quotes, with no quote inside, or has neither quote nor sigil; so a string is read from its end: the
last quote is preceded by the first one of the text, and without one the last sigil starts the text
(`QuotedStart`, `QuotedRest` and the lemmas before them).  What is left is the function, and LLVM's
own escapes are a prefix code.  Assumed of each module: its values have a name or a slot
(`WellTyped`), and no two of the same kind share it (`OneValuePerName`).  The latter includes that
at most one function has no name, which LLVM does not guarantee: run `mangler_unnamed` shows what
happens otherwise.  `ValuesAreRendered` needs `Renderable` instead: run `mangler_metadata` shows
that it is needed too.  Assumed of LLVM: the two digits it writes for a character are hexadecimal
and tell which (`HexCodeAssumption`), and slot numbers are made of letters that need no escape
(`DigitsAssumption`).

**`StringifyProofs`**: for any number of commands, runs and random names, all invariants of run
`stringify` and the refinement of `AtomicPublish`.  Whole texts at the destinations are not
inductive: a rename may publish whatever is in a temporary file.  The invariant adds what a run
knows of its own files (`TempsOf`): each is from this run, and once it was written it is whole or
its stream is broken, and then the destructor fails before the rename.  That no other run changes it
is `Apart`: a name that is held is a file that exists, which `createUniqueFile` does not give out
again.  `DstsOf` has the order of the two renames, which gives `HeaderNotNewer` and, with the
previous facts, that each rename is a step of `AtomicPublish`.  Each action is shown to preserve the
three parts for the command that moves and for all others.  Assumed: `MaxRuns` is a number and
`Unnamed` is not a name.

**`EmbeddingProofs`**: for files of any length and a buffer of any size, all safety properties of
run `embedding`.  Of stringify the invariant `SInv` says that the string of the literals and the
line in hand are the start of the file up to `pos`.  It has to say three more things: each literal
is that of one line (`LinesOK`), a line in hand ends with a break only when `getline` returns, and
the line means what it says when it is written, which needs the character after each of its own
(`Clean`): a hexadecimal digit after `\x` would be swallowed within the line, but never over the end
of a literal.  Of the tag, `PInv` has the lines up to `prev` (`LinesTo`, which `NextLine` extends at
the next break) and what the loop has found out about them (`Summary`), with `first_line` being that
of the first line *after the very first* that is not empty: the 0 that stands for "none yet" is in
the invariant.  `TagPrints` follows: what is printed is `PrintedLines`, for any text and
indentation.  `TagNeverAborts` needs that a string that was compiled has a line break, which each
literal ends with.  `RawLiteralsKeepLayout` follows as the first line of a raw literal is empty.
`OnlyEndsAreLost` puts both together: the lines of the string are the lines of the file, common
spaces are leading spaces, and what is before `first_line` or after `last_line` is empty but for the
first line.  `SuccessIsTheFile` is the safety part of `WritesAllLines`.  Assumed: the characters
with an escape of their own are not those printed as they are (`LiteralAssumption`), the buffer has
room for a character, the indentation is not 0, and no file is as long as `SizeMax`.

**`HtmlPrinterProofs`**: for all sets of modules of any size, all invariants of run `printer`. What
`AnalysesMatch`, `RowsFillTheLegend` and `RowsAreStriped` say of the last function they say of
`_attrs` and `_basic_block_stylers`, members that outlive a function; so the invariant has these
vectors as a function of how many renderers the loop over `_renderers` has visited (`AttrsOf`,
`StylersOf`), starting from nothing, which only holds because both are cleared.  A row in the making
has the first columns (`Row`), the rows that wait for the end of their block belong to it and are
filled (`Tbody`), and what `emitBasicBlock` adds at the end alternates in shade, up to the `<tbody>`
at its end, which has a class but is no row.  That two blocks never meet row to row, so that
alternation within each is enough, is in `DocumentGrows`: what is added to the document never starts
with a row. `PageMatchesModule` needs a second invariant, `IdsInOrder`: the ids on the page are
those of the functions, blocks and instructions that the loops have passed, in the order of the
module; it says so at every place of the three nested loops.  `LinksResolve` follows from it and
`LinksHaveIds`, that what is linked to is in the module, which holds as what is in scope of an
instruction is (`ScopeAssumption`) and a function with blocks prints all its locals.  Assumed:
`ModulesAssumption`, `ScopeAssumption`, which LLVM's reader ensures, and that `MAX_DEPTH` is at most
`maxLoopDepth`, without which a row could have a class that the style sheet does not know.

The last part of `HtmlPrinterProofs` is about `Program`: `SuccessMeansPage` and `NoHalfPage`.
Neither is inductive: both follow from `Guarded`, which says what holds of the file at each place of
`main`: while anything of the page may be in it the signal handler will remove it, nothing of the
page is in it before it is opened, and past the destructor of the stream, which does not return
after a failed write, the page is whole and `keep()` was called, without which `Release` would
remove it.  `Run` leaves all of it alone, so nothing about `HtmlPrinter` is needed but that its
steps change none of these variables.

**`PageProofs`**: `PageReadsBack` for all rows, whatever their names and types, however many
operands, however deep their SCEVs and metadata, whatever the size of the stack that bounds these
(`StackMax`), and for all trees of `TreeOf`.  Reading is a chain of `Token`s (`ReadsTo`);
`Shows(exact, from, text, events, to)` says of a text that, read after anything, it adds these
events up to blanks that merge, and it composes: the lemmas go from a character of an escaped text
over attributes and opening tags to nodes.  `exact` has the two halves of the property: with
attributes if all values are plain, without if they are harmless.  The invariant has three parts.

- `RowInv`: `html` is a tree of `TreeOf[Height]`.  While it is made, the stack of `CellRenderer` is
  one of tags with room below them for what they still add, SCEVs of the height that is left
  included, so that each tag can be put into the one below (`Piled`, `FrameSets`).
- `WriterInv`: the tags in the stack of `HtmlWriter` are open, each a node of the one below
  (`OpenTag`), and the text printed so far `Shows` events which, with what is left of these tags
  (`Remaining`), are the look of the tree (`PageGoesOn`).  That the level of a tag is `FLOW_STYLE`
  exactly if a tag in flow style is around it is part of it, and with it that levels, which wrap
  around, never reach it by counting.
- `BrowserInv`: the browser is where the tokens up to `pos` have led it.

A script or style sheet is the leaf with most to it (section "What a script shows"): what is printed
of its source is, line by line, blanks and the characters of a line that is not empty (`LineLook`),
and empty lines and indentation are blanks that merge with those around (`SameSeen`, `ShowsSource`).

At the end nothing is left, and the text shows the look.  `RowsAreTrees` is the first part alone.
`PrintEndsAsTextsDemand` is the safety half of `CellEnds`: a text that `isprint` would reject is
still ahead in some open tag (`TextInv`) until the assert meets it.  The look of a tree is a
recursive function over its nodes, and trees and SCEVs are recursive functions over their heights.
That these functions are what their equations say (`TreeHeights`, `ScevHeights`, `LookUnfolds`) is
proved from the heights up: the set of numbers for which there is such a function has 0 and all
successors (`InductionOverSet`).

The last part is about the scripts: `CodeFollowsClass` and `FlagsFollowBoxes` for any number of
functions, boxes and clicks.  With `UiTypeOK` they are inductive, because `CodeFollowsClass` speaks
of the last animation in a queue and not only of queues that are empty; the work is in what `Append`
and `Tail` do to the last element.  Assumed: `MaxClicks` is a number.

Only model-checked.  Liveness (`EndsAsTheNameDemands`, `Finishes`, `Settles`, `CellEnds`,
`IsPrinted` but for `TagNeverAborts`, the first half of `WritesAllLines`): TLAPS has no rule for
fairness here. And `RowTells` and `CellTellsExpression`, whose readers (`CellReading`) are inverse
to the renderers: `RECURSIVE` operators over SCEVs and metadata, for which the SMT backend is lost,
with `SelectSeq` and `SetToSortSeq`, whose definitions no backend opens, and equal to what was put
in only by an induction over what was rendered.  What is proved of these rows is that they are trees
and are read back as such.

Some definitions were rewritten so that they could be reasoned about, and describe what they did
before: `Remember` of `ValueNameMangler` has a function where it had `@@`; the lines of a text
(`LinesOf`, `Stripped`) and the attributes a browser keeps (`Kept`) are put together with
`FlattenSeq`; `Look` and `Nodes` are functions over the nodes of a tree, which goes level by level;
`AddClass` changes one attribute.  Two texts next to each other in block style have two line breaks
between them, which `Look` takes for the one blank they are.

## Not modelled

`CfgToDot` is compiled but nothing calls it: its only caller is under `#if 0`
(`main.cpp:1242-1257`).  `safe_ptr`, `TimeStamp` and `Utils.hpp` have no state of their own. The
vendored jQuery and Bootstrap are external; of jQuery the queue of animations is modelled as the
scripts rely on it.  Left out are wording, colors, the layout of the page around the rows, the files
that stringify makes beyond their texts, and how LLVM parses and analyses a module.

## Plan

The plan has been carried out: every component with state of its own that the program uses is
modelled, and every safety property of a run but two is a theorem.  What is left is the inverse of
the renderers (`RowTells`, `CellTellsExpression`), with recursive functions over the height of SCEVs
in place of `RECURSIVE` readers, and `CfgToDot` if it is ever called.
