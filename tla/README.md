# RTek verification

TLA+ models of the RTek engine (`src/src`), the TLC configurations that check them, and
TLAPS proofs of what matters most about them, up to the whole program. Paths below are
relative to `src/src` unless they begin with `src/`.

RTek is a single-threaded C++ program: one main loop polls GLFW, applies the settings,
draws with OpenGL and swaps buffers. What makes it hard to test is not threads but
callbacks that run inside a poll, libraries with state of their own (GLFW's error register
and its termination, OpenGL's current program, vertex array and texture), buffers that
swap roles each cycle, caches on an honor system, and a chain of some twenty steps each of
which may fail and return from there.

## 1. The parts of the system

| Component | State it keeps | Operations | Status |
|---|---|---|---|
| Input manager (`core/platform/input_manager.cpp`) | three `Game_Input`: two that swap the roles "new" and "old", and a static one the callback writes | `process_new_input`, the key callback, `prepare_for_new_input`, `get_input` | modelled |
| Window (`core/platform/window.cpp`) | the saved position and size, the monitor; GLFW keeps the rest | `set_fullscreen`, `initialize`, size queries, closing, swapping | modelled |
| Window manager (`core/platform/window_manager.cpp`) | the window and its callbacks | `create_window` | modelled |
| Engine and main (`core/core.cpp`, `main.cpp`) | `m_initialized`, the managers, the loop | `initialize`, `run`, `destroy`, `main` | modelled |
| GLFW wrapper (`core/platform/glfw.cpp`) | GLFW's own | `initialize`, `destroy`, `handle_error` | modelled |
| Shader program (`core/renderer/opengl/shader_program.cpp`) | `m_id`; OpenGL keeps the programs | `compile`, `use`, `is_active`, the setters, `destroy` | modelled |
| Renderer (`core/renderer/renderer.cpp`) | the glyphs, the text's vertex array and buffer, the projection; OpenGL's error flags | `prepare_window`, `setup_gl_api`, `handle_ogl_error`, the debug callback, `load_font_glyphs`, `render_text`, `draw_wireframe`, the size callback | modelled |
| Paths (`core/platform/filesystem.cpp`, `.h`, `filesystem_win32.cpp`) | a fixed buffer and a cached size | some twenty `path_*` functions | partly |
| Directories (`filesystem_win32.cpp`, `filesystem_linux.cpp`) | the file system's | `directory_exists`, `create_directory`, `file_exists` | modelled |
| Unicode (`core/platform/unicode.cpp`) | buffers on its callers' stacks | `ascii_cmp`, `is_ascii`, `widen`, `narrow` | partly |
| Logger (`core/logging`) | `s_initialized`; spdlog keeps the sinks | `initialize`, `log`, `flush`, `emergency_shutdown`, the macros, `fallback_log` | modelled |
| Assertions (`core/assert.cpp`) | none | `report_assertion_failure`, `debug_break` | modelled |
| Status, exception boundary (`core/status.h`, `core/utility/no_exception.h`) | the exception in flight | `RK_CHECK`, `exception_boundary`, `to_string` | modelled |
| Platform wrappers (`core/platform/platform.cpp`, `linux_*.h`, `stdlib`) | errno's copy, an array of names | `log_last_error`, `linux_errno_to_short_str` | partly |
| Math (`core/math/vector.cpp`) | the vectors' coordinates | the operators of `Vector3`, `make_unit_vector` | partly |
| ECS, resource manager, utilities | none, or a stub | | not modelled |

How they interact:

* `main` calls the engine's `initialize`, `run` and `destroy`. `RK_CHECK` returns from the
  caller on the first status that is not ok, so each step is also a way out.
* `run` calls `process_new_input` once a cycle; GLFW calls the key callback and the
  framebuffer-size callback back from inside it. The key callback itself calls GLFW
  (`glfwGetKeyName`) and `handle_error`, which may terminate GLFW under the poll.
* The loop hands the settings of the published input to `Window::set_fullscreen` and
  `Renderer::draw_wireframe`, and the request to quit to itself.
* The renderer and the shader programs share OpenGL's current state: each draw call takes
  what was bound last, by whomever.
* Every component logs; the engine flushes the log once a cycle, and a failed assertion
  shuts the logger down.

What is hard, and the property for it:

| Where | What could go wrong | Properties |
|---|---|---|
| input manager | a press or release lost or doubled between two buffers; settings of two cycles ago; counters that only one function resets; errors raised by one party and read by another | `KeyboardTracked`, `TransitionParity`, `TransitionsBounded`, `DropTerminatesGlfw`, `KeepsPromise` |
| window | the geometry to restore saved at the wrong moment, a monitor that goes away | `SavedIsWindowed`, `RestoresGeometry` |
| set-up of window and OpenGL | an error that a later call is blamed for; images leaked on a way out; errors that stay flagged; a loop over errors that does not end | `BlamesTheCall`, `UncheckedErrorsAreNonFatal` (refuted), `IconsFreed`, `DebugTellsErrors`, `SetupEnds` |
| engine | OpenGL before it is loaded; sizes reported late, or in the other of two units; a frame drawn with other settings than the input's; a way out that leaves something behind; a loop that does not end | `GlAfterLoad`, `SizesSettle`, `FrameShowsSettings`, `CleanExit`, `EscapeExits`, `LoopIsClient` |
| shader programs | names that OpenGL uses again; handles after a failed compile; uniforms of the wrong program | `HandlesOwned`, `NoOrphans`, `OkMeansLinked`, `UniformsLandHome` |
| renderer | a draw call with state left by the last one; glyphs that are missing; a frame shown before it is complete | `DrawsWithItsState`, `GlyphsHaveTextures`, `ShaderAssertionsHold`, `DrawsFrames` |
| paths | a size that is stale; in-place rewriting; the fixed buffer's end | `WritesFit`, `SizeCoherent`, `ComponentsKept`, `CleanIsFinal`, `DescendantsFound`, `NameAndExtension` |
| logger | a start that races another; a crash between a line and its flush; a logger that is gone | `RaceHasWinner`, `LossBounded`, `InitializedHasLogger` |
| leaf functions | a pointer behind its terminator; a path changed by a call that failed; an error line without a destination; the wrong handler of two that match; names lost in an array; an operand that is its own target | `AnswersAreRight`, `PathIsAnswer`, `ErrorsAreSeen`, `NearestReported`, `FirstNameLeads`, `ReadsWhatWas` |

`PROJECT.json` lists every hazard at its line, with the properties that would catch it, or
the reason why none does.

## 2. Modules

| Module | Models | Composes |
|---|---|---|
| `Input` | the `Game_Input` record, keys, toggles | |
| `InputSpec` | abstract: what the input manager promises | extends `Input` |
| `InputManager` | the double-buffered implementation, GLFW's error register and `handle_error` | extends `Input`, instantiates `InputSpec` |
| `Window` | `set_fullscreen` and the saved geometry | |
| `Setup` | creating the window and setting OpenGL up, call by call, with the error registers of both libraries | |
| `WindowLife` | a window from its creation on | extends `Window`, instantiates `Setup` |
| `Engine` | `main`, `Rtek_Engine`, the window manager, the callbacks | instantiates `InputManager` and `Window` |
| `ShaderProgram` | the shader objects and OpenGL's programs | |
| `FrameSpec` | abstract: what is drawn in a frame, and in which order | |
| `Renderer` | glyph loading and the frames | instantiates `ShaderProgram` and `FrameSpec` |
| `PathText` | the pure functions on the text of a path | |
| `Path` | the class `Path` and the functions that write to one | extends `PathText` |
| `Logger` | start, routing and loss of log lines, several instances in one directory | |
| `AsciiCmp` | the pointer walk of `ascii_cmp` and the prefix tests that call it | |
| `WindowsCalls` | the functions of `filesystem_win32.cpp` by their buffers: widen, call, narrow | |
| `LogLine` | which lines a build logs and which sinks let them through | |
| `ExceptionBoundary` | the handlers of `exception_boundary`, from a functor to `main`'s exit | |
| `LinuxErrno` | the lookup of an error number's names | |
| `Vector` | two vectors and the operators that assign to them | |
| `LeafCalls` | the six modules above, of which each behaviour runs one | extends `AsciiCmp`, instantiates the other five |
| `InputManager_proofs`, `ShaderProgram_proofs`, `Logger_proofs`, `Path_proofs` | the theorems | extend their module and `TLAPS` |
| `Window_proofs` | the theorems about a window and its set-up | extends `WindowLife` and `TLAPS` |
| `LeafCalls_proofs` | the theorems about the leaves, each alone and as `LeafCalls` runs them | extends `LeafCalls` and `TLAPS` |
| `Renderer_proofs` | the theorems about frames | extends `Renderer`, instantiates `ShaderProgram_proofs` |
| `Engine_proofs` | the theorems about the whole program | extends `Engine`, instantiates `InputManager_proofs` |

`Setup` and `WindowsCalls` have call by call what `Engine` and `Path` have as one step. The six
leaves of `LeafCalls` share no state in the code either: composing them says nothing about
interleavings, it only lets one run check them all.

The modules `MC*` only give constants their values. Operators introduced by "Fault" in
their comment are no part of a specification: each is a definition with one plausible
mistake, kept beside the right one to show that a property notices it.

### State and code

**InputManager.** `m_input` is the array of two, `newest` the index `m_new_input` points
at, `input_buffer` the static one. `phase` is where `run` is with respect to the manager
("idle", "polling", "published", ...). `glfw` is `[init, error]`: whether GLFW is initialised
and its error register, which `handle_error` (`glfw.cpp:20-27`) reads and clears. `keys` is
GLFW's own keyboard, which makes presses and releases alternate. `ProcessNewInput` is the
part of `process_new_input` before the poll (swap, `prepare_for_new_input`), `KeyEvent`,
`KeyRepeat` and `UnknownKeyEvent` are the callback inside it, `PollReturns` is the part
after it. `PlatformError` is the error an unrelated platform event can leave.

**Window.** `geometry` and `fullscreen` are GLFW's, `saved` is `m_window_pos` and
`m_window_size`, `returned` the status of the last `set_fullscreen`. `Rearrange` and
`Unplug` are the user's. `left` is history: the geometry the window last had before it
became fullscreen. `LeaveFails` is the one failure that leaves GLFW alive: a size of zero,
saved of an iconified window, is an invalid value.

**Engine.** `pc` goes through the steps of `initialize` and `run` in the order of the
function `FollowedBy`, then through the cycle "loop", "input", "fullscreen", "draw", "swap",
then "cleanup", "destroy", "exited", or "unwind" after a failure. `resizes` holds the sizes
the window has had and GLFW has not reported: the callback runs inside a poll, once for
each, so what the program knows lags behind the desktop. `geometry` is in screen coordinates,
as `glfwGetWindowSize` answers, the sizes in `resizes` are the framebuffer's, in pixels;
`Pixels` converts them. `told` is history: a size has been reported. `objects` are the objects
of OpenGL that have been created and not deleted, by the names of the code.

**ShaderProgram.** `program` is what OpenGL knows of each name: nothing, not linked,
linked, or flagged for deletion while in use. A name is free again once its program is
gone. `client` and `active` are the callers' side: what `compile` has told them, and the
object they used last. They set a uniform only on the object just used; what they compile,
destroy and use, and in which order, is left open. `compile` finds a handle it has and returns
ok, be it that of a compile that failed: `client` is "skipped" then.

**Renderer.** `pc` goes through `load_font_glyphs`, the set-up of `run` and the two parts
of a frame. `drawn` records what the last draw call took from OpenGL: the program, the
vertices, the texture, blending. A quad is told by its character and the pen's place
(`Quad`); a text's scale and start are the same for all its characters and left out. The
refinement to **FrameSpec** forgets OpenGL: of a step only its stage is left, of the loops the
places still to be drawn (`Left`), of a texture the characters whose glyph it holds.

**PathText, Path.** A path is the sequence of its characters; only the separators and the period
are told apart from letters. `Path` keeps the whole buffer, what lies behind the terminator
included, because a function that trusts a wrong size reads and writes there. `untold` is
history: which of the functions that forget the size changed the text last. `overrun` is the
function that has written behind the buffer, after which nothing is said any more. `path_clean`
is the tidying of the text and then `path_canonicalize`; `PathCchCanonicalize` is the constant
`Canonical`, a function of which it is only assumed that it leaves a text alone in which no
component ends in a period (`IsCanonical`). The build is the one for Windows, without assertions
(see "Findings", is_ascii).

**Logger.** `lines` says of each line, told by its cycle and level, whether it is in the
buffer, in the file, on the console, lost in a death or erased by another start's
truncation. Two instances share `dir`; `System` selects the Windows or the Linux version of
`directory_exists` and `create_directory`.

**Setup, WindowLife.** `error` is GLFW's register with the call that raised the error, `flags`
OpenGL's, one per kind, as `glGetError` (in a loop, `renderer.cpp`'s `handle_ogl_error`) clears
one at a time. Attribution is what the module is about: `raisers` are the calls whose errors
`handle_ogl_error` has taken, `failure.at` is the check that found an error and `failure.by` the
set of the calls whose errors it found, which for OpenGL may be several and of long before. In
`WindowLife` the window can be toggled, moved and unplugged once `pc` is "done"; a set-up that
has failed ends there.

**AsciiCmp.** One character per step, with both pointers as places in strings that end in a
terminator and have nothing behind it. `answers` keeps the answers about one path.
**WindowsCalls.** `Script` gives for each function the arguments it widens, in order, and the
buffer each goes to; texts are told by whose they are. `path_combine` is among them as it is,
second argument over the first, so that its second buffer is read uninitialised; so is
`get_current_directory` for a directory longer than its buffer, which Windows answers with a
length and without a text.

**LogLine.** `Destinations` is where a line of a level ends up, from the macro's `#if` through
the logger's level to the sinks. A line tells where its head (`up`) and its text have come out,
and whether formatting it without the logger has thrown, which ends the program.
**ExceptionBoundary.** `Handlers` is the list of catch clauses in the code's order; one step
tries one of them. **LinuxErrno.** One entry of the list per step, its 134 entries by their place
and number.

**Vector.** Floats that hold small integers; a vector operator is its assignments in order,
reading its operands between them. A quotient (`unit`) stands for what `make_unit_vector`
multiplies by.

## 3. What TLC checks

| Run | Configuration | States | Shows |
|---|---|---|---|
| `input_manager` | three events a poll, all toggles and two buttons | 1.35 million | no key lost, counts consistent, dropped events at GLFW's price only, and `InputSpec` implemented |
| `input_events_dropped` | the same | | **violation**: an ok poll that dropped an event |
| `window` | four icons, two kinds of OpenGL errors, three positions, two sizes, a monitor that can be unplugged | 5.3 thousand | which check reports whose error, what is freed, that the set-up ends, and that the geometry comes back |
| `window_unchecked_geometry` | the same | | **violation**: an error nobody checked for ends the program at a call that has succeeded |
| `engine` | two events and two unreported resizes, two sizes on a scaled display | 1.29 million | six properties of the whole program, `LoopIsClient` among them |
| `text_screen_space` | the same | | **violation**: text keeps the window's first size |
| `shader_program` | three objects, four names | 184 thousand | no object touches another's program, whatever the calls |
| `renderer` | three characters and textures, two texts, two programs | 2.6 thousand | draw calls, glyphs, the shaders' assertions, and `FrameSpec` implemented |
| `path` | capacity 5, one letter, period, both separators, five results, the last too long | 8.6 thousand | the size, the buffer, the functions that read |
| `logger` | two instances, two cycles, Windows | 293 thousand | who starts, what is lost |
| `logger_missing_directory` | two instances, Linux | | **violation**: a missing directory is an error |
| `leaf_calls` | the leaves one at a time, as below | 1.15 million | each leaf's property, over all its inputs of the bounds |

A type invariant is a theorem for every value of the constants (section 4), and as a rule no
property of a run.

### Bounds, and why they are enough

* *Events of a poll* (`MaxEvents`): three let a button be pressed, released and pressed in
  one poll, so that a count, its parity and the end state differ from each other; the proofs
  do without the bound. In `engine` it is two: press and release of Escape.
* *Resizes on their way* (`MaxResizes` = 2): one that is reported and one that is not yet.
* *Sizes, positions*: two or three suffice for "the same as before" and "another".
* *Objects and names*: three objects and four names let a name be free, used, flagged and
  used again by another object while a third one is in use; the proofs do without bounds.
* *Characters, textures, texts*: a text with a repeated character, a text with a character
  that may be missing between others, and as many textures as characters.
* *Pixels*: one display, whose scale is not 1, so that screen coordinates and pixels differ
  everywhere; the proofs do without it.
* *Capacity* = 5: texts of up to four characters hold two leading separators, a component
  and a separator, or two components with a separator and a period; a result is longer than
  the buffer, others exactly fill it. `Canonical` is in `MCPath` a function
  that takes out "." and "..", and leaves a separator where nothing else is left.
* *Cycles* (`MaxCycles` = 1, that is two cycles): a finished one and the present one.
  *Instances*: a race needs two, as does a restart. They are symmetric.
* *Icons* = 4 is the code's number. *OpenGL's errors*: two kinds let one be raised and read
  while another is pending.
* *Strings* are a UNC path and a path with two slashes, with one character changed and cut
  off anywhere, which reaches each answer of each test; *functions of Windows, builds, levels,
  functors, exceptions and error numbers* are all there are, so those leaves are exhaustive.
* *Coordinates* are -1, 0 and 2, and numbers up to 2 in sequences of operators: signs, and a
  number whose products differ from its sums; the proofs do without the bound.

### Fairness

`Engine` has weak fairness of `MainThread` (the steps of the main thread taken together) and of
`SizeCallback`. The main thread runs alone and nothing in it waits: `glfwPollEvents` returns
after the events at hand, and delivers each of them in it. `EscapeExits` needs it. `Setup`, and
`WindowLife` with it, has weak fairness of its next-state relation: straight code on the main
thread, which runs on whatever fails. `SetupEnds` needs it. No fairness is assumed of the user,
the desktop, or failures; the other modules check safety only and assume none.

`CHECK_DEADLOCK FALSE` stands where a behaviour ends: after `main` returns or crashes, after a
set-up or `set_fullscreen` has failed, after a write behind the buffer of a `Path`, when all
instances of the program have ended, and when a leaf function has returned. Where the calls may
go on for ever deadlock is checked.

## 4. What is proved

The theorems hold for every value of the constants, under the named assumptions of the
modules: `MaxEvents` and `MaxCycles` are natural numbers and `MaxResizes` and `NumIcons` positive
ones, the tracked buttons are no control keys, the monitor's area is no geometry of the user's,
`invalid_handle` is no name, `NoObject` no object, `NoTexture` no texture, texts are sequences
of characters and advances integers, strings hold no terminator, a buffer has room for a
character, the letters of paths are no separators, periods or terminators, what Windows
gives back for a path is a sequence of characters, `PathCchCanonicalize` leaves a text alone
that has nothing to simplify (`CanonicalAssumption`), and windows of different sizes have
framebuffers of different sizes (`PixelsAssumption`). The theorems on the coordinates of vectors have
`Bounded` (the coordinates are integers up to a bound) as a hypothesis of their own.

* **InputManager_proofs.** The inductive invariant `IInv` joins the types, `KeyboardTracked`'s
  strengthening `Tracking`, parity, bounds and errors with two facts about buffers that no
  property states: `Continuity` (the buffer's `started_down` is the old input's
  `ended_down`) and `NoOldQuit` (no input that is read again asks to quit, which is needed
  because `prepare_for_new_input` does not reset the flag). From it follow `TypeCorrect`,
  `KeyboardIsTracked`, `ParityHolds`, `CountsAreBounded`, `ErrorsDoNotOutlive`,
  `DropsTerminate`, and `InputManagerKeepsPromise`: every step of the double-buffered
  manager is a step of `InputSpec` or a stutter under the refinement mapping.
* **Window_proofs.** `WInv` adds to the types and `SavedIsWindowed` that a fullscreen window's
  saved geometry is the one it left, and that a windowed one with its monitor is not at the
  monitor's geometry. From it `RestoresGeometry`, an action property. For the set-up the
  invariant `SInv` (at the end of `Setup`) needs to know which call may leave an error of GLFW
  behind: `ErrorIsAskedFor` says the geometry's only. `FlagsAreOfLoading` says whose errors of
  OpenGL the first check can find: those of loading the functions and the debug output's own.
  `DebugIsOn` says from where on the debug output catches OpenGL's errors and no older one is
  left. From it `FailureBlamesTheCall` (each failure is blamed on the call that failed, but for
  the errors of the geometry's calls and those of loading OpenGL, which the comment of
  `BlamesTheCall` names), `IconsAreFreed` and `DebugOutputTells`. The composition is shown to be
  a behaviour of both of its parts (`LifeImplementsWindow`, `LifeImplementsSetup`), which is how
  they hold in it.
* **ShaderProgram_proofs.** `ShaderInv` joins the properties, those of this module's runs and
  `SetterAsserted`, with `ActiveCompiled` (the object used last compiled and is not destroyed)
  and `UnlinkedUntilOk` (a handle whose compile failed is of a program that never linked). They
  need each other: `SetterAsserted` survives `Use` only because an ok object is linked, unless
  its ok was that of a compile that skipped its work; `OkMeansLinked` survives `Destroy` only
  because no two objects share a handle, and a new program takes no other's name only because
  every handle is live.
* **Renderer_proofs.** `Control` says for each place in `run` which programs exist and which is
  in use, `Canvas` which vertex array, texture and blending are current; the instance of
  `ShaderInv` supplies what the calls of the shader programs preserve. From them the draw
  calls, the shaders' assertions, the glyphs' textures and that nothing is left behind.
  `GlyphsStandInLine` compares the pen with a fold over the glyphs drawn, which takes them in an
  order nobody chose. `Additive` says what a sum over sets of places is without an order;
  `SumsExist` that there is one, `FoldedIsTotal` that every fold agrees with it; the invariant
  `PenPlaced` is about that sum, and each character extends its set by one place or by none.
  `RendererDrawsFrames` is the refinement of `FrameSpec`: a character that is drawn is the first
  place left, the pen is where `FrameSpec` adds it up to, `GlyphsHaveTextures` makes its texture
  tell the character, and at `swap_buffers` nothing is left.
* **Path_proofs.** `IInv` gives the buffer its terminator and the size its range, and says that a
  size that is neither dirty nor the text's was left by one of the three functions in `untold`.
  That nothing but the constructor and `path_common_prefix` writes behind the buffer
  (`WritesStayInside`) needs the size's range: a function that trusts a size that is wrong, but
  in range, still stays inside. What is proved of the functions on texts holds for paths of any
  length, and where `path_clean` is one of them, for those Windows has nothing to simplify in.
  They are recursive functions that go through a text from its start, so their lemmas go by
  induction from its end: the set of places at which a claim holds contains a place if it
  contains all behind it (`BackwardInduction`, from the library's theorem that a well-founded
  order has minimal elements, since its induction theorems cannot be cited). The lemmas follow
  the functions: `Copied` keeps the components (with which `TidyingKeepsComponents` goes through
  the five functions), a clean path has one separator between two components (`IsClean`), the
  last component is what follows the last separator, and two clean paths of which one has the
  other's components agree up to its end (`Matching`, `BelowIsDescendant`).
* **Engine_proofs.** `IInv` joins the types with `Control` (what each place in `main` implies
  about GLFW, the programs and the window), `Loaded` (OpenGL is loaded wherever it is called),
  `Reported` (the framebuffer's size is the last one in the queue of resizes; if that is empty,
  viewport and projection have it, or, before the first report, the window's size in screen
  coordinates), `Room` (a switch to fullscreen finds room in the queue), `Exit` (which objects of
  OpenGL are left at each way out) and `FrameShowsSettings`. The invariant of the input manager
  is not proved again: each step of the engine is shown to be a step of the manager or a stutter.
  `EngineIsClient` is the refinement: under a mapping that hides what happens after the loop, the
  engine is a behaviour of `InputManager`, so that what is proved of the manager alone holds in
  the program.
* **Logger_proofs.** Beside the types and what ties `s_initialized`, `pc` and spdlog's logger to
  each other, `IInv` needs `AtRisk`: a line in the buffer is at level info, of the present cycle,
  and of an instance that runs with its logger in place; a lost one was all that when its
  instance was killed. From it `LossBounded` and `InitializedHasLogger`. `RaceIsWon` needs
  `WinnerExists` as well (a directory that was made was made by an instance that has got past the
  race). It and `MissingDirectoryIsCreated` assume the Windows versions of the two calls, and say
  so; on Linux `logger_missing_directory` refutes the latter.
* **LeafCalls_proofs.** `LeavesAreAlone`: a behaviour of the composition is one of each leaf, so
  the property of a leaf, proved of it alone, holds of `LeafSpec`. Their invariants:
  * `ascii_cmp`: `Lockstep`, both pointers are where the count says, and what lies behind
    them is equal and holds no terminator. From it the bounds of the reads (`ReadsInBounds`), the
    answers, and that the answers of the program's four tests about one path agree
    (`PrefixesNest`).
  * `WindowsCalls`: `Stage`, what each buffer holds at each call of a script: arguments
    widened so far, in the script's order, the path still the caller's until the answer is
    narrowed. `PathGetsAnswer` is about all functions but `path_combine`, which does not do
    what it promises.
  * `LinuxErrno`: `Collected`, the names found so far are those of the entries passed. That no
    number has more than two names, the array's length, is computed from the list. What is
    proved is that the first is logged first, and behind it only names of the same number.
  * `ExceptionBoundary`: `Handling`, no handler passed takes the exception in flight. That the
    first that takes it is the nearest in the hierarchy is a fact about the list
    (`HandlersAreOrdered`): no handler stands before one for a class derived from its own.
  * `LogLine`: which lines are compiled in and where they go, by cases of the build: an error is
    on stderr and in the file with the logger, its text on stdout without it, or the program ends
    and the exception is on stderr.
  * `Vector`: under `Bounded` the operators keep to numbers and compute from what their
    operands were, whichever of them are one object; for any integers the cross product
    is orthogonal to its operands, with the length of Lagrange's identity (`CrossSpans`).

Every safety and action property a passing run checks is stated by a theorem. What stays with
TLC: the liveness properties `EscapeExits` and `SetupEnds`, since liveness under fairness and
ENABLED are out of the proof system's reach, and that the runs which expect a violation have one.

## 5. Findings

* `core/platform/input_manager.cpp:106`: a key event can be dropped in a poll that returns ok
  (`input_events_dropped`). The callback takes any error in GLFW's register for its own.
* `core/platform/window.cpp:125`: `Window::initialize` leaves the errors of the calls for the
  window's geometry unread; `make_current_context` finds one after its own call has succeeded,
  terminates GLFW and ends the program, against "GLFW errors are always non-fatal" in
  `glfw.h:56-57` (`window_unchecked_geometry`).
* `core/renderer/renderer.cpp:274`: after a resize the text is drawn with the projection of
  the first size (`text_screen_space`).
* `core/platform/filesystem_linux.cpp:49`: `directory_exists` looks for ENOENT in the return
  value of `stat`, so on Linux a first start without "log" fails
  (`logger_missing_directory`).

Met while modelling, without a run of their own:

* `core/renderer/renderer.cpp:228`: the first check of OpenGL's errors, of the debug output's
  set-up, reports what loading the functions has raised; `BlamesTheCall` says so.
* `core/renderer/renderer.cpp:245` and `core/core.cpp:98`: the first viewport and projection take
  the window's size, in screen coordinates, for the framebuffer's, in pixels. On a scaled display
  they are wrong until the first resize (`SizesSettle`).
* `core/renderer/renderer.cpp:343`: `load_font_glyphs` returns ok though it has skipped every
  glyph, and `render_text` then fails its assertion (`:397`).
* `core/core.cpp:184-185`: `rectangle_ebo` is never deleted, nor are the glyphs' textures
  (`renderer.cpp:36`); `CleanExit` says that they are what is left.
* `core/renderer/opengl/shader_program.cpp:116`: a second `compile` after a failed one
  returns ok for a program that never linked. No caller does that; `OkMeansLinked` exempts it.
* `core/platform/filesystem.cpp:22-28` and `:285-291`: the constructor of a `Path`, in a build
  without assertions, and `path_common_prefix`, in any, write behind the buffer if the text does
  not fit. `WritesFit` names them as the only ones.
* `core/platform/filesystem.cpp:220-223`: `path_clean` removes the trailing separator before it
  canonicalizes, and `C:\..` becomes `C:\`, against "Trailing slashes are removed"
  (`filesystem.h:293`). `:338` expects such paths. `CleanIsFinal` is about the others.
* `core/platform/filesystem.cpp:343`: "aa" is taken for a descendant of "a", since nothing asks for
  a separator behind the prefix (`filesystem.h:325`). `DescendantsFound` states the other
  direction.
* `core/platform/filesystem_win32.cpp:173`: `path_combine` widens `more` over `path_in` and
  combines it with a buffer nobody wrote to, against `filesystem.h:297-307`; `PathIsAnswer` is
  stated of the other functions. At `:169` it widens null pointers, which its comment allows.
* `core/platform/filesystem_win32.cpp:21-31`: of a current directory longer than its buffer
  `get_current_directory` narrows what was never written, and may return ok.
* `core/platform/unicode.h:122`: `is_ascii` is `c <= 0 && c <= 127`; with assertions on,
  `ascii_cmp`, and so `path_clean`, stops the program.
* `core/math/vector.cpp:75`: `make_unit_vector` divides by the squared length.
* `core/logging/logging.h:105`: lines of the level `RK_LOG_LEVEL` names stay, where
  `src/README.md:70` says "equals or less precedence are removed".
* `core/logging/logging.cpp:37`: the sinks get a level, the logger keeps spdlog's "info", so
  the debug lines of OpenGL (`src/README.md:75`) are dropped in every build.
* `core/logging/logging.h:249` and `:284`: the fallback log prints its head to stderr but
  the message to stdout, from a buffer that is not null-terminated.
* `core/status.cpp:19`: `unicode_error` and `buffer_length_error` have no name in the log.
* `core/platform/linux_include.h:12`: of a number with two names (11, 35 and 95) the first "takes
  precedence"; `log_last_error` writes both, the first in front (`FirstNameLeads`).
* Neither platform builds as it is: on Linux `path_normalize` is defined twice
  (`filesystem.cpp:96`, `filesystem_linux.cpp:16`) and `path_canonicalize` not at all, on
  Windows `platform.cpp:69` lacks a parenthesis, `:42` names an undeclared variable, and
  `filesystem_win32.cpp:23` and `:45` do not compile either. The models are of the code with
  these mended, and `Path` takes the `path_normalize` of `filesystem.cpp`.

## 6. What is not modelled, and why

* *Pictures, fonts, colours, matrices*: data that no control depends on. A projection is the
  size it was made for, a glyph its texture.
* *`load_image` and `Image`*: nothing uses them.
* *Shader objects, heap memory but for the icons*: nothing later depends on what leaks.
* *Linux's path functions*: the paths are modelled as on Windows, where all of them exist.
* *Conversions between UTF-8 and UTF-16, Windows' error texts, the formats of log lines*:
  external, or without a property.
* *The buffers of stdio*: what the fallback log writes counts as on the console.
* *Several displays*, with a scale of their own each: there is one.
* *Floating point*: NaN, rounding, overflow, division by zero, and with them `==` and the
  stream operators of `Vector3`. TLC has no such numbers: an operator of `Vector` whose result is
  out of bounds, or divided by zero, takes no step, and nothing is said of it.
* *Entity component system, resource manager, utilities*: stubs without a caller, and casts.
* *Threads*: the program has one.

## 7. Plan

Done: all components with control of their own; for each of them the proofs of the safety and
action properties the runs check, and the refinements that tie the parts together: the program
to the input manager, the input manager to its promise, the renderer to its frames, a window's
life to its set-up and to `Window`, the leaves to themselves.

Left, in this order:

1. *Engine over Setup*: that `WindowLife`'s set-up implements the steps of `Engine` it stands
   for, with the pending error of the geometry's calls in `Engine`. `Setup` lets every call
   of GLFW raise an invalid value, `Engine` only the icon's; the two need one rule.
2. *Paths on Linux*, once the repository has them.
