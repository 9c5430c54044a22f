------------------------------ MODULE Examples ------------------------------
(***************************************************************************)
(* The programs of src/examples on the runtime.  A program is chosen, then *)
(* runs as its platform runs it: instants in which the variables due are   *)
(* updated and records run by priority, until nothing is left to wait for. *)
(* What is free is the program, its argument, its input, the limit of the  *)
(* simulation, and the order of updates in an instant: the event queue     *)
(* does not say in which order events of the same time leave it.           *)
(***************************************************************************)
EXTENDS Machine

CONSTANTS
  Arguments,  \* of fib, list and map-closure
  Limits,     \* of the simulation, in seconds; 0 for none
  Inputs      \* what may be typed to echo: sequences of [time, char]

ASSUME ExamplesAssumption ==
  /\ Second \in Nat \ {0} /\ RootDepth \in Nat \ {0}
  /\ Arguments \subseteq Nat /\ Limits \subseteq Nat

VARIABLES
  program,  \* what runs: [name, arg, limit]
  phase,    \* "running" or "exited"
  inputs,   \* what is still to be typed
  m         \* the machine

vars == <<program, phase, inputs, m>>

TheFib        == INSTANCE Fib
TheOneTwo     == INSTANCE OneTwo
TheClock      == INSTANCE Clock
TheHello      == INSTANCE Hello
TheList       == INSTANCE List
TheMapClosure == INSTANCE MapClosure
TheClosures   == INSTANCE Closures
TheCounter    == INSTANCE Counter
TheEcho       == INSTANCE Echo
TheBlink      == INSTANCE Blink

Endless == {"clock", "counter"}  \* simulations that only a limit ends

Simulations ==
  [name : {"fib", "list", "mapclosure"}, arg : Arguments, limit : Limits]
    \cup [name : {"onetwo", "hello", "closures", "unoptimized"}, arg : {0}, limit : Limits]
    \cup [name : Endless, arg : {0}, limit : Limits \ {0}]

Programs ==
  Simulations \cup [name : {"blink"}, arg : {0}, limit : {0}]
              \cup [name : {"echo"}, arg : Inputs, limit : {0}]

ProgramInit(p) ==
  CASE p.name = "fib"        -> TheFib!ProgramInit(p.arg)
    [] p.name = "list"       -> TheList!ProgramInit(p.arg)
    [] p.name = "mapclosure" -> TheMapClosure!ProgramInit(p.arg)
    [] p.name = "onetwo"     -> TheOneTwo!ProgramInit
    [] p.name = "hello"      -> TheHello!ProgramInit
    [] p.name = "clock"      -> TheClock!ProgramInit
    [] p.name = "counter"    -> TheCounter!ProgramInit
    [] p.name = "blink"      -> TheBlink!ProgramInit
    [] p.name = "echo"       -> TheEcho!ProgramInit
    [] p.name \in {"closures", "unoptimized"} -> TheClosures!ProgramInit

ProgramStep(p, n, a) ==
  CASE p.name = "fib"         -> TheFib!Step(n, a)
    [] p.name = "list"        -> TheList!Step(n, a)
    [] p.name = "mapclosure"  -> TheMapClosure!Step(n, a)
    [] p.name = "onetwo"      -> TheOneTwo!Step(n, a)
    [] p.name = "hello"       -> TheHello!Step(n, a)
    [] p.name = "clock"       -> TheClock!Step(n, a)
    [] p.name = "counter"     -> TheCounter!Step(n, a)
    [] p.name = "blink"       -> TheBlink!Step(n, a)
    [] p.name = "echo"        -> TheEcho!Step(n, a)
    [] p.name = "closures"    -> TheClosures!Step(n, a, TRUE)
    [] p.name = "unoptimized" -> TheClosures!Step(n, a, FALSE)

\* Programs that are not named here do nothing at their end.
ProgramExit(p, n) ==
  CASE p.name = "fib"        -> TheFib!ProgramExit(n)
    [] p.name = "list"       -> TheList!ProgramExit(n)
    [] p.name = "mapclosure" -> TheMapClosure!ProgramExit(n)
    [] p.name = "echo"       -> TheEcho!ProgramExit(n)
    [] p.name \in {"closures", "unoptimized"} -> TheClosures!ProgramExit(n)
    [] OTHER -> n

Init ==
  /\ program \in Programs
  /\ phase = "running"
  /\ inputs = IF program.name = "echo" THEN program.arg ELSE <<>>
  /\ m = ProgramInit(program)

\* Whatever a program does after a fault is not looked at.
Running  == phase = "running" /\ ~m.fault
Runnable == m.call # Top \/ m.queue # {}
Idle     == Running /\ Due(m) = {} /\ ~Runnable
Limit    == IF program.limit = 0 THEN Never ELSE program.limit * Second

\* The update loop of ssm_tick.
UpdateOne ==
  /\ Running
  /\ \E var \in Due(m) : m' = UpdateDue(m, var)
  /\ UNCHANGED <<program, phase, inputs>>

\* A turn of its run loop, or the parent's call that the last turn ended with.
RunOne ==
  /\ Running /\ Due(m) = {}
  /\ \/ m.call # Top /\ m' = ProgramStep(program, [m EXCEPT !.call = Top], m.call)
     \/ /\ m.call = Top /\ m.queue # {}
        /\ LET a == NextToRun(m)
           IN m' = ProgramStep(program, [m EXCEPT !.queue = @ \ {a}], a)
  /\ UNCHANGED <<program, phase, inputs>>

\* The platform's loop: the next event's time comes.
NextInstant ==
  /\ Idle /\ EventTimes(m) # {} /\ m.now < Limit
  /\ inputs # <<>> => Min(EventTimes(m)) < Head(inputs).time
  /\ m' = Advance(m)
  /\ UNCHANGED <<program, phase, inputs>>

\* POSIX: an input that comes before the next event.
ConsumeInput ==
  /\ Idle /\ inputs # <<>>
  /\ \A t \in EventTimes(m) : Head(inputs).time <= t
  /\ m' = TheEcho!Input(m, Head(inputs).time, Head(inputs).char)
  /\ inputs' = Tail(inputs)
  /\ UNCHANGED <<program, phase>>

\* Nothing is scheduled, or the simulation's time is up.  The POSIX loop ends
\* even if more would be typed.
Exit ==
  /\ Idle /\ (EventTimes(m) = {} \/ m.now >= Limit)
  /\ phase' = "exited"
  /\ m' = ProgramExit(program, m)
  /\ UNCHANGED <<program, inputs>>

Exited     == phase = "exited"
Terminated == Exited /\ UNCHANGED vars

Next == UpdateOne \/ RunOne \/ NextInstant \/ ConsumeInput \/ Exit \/ Terminated

Spec == Init /\ [][Next]_vars

-----------------------------------------------------------------------------
(* What the programs should do, in terms of numbers.                       *)

\* A program ended because it was done, not by the limit.
Done == Exited /\ m.now < Limit

FibOf[n \in Nat] == IF n < 2 THEN 1 ELSE FibOf[n - 1] + FibOf[n - 2]

\* A list of 1..n, then that list with d added to each.
ListsOf(n, d) ==
  [i \in 1..n |-> i] \o <<TheList!Brackets>> \o [i \in 1..n |-> i + d] \o <<TheList!Brackets>>

\* What the flip-flops hold after j rising edges, and what is between them.
Q2(j) == j
D2(j) == j + 1
Q1(j) == (j * (j + 1)) \div 2
D1(j) == Q1(j) + D2(j)

\* What the counter's routines print when the clock has changed k times: they
\* print what they find, before the edge has had its effect.
CounterPrints(k) ==
  LET j == k \div 2
  IN IF k = 0 THEN <<<<"clk", 0>>, <<"q1 d1", 0, 0>>, <<"q2 d2", 0, 0>>>>
     ELSE <<<<"clk", k % 2>>, <<"q1 d1", Q1(j), D1(j)>>, <<"q2 d2", Q2(j), D2(j)>>>>

\* Which inputs echo takes, and what it writes for them.
EchoOf(typed) ==
  LET busy == Second \div 2 + Second \div 1000
      Hears(taken, input) ==
        IF taken = <<>> \/ input.time > Last(taken).time + busy
        THEN Append(taken, input) ELSE taken
      heard == FoldLeft(Hears, <<>>, typed)
  IN FlattenSeq([i \in 1..Len(heard) |->
       <<TheEcho!Upper(heard[i].char), TheEcho!LineFeed>>])

\* What the program has printed when it is done, and when that is.
Result(p) ==
  CASE p.name = "fib"        -> [out |-> <<FibOf[p.arg]>>, now |-> Max({1, p.arg}) * Second]
    [] p.name = "list"       -> [out |-> ListsOf(p.arg, 1), now |-> 0]
    [] p.name = "mapclosure" -> [out |-> ListsOf(p.arg, TheMapClosure!Offset), now |-> 0]
    [] p.name = "onetwo"     -> [out |-> <<(10 + 1) * 2>>, now |-> TheOneTwo!Delay]
    [] p.name = "hello"      -> [out |-> Front(TheHello!Message),
                                 now |-> Len(TheHello!Message) * TheHello!CharDelay]
    \* display writes two characters, one after the other, when blink is done.
    [] p.name = "blink"      -> [out |-> [i \in 1..2 * TheBlink!Blinks |-> i % 2],
                                 now |-> 2 * TheBlink!Blinks * TheBlink!Ms50 * 1000000 + 2]
    [] p.name \in {"closures", "unoptimized"} -> [out |-> <<58>>, now |-> 0]

-----------------------------------------------------------------------------
(* Properties.                                                             *)

\* The machine is one: a queue of live records, each with a live caller.
TypeOK ==
  /\ phase \in {"running", "exited"}
  /\ m.queue \subseteq DOMAIN m.act
  /\ m.call \in DOMAIN m.act \cup {Top}
  /\ \A a \in DOMAIN m.act : m.act[a].caller \in DOMAIN m.act \cup {Top}

\* Ownership as the programs practise it is enough: no program uses or drops
\* an object that is gone, or throws.
NothingGoneIsUsed == ~m.fault

\* Every program that ends by itself has the result that its comment or its
\* arithmetic says, at the logical time it should, in whatever order the
\* updates of an instant are made; and the clock, which does not end, has counted
\* every second and none twice.
RightResults ==
  /\ Done /\ program.name \notin Endless \cup {"echo"}
       => [out |-> m.out, now |-> m.now] = Result(program)
  /\ program.name = "clock" /\ Idle => m.out = [i \in 1..m.now \div Second |-> i]

\* Echo writes a prefix of what it should, and all of it if it has seen all
\* that is typed: a character that comes while it is busy is missed, up to and
\* including the instant in which it gets ready again.
EchoesWhatItHears ==
  program.name = "echo" =>
    /\ IsPrefix(m.out, EchoOf(program.arg))
    /\ Exited /\ inputs = <<>> => m.out = EchoOf(program.arg)

\* Between instants the circuit is settled, and its flip-flops have taken what
\* was before the edge: each printed line is what synchronous logic gives.
CircuitSettles ==
  program.name = "counter" /\ Idle =>
    LET edges == m.now \div (2 * Second)
    IN /\ m.out = FlattenSeq([k \in 1..edges + 1 |-> CounterPrints(k - 1)])
       /\ LET main == CHOOSE a \in DOMAIN m.act : m.act[a].step = "main"
              Number(var) == Unmarshal(Deref(m, Local(m, main)[var]))
          IN /\ Number("d2") = Number("q2") + 1
             /\ Number("d1") = Number("q1") + Number("d2")

\* What is left allocated by a program that is done: nothing, but for hello,
\* whose main does not drop its variable.
NothingLeft ==
  Done /\ program.name \notin {"echo", "blink"} =>
    /\ Cardinality(Allocated(m)) = IF program.name = "hello" THEN 1 ELSE 0
    /\ DOMAIN m.act = {}
=============================================================================
