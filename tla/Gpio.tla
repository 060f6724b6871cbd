--------------------------------- MODULE Gpio ---------------------------------
(* The pins in use: GPIOManager, which exports them through /sys/class/gpio *)
(* and keeps a list of them, and GpioHandler and Io::getGpioHandler above   *)
(* it.  The kernel keeps a pin exported when the process is gone, and may   *)
(* refuse to export a pin or to take it back, which goes unnoticed: no one  *)
(* looks at the stream after the write.  Direction and value of a pin are   *)
(* left out.                                                                *)
EXTENDS Naturals, Sequences, SequencesExt

CONSTANTS
    Key,           \* the keys handlers are asked for
    PinOf,         \* getGpioByKey of each: keys not in the table have pin 0
    MaxPins        \* bound: length of the list

KeysAssumption == PinOf \in [Key -> Nat] /\ MaxPins \in Nat

Pin == {PinOf[k] : k \in Key}

VARIABLES
    exportedPins,  \* the list of the manager
    handlers,      \* the keys Io has a handler for
    cleaning,      \* the index clean() has come to, 0 outside of it
    toClean,       \* history: the list when clean() was called
    kernel,        \* the pins exported in the kernel
    refused        \* history: the pins whose last export or unexport by this
                   \* process has not come about

vars == <<exportedPins, handlers, cleaning, toClean, kernel, refused>>

Init ==
    /\ exportedPins = <<>> /\ handlers = {}
    /\ cleaning = 0 /\ toClean = <<>>
    /\ kernel \in SUBSET Pin /\ refused = {}

\* exportPin: the list gets the pin whether the kernel has it already or not,
\* and whether it takes it or not.
ExportPin(p) ==
    /\ kernel' \in {kernel, kernel \cup {p}}
    /\ refused' = IF p \in kernel' THEN refused \ {p} ELSE refused \cup {p}
    /\ exportedPins' = Append(exportedPins, p)

\* std::remove: what is kept of the list s up to each of its entries.
Kept(s, p) ==
    LET kept[i \in 0 .. Len(s)] ==
            IF i = 0 THEN <<>>
            ELSE IF s[i] = p THEN kept[i - 1] ELSE Append(kept[i - 1], s[i])
    IN  kept

\* unexportPin: the pin goes, and every entry of it in the list.
UnexportPin(p) ==
    /\ kernel' \in {kernel, kernel \ {p}}
    /\ refused' = IF p \in kernel' THEN refused \cup {p} ELSE refused \ {p}
    /\ exportedPins' = Kept(exportedPins, p)[Len(exportedPins)]

\* Io::getGpioHandler, GpioHandler::GpioHandler: a key has one handler.
GetGpioHandler(k) ==
    /\ cleaning = 0
    /\ k \notin handlers /\ Len(exportedPins) < MaxPins
    /\ handlers' = handlers \cup {k}
    /\ ExportPin(PinOf[k])
    /\ UNCHANGED <<cleaning, toClean>>

\* A user of the manager exports or gives back a pin by itself.
Export(p) ==
    /\ cleaning = 0 /\ Len(exportedPins) < MaxPins
    /\ ExportPin(p)
    /\ UNCHANGED <<handlers, cleaning, toClean>>

GiveBack(p) ==
    /\ cleaning = 0
    /\ UnexportPin(p)
    /\ UNCHANGED <<handlers, cleaning, toClean>>

-----------------------------------------------------------------------------
(* GPIOManager::clean: an index runs over the list that unexportPin makes   *)
(* shorter at every step.                                                   *)

Clean ==
    /\ cleaning = 0
    /\ cleaning' = 1 /\ toClean' = exportedPins
    /\ UNCHANGED <<exportedPins, handlers, kernel, refused>>

\* Bug: the index goes on by two.
CleanNextByTwo ==
    /\ cleaning \in 1 .. Len(exportedPins)
    /\ UnexportPin(exportedPins[cleaning])
    /\ cleaning' = cleaning + 2
    /\ UNCHANGED <<handlers, toClean>>

CleanNext ==
    /\ cleaning \in 1 .. Len(exportedPins)
    /\ UnexportPin(exportedPins[cleaning])
    /\ cleaning' = cleaning + 1
    /\ UNCHANGED <<handlers, toClean>>

CleanEnds ==
    /\ cleaning > Len(exportedPins)
    /\ cleaning' = 0 /\ toClean' = <<>>
    /\ UNCHANGED <<exportedPins, handlers, kernel, refused>>

\* The process ends and starts again: the manager is never destroyed, so the
\* kernel keeps the pins.
Restart ==
    /\ exportedPins' = <<>> /\ handlers' = {} /\ cleaning' = 0 /\ toClean' = <<>>
    /\ refused' = {}
    /\ UNCHANGED kernel

Next ==
    \/ \E k \in Key : GetGpioHandler(k)
    \/ \E p \in Pin : Export(p) \/ GiveBack(p)
    \/ Clean \/ CleanNext \/ CleanEnds \/ Restart

Spec == Init /\ [][Next]_vars

-----------------------------------------------------------------------------
TypeOK ==
    /\ exportedPins \in BoundedSeq(Pin, MaxPins)
    /\ handlers \subseteq Key
    /\ cleaning \in 0 .. Len(toClean) \div 2 + 2
    /\ toClean \in BoundedSeq(Pin, MaxPins)
    /\ kernel \subseteq Pin /\ refused \subseteq Pin

(* The list and the kernel agree about the pins of this process's handlers, *)
(* and what is listed is exported, but for a pin whose last call the kernel *)
(* refused: although a pin may be listed more than once and goes at once,   *)
(* although clean() leaves some, and whatever an earlier process left       *)
(* exported.                                                                *)
ListedIsExported ==
    \A p \in Pin \ refused :
        /\ Contains(exportedPins, p) => p \in kernel
        /\ p \in kernel /\ (\E k \in handlers : PinOf[k] = p) => Contains(exportedPins, p)

(* clean() leaves no more than half of the list, pins listed twice or not:  *)
(* its index does not run away from what unexportPin makes shorter.         *)
CleanTakesHalf ==
    cleaning > Len(exportedPins) => 2 * Len(exportedPins) <= Len(toClean)

(* The comment at gpio_manager.cpp:265: "Unexport all of already exported   *)
(* pins".  A pin that clean() has not handed to unexportPin is still listed.*)
CleanUnexportsAll ==
    cleaning > Len(exportedPins) => exportedPins = <<>>

(* What the loop of gpio_manager.cpp:269 does instead: a list without a pin *)
(* twice loses its entries 1, 3, 5, ..., and of two neighbours one stays.   *)
CleanLeavesEverySecond ==
    cleaning > Len(exportedPins) /\ IsInjective(toClean) =>
        exportedPins = [i \in 1 .. Len(toClean) \div 2 |-> toClean[2 * i]]

(* The manager's list is true but for refusals, and clean() takes half.     *)
GpioSound == TypeOK /\ ListedIsExported /\ CleanTakesHalf
=============================================================================
