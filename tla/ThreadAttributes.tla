--------------------------- MODULE ThreadAttributes ---------------------------
(***************************************************************************)
(* Priority, affinity and stack size of the threads of source/thread.cpp:  *)
(* what the guest asks for and is told again, and what the host is given.  *)
(* A thread runs from its creation on, and any running thread creates      *)
(* others; the main thread runs at the priority of the process.            *)
(***************************************************************************)
EXTENDS Integers

CONSTANTS
  Thread,     \* the OSThreads of the guest
  Main,       \* the main thread, which the guest did not create
  Priorities, \* what it asks for: 0 is the most urgent and 31 the least
  Cores,      \* the bits of an affinity mask
  StackSizes,
  ProcessPriority, Lowest, \* 0x2C and 0x3F, in the host's numbers
  MinHostStack, PageSize

VARIABLES given,     \* given[t]: what threadCreate was given for t: priority, core and stack
          asked,     \* asked[t]: the priority that was asked of OSCreateThread, and by whom
          recorded   \* cafePriority and cafeAffinity, which the getters answer

attributeVars == <<given, asked, recorded>>

NotCreated == [priority |-> ProcessPriority, core |-> -2, stack |-> 0]

Init ==
  /\ given = [t \in {Main} |-> NotCreated] /\ asked = <<>>
  /\ recorded = [t \in Thread |-> [priority |-> 16, affinity |-> Cores]]

Clamped(p) == IF p < 0 THEN 0 ELSE IF p > 31 THEN 31 ELSE p

\* The window ends at the lowest priority, and begins at that of the calling thread.
MapPriority(creator, p) ==
  LET own == given[creator].priority
  IN own + (Clamped(p) * (Lowest - own)) \div 31

\* One core for a mask: the first of its bits, or the default for none and for all.
MapAffinity(mask) ==
  IF mask \in {{}, Cores} THEN -2 ELSE CHOOSE c \in mask : \A d \in mask : c <= d

HostStackSize(size) ==
  LET least == IF size < MinHostStack THEN MinHostStack ELSE size
  IN ((least + PageSize - 1) \div PageSize) * PageSize

\* threadCreate may refuse the core, and then the default core too.
CreateThread(creator, t, p, mask, size) ==
  /\ creator \in DOMAIN given /\ t \in Thread \ DOMAIN given
  /\ recorded' = [recorded EXCEPT ![t] = [priority |-> p, affinity |-> mask]]
  /\ \/ /\ \E core \in {MapAffinity(mask), -2} :
             given' = [u \in DOMAIN given \cup {t} |->
                         IF u # t THEN given[u]
                         ELSE [priority |-> MapPriority(creator, p), core |-> core,
                               stack |-> HostStackSize(size)]]
        /\ asked' = [u \in DOMAIN asked \cup {t} |->
                       IF u # t THEN asked[u] ELSE [priority |-> Clamped(p), by |-> creator]]
     \/ UNCHANGED <<given, asked>>

\* The setters record what the guest asks for and apply none of it.
SetPriority(t, p) ==
  recorded' = [recorded EXCEPT ![t].priority = p] /\ UNCHANGED <<given, asked>>

SetAffinity(t, mask) ==
  recorded' = [recorded EXCEPT ![t].affinity = mask] /\ UNCHANGED <<given, asked>>

Next == \E t \in Thread :
  \/ \E creator \in Thread \cup {Main}, p \in Priorities, mask \in SUBSET Cores, size \in StackSizes :
       CreateThread(creator, t, p, mask, size)
  \/ \E p \in Priorities : SetPriority(t, p)
  \/ \E mask \in SUBSET Cores : SetAffinity(t, mask)

Spec == Init /\ [][Next]_attributeVars
-------------------------------------------------------------------------------
\* README.md:134: "Relative ordering is preserved".  Of two threads that the guest
\* created, the host never runs the one for which the more urgent priority was asked at
\* the less urgent one, whichever threads created them.
RelativeOrderKept ==
  \A t, u \in DOMAIN asked :
    asked[t].priority < asked[u].priority => given[t].priority <= given[u].priority

\* README.md:134 where it holds: of two threads, the one for which the more urgent priority
\* was asked, by a thread that is not less urgent itself, never runs at the less urgent one.
\* So the threads that one thread creates keep their order.
OrderedAsCreators ==
  \A t, u \in DOMAIN asked :
    /\ asked[t].priority <= asked[u].priority
    /\ given[asked[t].by].priority <= given[asked[u].by].priority
    => given[t].priority <= given[u].priority

\* thread.cpp:66: no thread is more urgent than the one that created it, nor less urgent
\* than the host's lowest priority.  mapPriority's span is thus never negative.
InCreatorsWindow ==
  \A t \in DOMAIN asked :
    given[asked[t].by].priority <= given[t].priority /\ given[t].priority <= Lowest
==============================================================================
