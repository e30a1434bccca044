----------------------------- MODULE EventLoop -----------------------------
(***************************************************************************)
(* One struct loop_base (src/event.h): the descriptor set of its select     *)
(* backend (src/selectLoop.c) and its queues of events.  The queues are     *)
(* kept by libiot.a, of which src/ has the declarations; what is said of    *)
(* them here is what src/ relies on.                                        *)
(*                                                                         *)
(* A loop is a record, and each function of the code that changes it is an  *)
(* operator from the loop before to the loop after.                         *)
(***************************************************************************)
EXTENDS Integers, FiniteSets, Sequences

NFDBITS == 64
\* fd_masks that n descriptors need
Masks(n) == (n + NFDBITS - 1) \div NFDBITS

\* loop_base_new and select_init
NewLoop == [event_fds |-> 0,           \* the highest descriptor
            masks     |-> Masks(33),   \* event_fdsz, in fd_masks
            readset   |-> {},          \* event_readset_in
            ioQueue   |-> << >>,       \* descriptors with an event
            active    |-> {},          \* those in activeQueues
            activeNum |-> 0,           \* activeNumqueues, an int
            sigQueue  |-> << >>]       \* names and functions of event_on, the newest first

\* the set is not resized
MutSelectAdd(l, fd) ==
  [l EXCEPT !.event_fds = IF @ < fd THEN fd ELSE @, !.readset = @ \cup {fd}]
\* A set that is too small is doubled, once
SelectAdd(l, fd) ==
  [l EXCEPT !.event_fds = IF @ < fd THEN fd ELSE @,
            !.masks     = IF l.event_fds < fd /\ @ < Masks(fd + 1) THEN 2 * @ ELSE @,
            !.readset   = @ \cup {fd}]

\* event_item_add of an event with EV_READABLE
ItemAdd(l, fd) == [SelectAdd(l, fd) EXCEPT !.ioQueue = <<fd>> \o @]

\* nfds without the + 1
MutScanned(l) == 0..(l.event_fds - 1)
\* the descriptors below nfds
Scanned(l) == 0..l.event_fds

\* a descriptor that was found ready no longer watched
MutSelected(l, ready) == l.readset \ ready
\* select writes its answer into the set it is asked about
Selected(l, ready) == {fd \in l.readset : fd \in Scanned(l) => fd \in ready}
CanSelect(l, ready) == l.readset \cap Scanned(l) \cap ready # {}

\* event_io_active for every descriptor select has left in the set
SelectDispatch(l, ready) ==
  LET found == Selected(l, ready) \cap Scanned(l)
      queued == {i \in DOMAIN l.ioQueue : l.ioQueue[i] \in found}
  IN  [l EXCEPT !.readset   = Selected(l, ready),
                !.active    = @ \cup {l.ioQueue[i] : i \in queued},
                !.activeNum = @ + Cardinality(queued)]

\* event_monitor_queues calls the callback of fd; nothing leaves activeQueues
CallsBack(l, fd) == l.activeNum > 0 /\ fd \in l.active

\* event_on puts a name at the head of the queue
EventOn(l, name, func) == [l EXCEPT !.sigQueue = <<[name |-> name, func |-> func]>> \o @]

\* the oldest entry, whatever its name
MutListeners(l, name) == {Len(l.sigQueue)}
\* event_emit calls the first function in the queue that has the name, and no other.  (It
\* compares as many characters as the registered name has; here no name begins another.)
Listeners(l, name) ==
  {i \in DOMAIN l.sigQueue : /\ l.sigQueue[i].name = name
                             /\ \A j \in 1..(i - 1) : l.sigQueue[j].name # name}
=============================================================================
