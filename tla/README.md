# CS_OS in TLA+

This directory is a verification development of the repository `CS_OS`, the programs of an
operating systems course: twelve laboratories (`lab0` to `lab11`) and the exam exercises under
`kolos`. The programs are small and share no code; what makes them hard is what the course is
about: threads, processes, signals, locks, queues and sockets.

The modules are TLA+ specifications translated from the C sources; TLC checks them on small
instances and TLAPS proves the theorems for every value of the constants.

## 1. Inventory

| part | state | operations | interaction | what is hard |
|---|---|---|---|---|
| `lab9` hospital: `queue.c`, `doctor.c`, `patient.c`, `pharmacist.c`, `clinic.c`, `main.c` | ring buffer of patients; medicine count and status; status of the doctor and of every patient; three mutexes, one condition variable | a thread each for the doctor, the patients and the pharmacists; `main` starts, joins and ends them | shared memory; the condition variable is used with two mutexes | lock order, lost and stolen signals, statuses written by two threads, unlocked reads, shutdown |
| `lab11` UDP chat (`server.c`, `client.c`, `common.c`) | table of 255 client slots, inactivity counters | implicit registration, LIST, 2ALL, 2ONE, STOP, keepalive, shutdown by signal | datagrams; a receive loop and a keepalive thread under `clients_mutex` | the one socket shared by all slots, lost datagrams, timeouts, work in a signal handler |
| `lab10` TCP chat (`server.c`, `client.c`, `common.c`) | the same table, a thread for each slot | accept, register, relay, remove, ping, cleanup | stream sockets, a thread per client | slots and descriptors reused while somebody still holds them, join under a mutex |
| `lab7` printers (POSIX and System V) | print queue in shared memory, semaphores | clients put jobs, printers take them | processes over shared memory | missing mutual exclusion, limits of the queue |
| `lab6` message queues (POSIX and System V) | server's table of client queues | registration, broadcast | message queues | order of messages, dead clients |
| `lab8` game of life | two grids, worker threads | each worker updates its cells, then pauses; `main` swaps and signals | `pthread_kill`, `pause` | a signal that comes before `pause` is lost |
| `lab5` FIFOs, `lab4` signals, `lab3` fork and exec | pipes; a request counter; none | request and answer | processes | lost wakeups, blocking opens |
| `lab2` files, `lab1` collatz, `lab0` countdown | none | sequential | none | nothing concurrent |
| `kolos` bounded buffers (`kwolos/kw/zad3`, `kwolos/gw/zad1`, `test_2/*/task_2`) | buffer, indices, semaphores, mutex | produce, consume | threads, processes | buffer limits, order |
| `kolos` semaphores between processes (`kwolos/bi/zad2`, `test_2/g_02/task_1`, `test_2/second/5/task_1`) | semaphores, a file | parent and children take turns | processes | initial values, pseudo-locks |
| `kolos` shared memory, messages, sockets, pipes, signals, threads | a segment, a queue, a connection, counters | write, read, ping, pong | processes | order of start |

What makes each part correct, in the order of the plan:

* **hospital**: memory stays inside the queue and the array of a round; nobody is booked twice
  or leaves uncounted; medicine that was checked is there when it is used; treatments end;
  the program can be shut down; which deadlocks exist and which do not.
* **chat servers**: the count of clients is the number of occupied slots; identifiers are
  unique; a removed client's slot is not used by whoever still holds a pointer to it; a live
  client that answers is not removed; shutdown ends every thread.
* **queues and buffers**: nothing is lost, duplicated or reordered; limits hold.
* **semaphore and signal exercises**: turns alternate as the code intends, no wakeup is lost.

## 2. Plan

1. *(done)* `PatientQueue` with its abstract `WaitingRoom`; `Hospital`; proofs of the invariants, the refinement and the
   action properties of both.
2. *(done)* `SemaphoreBuffer` (`kwolos/kw/zad3`) implementing the abstract `BoundedFifo`, its
   inductive invariant over the semaphores and the refinement proved; `CondRingBuffer`
   (`test_2/*/task_2`) and `CondStack` (`kwolos/gw/zad1`) with condition variables.
3. *(done)* the chats: `Datagrams`, `UdpChatServer`, `UdpChatClient` and their composition `UdpChat`
   (`lab11`); `TcpChatServer` and `TcpChatClient` (`lab10`).
4. *(done for POSIX)* `PrintRing` and `PrintQueuePosix` (`lab7`).
5. *(done)* Proofs: the invariants of `CondRingBuffer` and its refinement of `BoundedFifo`; those of
   `CondStack`; the table invariants and the action properties of the two chat servers, for any number
   of clients and slots, where they can get stuck, and the UDP server together with its clients; the print queue, for any
   ring and any number of processes; the patient queue as the hospital uses it.
6. Later: the System V programs of `lab7`, `lab6` message queues, `lab8` workers, `lab4` and
   `lab5`, the turn-taking exercises of `kolos`.

Abstract specifications: a waiting room (`WaitingRoom`) and a FIFO channel of bounded length
(`BoundedFifo`). No module declares a RECURSIVE operator, so that every one can be proved about.

## 3. The hospital (lab9)

### Modules

* `PatientQueue` is `queue.c`: `head`, `tail` and `queue_array`, one action per function of
  `queue.h`. The macro `QUEUE_SIZE` is `CLINIC_QUEUE_SIZE + 1` without parentheses, so the
  operators use what the compiler sees: `x % QUEUE_SIZE` is `(x % CLINIC_QUEUE_SIZE) + 1`.
  `queue_count` is 2, 1, 3 for 0, 1, 2 waiting patients, and the wake-up threshold
  `queue_count == CLINIC_QUEUE_SIZE` is a full queue by a coincidence that `FullIsCounted` states.
  `head` is 0 until the first pop, and until then the queue is never full.
* `WaitingRoom` is the abstract specification: a FIFO of `Cycle - 1` places once somebody has
  been served, and before that a room that forgets everybody but its head when it wraps around.
  `PatientQueue!Room` instantiates it with `room <- Waiting, opened <- head # 0`.
* `Hospital` extends `PatientQueue` with the threads. Each thread has a program counter, and an action
  runs from one access to shared state to the next:

| variables | code |
|---|---|
| `medicine_count`, `medicine_status`, `waiting_pharmacists`, `all_patients_done`, `patients_treated` | `struct Clinic` (clinic.h:8). `clinic_init` does not assign `medicine_status`: any value initially |
| `doctor_status`, `patient_status`, `visit_attempts` | `struct Doctor`, `struct Patient` |
| `doctor_mutex`, `medicine_mutex`, `queue_mutex` | owner of a mutex kept over several actions, else `NULL` |
| `condition` | the threads waiting on `doctor->condition` |
| `med_count`, `pharm_waiting`, `patients_to_treat`, `smashed` | locals of the doctor; `smashed` is a write behind the array |
| `dismissed` | the `patient` of `doctor_handle_patient` between `status = GONE` (doctor.c:62) and `patients_treated++` (doctor.c:63), else `NULL` |
| `counted`, `late` | history, kept by `Remember` and read by no action: who has been counted since he was last admitted, and how many were admitted since the count that began the round |

  A critical section that cannot block is one action, enabled while its mutex is free. Reads
  without a lock (`patient.c:118`, `doctor.c:139`, the polling of statuses) are actions of their own.
  The mutexes are of the kind `PTHREAD_MUTEX_ERRORCHECK` (`get_attr`, common.c:7): a thread that locks its own mutex
  again, or unlocks another's, gets an error. No thread of the program does either, so a lock waits for its owner
  as a plain one does, without a timeout, and a circular wait of two threads goes unnoticed.
* `HospitalProperties` states the properties, `MCHospital` instantiates them, `HospitalProofs` and
  `PatientQueueProofs` prove.
* Definitions under "Seeded faults" are wrong variants of actions. No specification uses them; they
  serve to show that a property fails when the code is wrong.

### Runs

| run | instance | what it shows |
|---|---|---|
| `queue_odd` | size 3, three patients | indices in bounds, what the count means, refinement of the waiting room. Size 3 is the clinic's |
| `hospital_locks` | 2 patients, 2 pharmacists, 1 retry, spurious wakeups | medicine (with the types), the only deadlock, starvation. Two pharmacists are needed to wait behind each other and steal signals; two patients to fill the room |
| `hospital_room` | 4 patients, no pharmacist in time | 4 is the least number that wraps the queue around; the cabinet is good for two rounds, in which patients are refused, treated, counted and forgotten, and in which two latecomers join two patients in the array for three. The constraint `StatusUnread` keeps one of the two initial values of `medicine_status`, which nobody reads without pharmacists |
| `hospital_shutdown` | 2 patients, 1 pharmacist, fairness | treatments end, main returns or is caught in the lock inversion |

Bounds: `MAX_VISIT_RETRIES` is 16 in the code and 0 or 1 here (a retry repeats the same loop);
`patients_treated` and `waiting_pharmacists` saturate at `TREATED_CAP` and `WAITING_CAP` (the second
is only compared with 0, the first only counts). No run checks for deadlock in TLC's sense: the
program may stop (main returned) and it may really deadlock, which is what `OnlyOneDeadlock` and
`ShutdownCompletes` describe.

What the runs say of the code: the queue is memory safe in spite of its modulus
(`QueueTypeOK`); a patient can be forgotten in exactly two ways, by the queue wrapping around
before the first pop, or by `status = QUEUE` written over the doctor's `GONE` (`LostInTwoWays`); a
doctor woken with an empty cabinet before a pharmacist has come starves the hospital
(`StarvingForever`); the lock inversion of `doctor.c:115` and `pharmacist.c:87` is the only circular
wait (`OnlyOneDeadlock`), and with it out of the way main always ends the program
(`ShutdownCompletes`); the array of a round is overrun in the default configuration, but
only after two patients have entered since the count that began the round (`OverrunByLatecomers`); and a patient
may have left before he is counted, though never for good (`EveryoneAccountedFor`).

### Fairness

`Fairness` is weak fairness of each thread: a thread that can go on does. Weak fairness of a
mutex's waiter is all a pthread mutex with a fair scheduler gives; nothing assumes that a thread
waiting for a mutex that is repeatedly taken gets it. `SpuriousWakeup` is never fair.

### Proofs

`PatientQueueProofs`, for every `CLINIC_QUEUE_SIZE >= 1`: `IndicesInBounds`, `WakingCountIsFull`, `CountIsOfWaiting`
and `QueueImplementsWaitingRoom`. `Waiting` follows the indices that `IndexAfter`, a recursive function, computes one
after the other. `At(h, k)` is a closed form of it, `(h - 1 + 2k) % CLINIC_QUEUE_SIZE + 1` from the first `Advance` on;
that `IndexAfter` is `At` is proved by a least counterexample (`LeastNumber`), for which the library's well-founded orders
are needed, since the induction theorems cannot be used. `AtDistinct` and `AtCycle` say when an index comes back to a
slot: after `IndexCycle` steps and not before, unless it started at 0. The inductive invariant `QueueInv` says that
`tail` is `At(head, k)` for some `k` below the point where the room is full, and that the slots passed hold
patients. From it follow the length and the elements of `Waiting` (`InvWaiting`), and what an addition (`AddStep`) and
a pop (`PopStep`) do to it, which is the refinement step by step: an addition appends, or wraps a room
around that nobody was popped from; a pop takes the head.

`HospitalProofs`, for any pharmacists and any finite set of patients, any cabinet and queue, under
`HospitalAssumption` (the constants are numbers, a full cabinet suffices for a round, there are finitely many patients,
the threads are distinct). There are two inductive invariants. `HospitalInv` is about the locks: `LockOwners` ties each
mutex to the program counters, and gives `OnlyOneDeadlock` by following the chain of owners to the doctor.
`ReadingsHold` says that what the doctor has read of the medicine is still true when he decides, since only he
changes it; it carries `CabinetOK`, which is `MedicineInCabinet` without the types, over the unlocked stretch and `StarvingForever`.
`TreatingSomebody` keeps the array non-empty during a treatment. There is a lemma for every
kind of thread, and `OthersLeave` sums up what all threads but the doctor leave alone.

`RoomInv` is about the patients and is inductive together with `HospitalInv`:

* `BookedOnce`: queue and array hold nobody twice. Only a patient who is not booked enters: who has a booking and is
  at the door has the status `TREATMENT` (`PatientOK`), his treatment is then going on (`TreatmentIsByDoctor`), and the
  doctor holds `queue->mutex` (`LockOwners`), so that he cannot get in before it has ended (`NotBooked`);
* `RoundOK`: the array is filled in a round only, and a drain that began with the count of a full queue has taken
  somebody or still finds somebody, as nobody else pops. That count stands for at most `CLINIC_QUEUE_SIZE - 1` patients
  (`WokenByFull`), so that the array and the room together exceed them by no more than the latecomers (`RoundKept`
  for the other threads' steps), which gives `OverrunByLatecomers`;
* `PatientOK`: what a patient's program counter says about his status and his booking. Whoever leaves has the
  status `GONE`;
* `TreatmentsCounted`: a patient who is `GONE` has been counted since his admission, is the one the doctor has
  dismissed and counts next, or has given up (`Accounted`). An admission takes him out of `counted`, but then he is not
  yet dismissed again: his `GONE` is old, and he writes `QUEUE` over it. The counter follows `counted` (`CounterCovers`).

The two modules are composed: whatever the threads do, all that happens to the queue is that patients are added and popped
(`QueueIsAddedToAndPopped`), so that `PatientQueueProofs` applies to the queue in the hospital. `QueueKeepsItsPromises`
states what follows, and `FifoOnceServed`, from the invariant of the queue alone, that from the first patient popped on
nobody who waits is lost or overtaken.

`RoundsAreForPatients`, `TwoWaysToGetLost` and `OverrunTakesTwoLatecomers` are proved for `CLINIC_QUEUE_SIZE > 2`; the code has 3. In a clinic with one
or two places the first two are false: an empty queue has the same `queue_count` as a full one (2 of 2, 1 of 1), so that the
doctor begins rounds for nobody, and `tail` no longer moves when a patient is forgotten.

Only model-checked: liveness (`TreatmentEnds`, `ShutdownCompletes`).

### Not modelled

Memory layout (the heap blocks of `main.c:34` and `main.c:40` are too small; a write behind
`patients_to_treat` is recorded as `smashed` and may abort the process when the doctor returns);
failing `malloc` and `pthread_create`; what happens to pharmacists still running when `clinic_destroy`
frees what they use; the four functions of `clinic.c` that nobody calls; printing and sleep times.

## 4. The bounded buffers (kolos)

### Modules

* `BoundedFifo` is what a bounded buffer promises: a channel of at most `Capacity` items from which every
  item is taken once, in the order in which it was put. It has variables of its own and knows
  nothing of slots, semaphores or threads' program counters.
* `SemaphoreBuffer` is `kwolos/kw/zad3/main.c`: five producers and five consumers, `empty` and `full` as
  semaphores, a ring under a mutex. The critical sections cannot block, so each is one action;
  waiting for a semaphore, the critical section and posting are three. An item `10 * id + i` is the
  pair `<<id, i>>`. `Contents`, `Sent` and `item` map it to `BoundedFifo`: the channel is the slots from
  `out` onwards, as many as are posted as full, or filled by a producer that has not posted, or
  claimed by a consumer that has not removed its item.
* `CondRingBuffer` is `test_2/g_02/task_2/main.c` (`second/5/task_2` is a copy): one producer, one consumer, a
  mutex and two condition variables. Everything shared is under the mutex, which is free only
  between rounds and in `pthread_cond_wait`; so an action runs from one acquisition to the next
  release. `exit(1)` on overflow or underflow is no action, since a passing model would never
  take it: `NeverExits`, a conjunct of `CountersAgree`, says that its condition is false whenever a
  thread may get to it.
* `CondStack` is `kwolos/gw/zad1/main.c` with the functions of `checks.h` that grade it: which mutex
  and which condition variables the threads use, what was processed, and the lines printed as
  a set of results.

### Runs

| run | instance | what it shows |
|---|---|---|
| `semaphore_buffer` | 3 producers, 3 consumers, 2 items each, 2 slots | `SlotsConserved` (with the types), refinement of `BoundedFifo`, termination. Three threads of a kind are more than there are slots, so that they wait for the semaphores, overtake each other between the semaphore and the mutex, and post in another order than they filled |
| `cond_ring_buffer` | 3 slots, 20 items, as in the code | no overflow or underflow, nobody waits without a reason, indices and counter agree, refinement of `BoundedFifo`, termination |
| `cond_stack` | 4 places, 12 values | every value is processed once, every check prints PASS, main returns. With the code's 10 and 20 the contents of the stack have too many forms to enumerate; the smaller instance fills and empties the stack several times |

These runs check for deadlock: the only state without a further step is the end of `main`, where
`Terminated` stutters. Spurious wakeups are steps of both models with condition variables.

### Fairness

Weak fairness of every thread: it goes on if it is not blocked. In `SemaphoreBuffer` that is no promise to
a thread that waits for a semaphore others keep taking; it comes to its end nevertheless, since the
others have a bounded number of rounds. Spurious wakeups are never fair, so that termination
does not rest on them.

### Proofs

`SemaphoreBufferProofs`, for any finite sets of producers and consumers, any number of items
and any size of the buffer: `BufferTypes`, `SlotsAreConserved` and `BufferImplementsFifo`. The inductive
invariant `Inv`, which is `SlotsConserved`, is `TypeOK` with `Conserved`: types alone do not bound the buffer, since a producer
writes without looking whether there is room. `CountMoves` and `CountStays` say what a step of one
thread does to the numbers of threads at each place; with them `SlotsConserved` is arithmetic. For
the refinement, an insertion appends to `Contents`, which has room for it by `Conserved`
(the inserting producer holds a place that is not occupied), a removal takes its head, and a semaphore
call changes neither: the thread moves between two terms of the sum.

`CondRingBufferProofs`, for any size of the buffer and any number of items: `CountersAlwaysAgree`, `NoLostWakeup`
and `RingImplementsFifo`. The inductive invariant `Inv` adds to the two invariants that a thread is done
exactly after its last round (`RoundsCounted`) and `num \in 0 .. BUF_SIZE`, the bounds that `NeverExits` rests on. The
indices are remainders of the rounds (`Division`, `DivisionUnique`, `ModTwice`), since the provers do not divide by
an unknown number.

`CondStackProofs`, for any size of the stack and any even number of values: `SumAlwaysConserved` and `NoCheckFails`.
The sum of the buffer is a fold of the library and so a recursive function; that the function exists, and
what it gives for one more element (`SumOfAppend`, `SumOfFront`), is proved by a least counterexample: a non-empty set
of numbers has a least element (`LeastNumber`), which the library's well-founded orders give. The
inductive invariant `Inv` counts the values (`ValuesCounted`) and the rounds, which give the checks after the join, and
`CondToBeSeen` says that the condition seen first is never the one a thread has still to show, which gives
the check that the two differ.

Only model-checked: termination (`AllDone`, `AllGraded`).

## 5. The UDP chat (lab11)

### Modules

* `Datagrams` is the network: a set of datagrams. With `Lossy` any of them may be lost, delivered
  in any order, and delivered again. A message keeps its type, sender and recipient.
* `UdpChatServer` is `server.c`: `main` in its receive loop, `keepalive_monitor`, and `server_stop` on
  either thread, since it runs in a signal handler. `UdpServerAlone` puts it into an environment that
  sends any message of the protocol, and states its properties.
* `UdpChatClient` is `client.c`: `main` at its prompt, the receiving thread, and the signal handler on
  either of them.
* `UdpChat` composes the server with clients.

| variables | code |
|---|---|
| `clients`, `client_count` | `struct Server` and its slots (server.h:8). `last_seen` is kept as its distance from now, up to the first that keepalive tells from the interval |
| `server_socket`, `opened` | the number of the one socket, and whether it is open. `add_client_udp` copies the number to each slot, so `remove_client` closes it |
| `clients_mutex`, `state_mutex` | the thread that has the mutex |
| `msg` | `received_msg` of `main` |
| `handler`, `stopping` | the interrupted thread, and where `server_stop` has come to in it |
| `slept` | the seconds keepalive has slept; `Tick` is a second |
| `at`, `todo`, `interrupted` | where both threads of a client are, the command in hand, the thread the handler runs on |

`main` is cut where it takes and frees the mutex, since a signal in between is what matters; the
handlers that send after the mutex was freed (`handle_list_request_udp`) are two steps. `signal` is
that of System V, which `-std=c17` and the feature macros select: a handler runs once and a
blocking call returns `EINTR`. What a `recvfrom` that has begun does when its descriptor is closed is
what Linux does: it goes on with the socket. A second passes only when keepalive is not between
`time(NULL)` and its scan.

### Runs

| run | instance | what it shows |
|---|---|---|
| `udp_server` | 2 slots, 3 identifiers of which one is invalid, lossy network with one datagram under way, all types of messages, a signal on either thread | `OneSlotEach`: the table stays consistent between the two threads. `LeavingDeafens`: whoever leaves takes the server's socket with him, and nothing is sent or received any more; the same holds of `server_stop`, which therefore tells nobody. `StuckInKnownWays`: after a signal some thread can go on, or keepalive's sleep ends, until `main` has returned, unless the signal hit the thread that has the mutex, or left `main` in `recvfrom`. |
| `udp_chat` | the server, one client, signals on either of its threads, a network that is quick and loses nothing | `EofIsNoticed`: a client that ends without STOP is found out by keepalive. `QuitterMayHang`: one that quits exits, or waits in `pthread_join` for a thread that waits for a datagram from a server that its own STOP made deaf, or has its signal handler wait for a mutex of the interrupted thread; each of these happens |

Two slots are enough for one client to be removed while another is behind it in the same scan,
three identifiers for two clients and somebody whose name is refused. A valid name at a
full server would take a third one, which is too much for TLC; the proofs are for any number. One datagram under way, lost and duplicated at
will, lets any sequence of messages reach the server. Intervals and counts are the smallest with
more than one inactive round (`MAX_INACTIVE_COUNT` 2; 3 in the code). In `udp_chat` one client suffices, as its
own STOP is what closes the socket; of its commands it enters `quit`, the end of input, `2one` and `help`:
`list` is what it sends to register, and `2all` reaches nobody else. That the network loses nothing is assumed by
`MCUdpChat` (`Reliable`), not by the proofs.

### Proofs

`UdpServerProofs`, for any number of slots, addresses, names and datagrams under way, lossy network or not:
`EachClientHasOneSlot`, `WhoLeavesDeafensTheServer` and `ServerStopsOrIsStuck`. What is assumed is that the server's address is no client's
(`DatagramsAssumption`), that there is a slot and at least one inactive round, and that `NULL` is no thread (`ServerAssumption`). The inductive
invariant `Inv` adds to `OneSlotEach` that `main` holds a message of a client while it works on one (`MessageInHand`),
that everybody in the table has an address (`Addressed`), and `OneSocket`: as long as the socket is open the server and
all slots hold its number. It is what `LeavingDeafens` follows from: a removal closes the number it finds in the slot, and that is everybody's.
The first free slot of `add_client_udp` is a least element (`LeastElement`).

Together with `Inv`, `StopOK` is inductive: a thread has the mutex exactly at the labels where it works on the table, the
handler is there exactly while `server_stop` runs, whose first step clears `is_running`, and with the mutex
passed it interrupts nobody who has it. `ServerStopsOrIsStuck` follows by looking at where `server_stop` is: it waits for
the mutex only if its own thread has it, since the other one goes on; for `keepalive` only if that
sleeps, which ends; and when it is done, `main` waits for nothing but a datagram.

The same module proves things of `UdpChat`, the server with any number of its clients. To the server a step of a client is
one that leaves its variables alone and adds at most datagrams to the server to the network (`Outside`, `ChatSteps`), so
that `Inv` and `StopOK` hold there as well and `ServerServesItsClients` follows. `ClientsInv` says that the threads of a client
have `state_mutex` just between lock and unlock of `client_stop`. With it the two hangs of `QuitterMayHang` are
permanent: `HandlerDeadlockLasts`, since the thread that would give the mutex back is the one the handler runs on, and
`HangLasts`, since a deaf server sends nothing and nobody else sends to a client; a signal on the very thread that
is joined is the only way out. That a client gets to one of these or exits is liveness and stays with TLC.

Only model-checked: the liveness of `udp_chat`. `StuckInKnownWays` is stated with the waits written out, in `MainWaits`,
`KeepaliveWaits` and `HandlerWaits`, from what can block in the code: the mutex, `recvfrom`, `sleep` and
`pthread_join`. A send that blocks is not among them.

### Fairness

`udp_server` has only safety properties. In `udp_chat` each thread, the handler and the clock are
weakly fair: they are threads under a fair scheduler. The user and signals need not come. That the
network is quick and lossless is an assumption of this run, made in the clients' favour: a client that
hangs there hangs without the network being to blame.

## 6. The TCP chat (lab10)

### Modules

* `TcpChatServer` is `server.c`: `main`, a thread for each connection, `keepalive_monitor`, and
  `server_stop` in a signal handler on `main`, where Linux delivers it. A thread is named after
  the connection it was created for. It keeps a pointer to its slot (`slot`), reads the descriptor from it
  before every `recv` (`ThreadCallsRecv`) and again after it (`fd`), and the slot, or the descriptor, may belong to somebody else by then:
  `reading` is the connection whose `recv` it is in.
* `TcpServerProperties` states its properties.
* `TcpChatClient` is `client.c` from the moment the server has registered it, with what the server does to its slot: the thread
  that serves it (`thread["own"]`), threads of earlier clients that still point to the slot (`Orphans`), keepalive,
  other clients, and the shutdown (`stopping`), which may be stuck at the mutex. A connection ends when nobody holds it: neither the slot
  nor a `recv` that began with the descriptor, which is why a `close` under a thread in `recv` ends nothing (`ServerHolds`,
  and `ClientHolds` for the client's own socket). The server is followed until either side lets go.

| variables | code |
|---|---|
| `clients`, `client_count` | server.h:8, 18. `last_seen` is kept as far as keepalive tells it: since or before its last scan |
| `files` | the connection behind each descriptor; the lowest free number is taken |
| `status`, `in`, `out` | the accept queue, the stream to the server, and what the last step sent to whom |
| `main`, `accepted`, `presented` | where `main` is, `client_socket` and `id_msg.sender_id` |
| `at`, `slot`, `fd`, `reading` | of each client thread |

`slot`, `last_seen` and `inactive_count` of `TcpChatClient` are the one slot of the client there; `inbox` and `outbox` the
two directions of its stream, in which everything that the client only displays is `"DISPLAYED"`.

Critical sections that cannot block are one step; those of `main` are two, because the signal
handler takes the same mutex. What type a message has shows when it is received. Torn messages
and sends that block are left out.

### Runs

| run | instance | what it shows |
|---|---|---|
| `tcp_server` | 2 connections, 2 slots, 3 identifiers of which one is invalid, timeouts, a signal at any time | `TableAgrees`: slot, descriptor, identifier, thread and count agree through every reuse. `WhoActs`: a client is removed, answered or dismissed by its own thread, keepalive or `server_stop`, or by an orphan: a thread whose client keepalive had removed from the slot. `StuckInKnownWays`: after a signal some thread can go on until `main` has returned, unless the handler waits for the mutex of the interrupted `main`, `server_cleanup` joins with the mutex a thread that needs it or sits in `recv`, or `main` waits for the first message of a silent connection. |
| `tcp_client` | a client that may list, quit or come to the end of its input, a signal on either thread, and a stop of the server or an orphan in the slot | `QuitterExits`: a client that quits exits, although the server may shut down or remove it meanwhile, unless the server's handler waits for the mutex for ever or an orphan meddles. `LeaverExits`: one that leaves without a word exits, let out of `recv` by a ping or the end of the connection, unless the server has abandoned it (`Abandoned`): `server_stop` is stuck or has closed the descriptor while its thread is in `recv`, or an orphan has removed the client. Keepalive alone abandons nobody. `EndIsNoticed`: the end of the connection, or a signal, ends the client but for the same exceptions, and not before one more line was entered. A signal handler that waits for the mutex of its own thread is an exception of all three |

Two connections are enough for an orphan and the client that gets its slot, and for two clients to be there
at once, under two names or the same. The instance is symmetric in connections and valid names.
Each stream holds one message (`STREAM_CAP`); a longer one only delays.

In `tcp_client` `MAX_INACTIVE_COUNT` is 2 (3 in the code): one ping is answered or not before the removal. `2all` and `2one` are
left to the constant: their handlers send the client nothing, like those of its answers to pings, which are there. The constraint
`OneTrouble` leaves out that an orphan meddles with a client that gets a signal or at a server that stops. A client that
has connected but that `main` has not accepted yet is not modelled; it waits in the same way when it leaves.

### Proofs

`TcpServerProofs`, for any finite set of connections, any names and any number of slots: `SlotsMatchConnections`,
`OnlyOrphansActForOthers` and `ServerStopsOrIsStuck`, under `ServerAssumption`: finitely many connections, at
least one slot, one inactive round and one place in a stream, names and commands that are not empty sets, `NULL` is neither `main` nor a connection. The inductive invariant `Inv` consists of `TableAgrees` and of

* `FilesOK`: no descriptor is given twice, and a connection has at most one;
* `SlotsOK`: slots in use have sockets of their own, and the thread that was created for one points to it and has
  begun and not ended, although others may point there too;
* `AcceptedOK`: until `main` has registered a connection no slot has its descriptor, which is why a new slot
  cannot share one, in whatever state keepalive and orphans leave the table between the two steps;
* `HandlersOK`: a thread in a handler has the descriptor of its own connection as long as that is in
  the table. It is the reading of the descriptor before and after `recv` that could break this, and the
  reason why only an orphan acts for others.

`AddTable` and `RemovedTable` say what adding and removing a client do to the table; each handler is one of them, or
changes streams and program counters only. That there is always a free descriptor to accept with is the
pigeonhole principle of the library.

Together with `Inv`, `StopOK` is inductive: `main` has the mutex exactly while it registers a client or joins the
threads, `is_running` is cleared before `server_stop` asks for the mutex, nobody has the mutex while it dismisses the
clients, and `main` only cleans up after it has run to its end. `ServerStopsOrIsStuck` follows from where
`server_stop` and `main` are.

Only model-checked: the clients' liveness (`tcp_client`). As in section 5 `StuckInKnownWays` is stated with the waits written
out from what can block in the code: the mutex, `accept`, `recv` and `pthread_join`; sends that block are not among them.

### Fairness

`tcp_client` has weak fairness of both threads of the client and of the handler, and of the server's threads: those that
run `handle_client`, keepalive as long as `is_running` holds, and a `server_stop` that has got past the mutex. They are
threads under a fair scheduler, and a `send` to a client that reads does not block for ever. That `server_stop` may not get past the mutex
is a choice of the model (`stopping = "stuck"`), since `tcp_server` shows that it happens. The users, the signals,
the return of an orphan and the end of the server's process need not come.

## 7. The print queue (lab7)

`PrintRing` is the queue in shared memory, `PrintQueuePosix` the processes of `printers_posix.c` and
`clients_posix.c` around it, which SIGINT or SIGTERM may end at any time. Nothing makes these programs' accesses to the
shared memory atomic: a client loads `in`, copies the job to the slot it found, reads `in` again and writes it, in four
steps. A client waits for a free slot by the semaphore; a printer only polls: it loads `out`
(`PrinterLoadsOut`) and compares it with what `in` is afterwards (`PrinterTests`), in the order in which gcc loads them, and
then copies the job, reads `out` and writes it. The copy of a printer loads `out` again and is one step: whoever could advance `out` within it
has disturbed the queue before. `filled`, `taken`, `misprinted` and `disturbed` are history variables: jobs are numbered in the
order in which they are copied in, and `disturbed` notes that two clients or two printers were at one index together, that a
printer passed its test with an outdated `out` while in fact `in == out`, and so takes a job that is not there, or that
somebody was killed at work. `posix.h:22` declares `volatileint out`, which does not
compile; the model takes it for `volatile int out`, like `in`.

| run | instance | what it shows |
|---|---|---|
| `print_queue` | 2 clients, 2 printers, 2 slots, 4 jobs | `FifoUnlessDisturbed`: every job is printed once and in order, unless the queue was disturbed. `EmptyOrFull`: `in == out` with nobody at work means an empty queue or a full one, and the latter no printer sees. `JobsArePrinted`: every job is printed, unless the queue was full with no printer at work, and then everyone waits for ever, or it was disturbed |

Two processes of a kind are what it takes to meet at an index, a ring of two is filled by two
clients, wraps around with the third job and may be full again with the fourth. The constraint `NotYetDisturbed` leaves out what follows
a disturbance, which lasts and about which no property says anything. `MAX_JOBS` and `MAX_PRINTS` bound the history; the code has 20 slots
(`MAX_MESSAGES`) and no limit of jobs. `PosixAssumption` says that the parents are not among the clients and
printers. The processes are weakly fair, and a client waiting for the semaphore strongly, since
`sem_wait` serves the waiting in the end. Signals need not come.

`PrintQueueProofs`, for any ring, any number of jobs and any sets of clients and printers: `QueueIsFifoUnlessDisturbed` and
`LooksEmptyIsEmptyOrFull`. The inductive invariant `Inv` says, beyond types, what holds as long as the queue is
undisturbed: one client that has come to its index and not advanced it yet (`Placing`) and one printer (`OneEach`), so that `in` and `out` are the remainders of the jobs entered and
passed, or will be when the process there has written (`IndicesOK`); every slot is free, claimed,
filled, or its job is still being printed, and they add up to the size of the ring (`SlotsCounted`), which
is why no client fills a slot before its job was taken; and the jobs not taken are in their
slots (`JobsHeld`). A printer that passes its test undisturbed finds a job, whatever `out` it compared, since `in` and `out`
differ when it does (`PassKeeps`). Only model-checked: `JobsArePrinted`.

## 8. What is only model-checked, and what is not modelled

Liveness under fairness stays with TLC throughout, as does ENABLED: the proof system covers neither. Every safety
invariant and action property that a run checks is proved.

Left out of the modelled parts: the text of messages and commands (a line of 1024 characters or more overruns a
buffer in lab11's `handle_user_input`, client.c:430); failing start-up calls; formatting and logging; functions that nobody
calls.

Not modelled:

* the System V programs of `lab7`: the same ring under another set of semaphores;
* `lab6` (message queues), `lab8` (worker threads with `pthread_kill`), `lab4` and `lab5` (signals
  and named pipes), and the turn-taking exercises of `kolos`: section 2, item 6;
* `lab0` to `lab3` and the remaining exercises of `kolos`: sequential, or `fork` and `wait` only, with no
  state that a model checker would add anything to.
