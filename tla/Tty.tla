-------------------------------- MODULE Tty --------------------------------
(***************************************************************************)
(* The terminal's input: the keyboard interrupt of                         *)
(* kernel/src/driver/console/keyboard.c stores scan codes in keyrb and     *)
(* calls tty_notify() of tty.c, which translates a code into characters    *)
(* of the terminal's own buffer or sends SIGINT, and wakes a reader.       *)
(* Code under keybuff_lock or under the terminal's lock is one step.       *)
(*                                                                         *)
(* Scan codes are "E0" (prefix of a special key), "up" (the special key),  *)
(* "c" (a key with a character), "ctrl" and "ctrl-" (the control key       *)
(* pressed and released).  Without its prefix, "up" is a keypad key that   *)
(* has the character "etx".                                                *)
(***************************************************************************)
EXTENDS RingBuffer, FiniteSets

CONSTANTS Readers,   \* the threads that read the terminal
          Lens,      \* the lengths they ask for
          KeyBuff,   \* KEYBUFFLEN
          BuffLen,   \* BUFFLEN
          MaxKeys    \* bound on the number of key codes

ASSUME TtyAssumption ==
    KeyBuff \in Nat \ {0} /\ BuffLen \in Nat \ {0} /\ Lens \subseteq Nat

VARIABLES
    keyrb,         \* scan codes not yet translated
    rb,            \* tty->rb
    ctrl,          \* tty->keystate[CTRL_KEY]
    master,        \* tty_create() has been called
    read_waiting,  \* tty->read_waiting
    count,         \* tty->wait_semaphore.count
    waiters,       \* tty->wait_semaphore.waiters, first element first
    isr,           \* "idle"; "notify": keybuff_append() is about to call
                   \* tty_notify(); "up": it is about to call semaphore_up()
    pc,            \* per reader, see below
    want,          \* per reader: len, 0 when not reading
    got,           \* per reader: what the last read returned
    sig_pending,   \* per reader: SIGINT is pending
    key_panic,     \* a panic() was reached
    keys           \* how many codes the keyboard has sent

ttyVars == <<keyrb, rb, ctrl, master, read_waiting, count, waiters, isr, pc, want,
          got, sig_pending, key_panic, keys>>
readerVars == <<pc, want, got>>
semVars == <<count, waiters>>

Code == {"E0", "up", "c", "ctrl", "ctrl-"}
Char == {"c", "etx", "esc", "[", "A"}

\* "idle"    not reading
\* "down"    in the loop of tty_char_read(), about to call semaphore_down()
\* "asleep"  on the semaphore's list
\* "woken"   taken off the list by semaphore_up()
\* "relock"  back from semaphore_down()
Pc == {"idle", "down", "asleep", "woken", "relock"}

Elements(seq) == {seq[i] : i \in DOMAIN seq}

\* The buffers are well formed and hold codes and characters; a reader counts
\* in read_waiting while it is in tty_char_read().
TtyTypeOK ==
    /\ RingSound(keyrb) /\ Elements(Contents(keyrb)) \subseteq Code
    /\ RingSound(rb) /\ Elements(Contents(rb)) \subseteq Char
    /\ pc \in [Readers -> Pc]
    /\ Elements(waiters) = {r \in Readers : pc[r] = "asleep"}
    /\ read_waiting = Cardinality({r \in Readers : pc[r] # "idle"})

TtyInit ==
    /\ keyrb = ringbuff_init(KeyBuff)
    /\ rb = ringbuff_init(BuffLen + 1)
    /\ ctrl = FALSE
    /\ master = FALSE
    /\ read_waiting = 0
    /\ count = 0
    /\ waiters = <<>>
    /\ isr = "idle"
    /\ pc = [r \in Readers |-> "idle"]
    /\ want = [r \in Readers |-> 0]
    /\ got = [r \in Readers |-> <<>>]
    /\ sig_pending = [r \in Readers |-> FALSE]
    /\ key_panic = FALSE
    /\ keys = 0
-----------------------------------------------------------------------------
\* keybuff_append() from the keyboard's interrupt: store the code.  A code that
\* does not fit is lost unless ringbuff_is_full() notices.
KeyPress(code) ==
    /\ isr = "idle"
    /\ keys < MaxKeys
    /\ keys' = keys + 1
    /\ IF ringbuff_is_full(keyrb)
       THEN key_panic' = TRUE /\ UNCHANGED <<keyrb, isr>>
       ELSE /\ keyrb' = ringbuff_write(keyrb, <<code>>).rb
            /\ isr' = IF code = "E0" THEN "idle" ELSE "notify"
            /\ UNCHANGED key_panic
    /\ UNCHANGED <<rb, ctrl, master, read_waiting, semVars, readerVars, sig_pending>>

\* handle_keystate() and translate_keycode(): the character of a code, if any.
translate(code) ==
    CASE code = "c"  -> <<code>>
      [] code = "up"         -> <<"etx">>
      [] OTHER               -> <<>>

\* The first code of keyrb or, after the prefix of a special key, the first two:
\* the calls of read_one_from_console().
IsSpecial(codes) == codes # <<>> /\ Head(codes) = "E0"
CodesToRead(codes) == IF IsSpecial(codes) THEN 2 ELSE 1

IsInterrupt(codes, down) == codes = <<"c">> /\ down

\* The characters that populate_rb() makes of them, and the state of Ctrl.
Output(codes, down) ==
    CASE codes = <<"E0", "up">>                -> <<"esc", "[", "A">>
      [] codes = <<>> \/ IsSpecial(codes) \/ IsInterrupt(codes, down) -> <<>>
      [] OTHER                                  -> translate(Head(codes))

CtrlAfter(codes, down) == codes = <<"ctrl">> \/ (down /\ codes # <<"ctrl-">>)

\* The results of the reads and the write are bound by quantifiers over single
\* values.
populate_rb ==
    \E read \in {ringbuff_read(keyrb, CodesToRead(Contents(keyrb)))} :
    \E data \in {Output(read.data, ctrl)} :
    \E write \in {ringbuff_write(rb, data)} :
        /\ keyrb' = read.rb
        /\ ctrl' = CtrlAfter(read.data, ctrl)
        /\ sig_pending' = IF IsInterrupt(read.data, ctrl) THEN [r \in Readers |-> TRUE]
                                                    ELSE sig_pending
        /\ rb' = write.rb
        /\ key_panic' = (data # <<>> /\ write.amt = 0)

\* Mutant: a reader that has not gone to sleep yet is not given a count.
semaphore_upWaiters ==
    IF waiters = <<>>
    THEN UNCHANGED <<semVars, pc>>
    ELSE /\ count' = count + 1
         /\ waiters' = Tail(waiters)
         /\ pc' = [pc EXCEPT ![Head(waiters)] = "woken"]

semaphore_up ==
    /\ count' = count + 1
    /\ IF waiters = <<>>
       THEN UNCHANGED <<waiters, pc>>
       ELSE /\ waiters' = Tail(waiters)
            /\ pc' = [pc EXCEPT ![Head(waiters)] = "woken"]

\* tty_notify(), up to the call of semaphore_up(), which it makes with the
\* terminal's lock held: a reader may be in semaphore_down() meanwhile, but not
\* in its loop.
tty_notify ==
    /\ isr = "notify"
    /\ IF master
       THEN populate_rb /\ isr' = (IF read_waiting > 0 THEN "up" ELSE "idle")
       ELSE isr' = "idle" /\ UNCHANGED <<keyrb, ctrl, sig_pending, rb, key_panic>>
    /\ UNCHANGED <<master, read_waiting, semVars, readerVars, keys>>

LockFree == isr # "up"

NotifyReader ==
    /\ isr = "up"
    /\ isr' = "idle"
    /\ semaphore_up
    /\ UNCHANGED <<keyrb, rb, ctrl, master, read_waiting, want, got, sig_pending,
                   key_panic, keys>>

tty_create ==
    /\ ~master
    /\ master' = TRUE
    /\ UNCHANGED <<keyrb, rb, ctrl, read_waiting, semVars, isr, readerVars,
                   sig_pending, key_panic, keys>>
-----------------------------------------------------------------------------
\* One iteration of the loop of tty_char_read(), with the terminal's lock held:
\* return what there is, or -EINTR, or go and wait.
ReadTry(r, len, waiting) ==
    \E read \in {ringbuff_read(rb, len)} :
    \E stay \in {read.data = <<>> /\ ~sig_pending[r]} :
        /\ LockFree
        /\ rb' = read.rb
        /\ got' = [got EXCEPT ![r] = read.data]
        /\ pc' = [pc EXCEPT ![r] = IF stay THEN "down" ELSE "idle"]
        /\ want' = [want EXCEPT ![r] = IF stay THEN len ELSE 0]
        /\ read_waiting' = IF stay THEN waiting ELSE waiting - 1
        /\ UNCHANGED <<keyrb, ctrl, master, semVars, isr, sig_pending, key_panic, keys>>

tty_char_read(r, len) ==
    /\ master
    /\ pc[r] = "idle"
    /\ ReadTry(r, len, read_waiting + 1)

ReadAgain(r) ==
    /\ pc[r] = "relock"
    /\ ReadTry(r, want[r], read_waiting)

\* semaphore_down() of the terminal's semaphore.
semaphore_down(r) ==
    /\ pc[r] = "down"
    /\ IF count > 0
       THEN /\ count' = count - 1
            /\ pc' = [pc EXCEPT ![r] = "relock"]
            /\ UNCHANGED waiters
       ELSE /\ waiters' = <<r>> \o waiters
            /\ pc' = [pc EXCEPT ![r] = "asleep"]
            /\ UNCHANGED count
    /\ UNCHANGED <<keyrb, rb, ctrl, master, read_waiting, isr, want, got,
                   sig_pending, key_panic, keys>>

SemaphoreObtained(r) ==
    /\ pc[r] = "woken"
    /\ key_panic' = (key_panic \/ count = 0)
    /\ count' = IF count = 0 THEN 0 ELSE count - 1
    /\ pc' = [pc EXCEPT ![r] = "relock"]
    /\ UNCHANGED <<keyrb, rb, ctrl, master, read_waiting, waiters, isr, want, got,
                   sig_pending, keys>>

\* The reader returns to user mode, where the signal is delivered.
Deliver(r) ==
    /\ pc[r] = "idle"
    /\ sig_pending[r]
    /\ sig_pending' = [sig_pending EXCEPT ![r] = FALSE]
    /\ UNCHANGED <<keyrb, rb, ctrl, master, read_waiting, semVars, isr, readerVars,
                   key_panic, keys>>

ReaderStep(r) == ReadAgain(r) \/ semaphore_down(r) \/ SemaphoreObtained(r)

TtyNext ==
    /\ ~key_panic
    /\ \/ \E code \in Code : KeyPress(code)
       \/ tty_notify \/ NotifyReader
       \/ tty_create
       \/ \E r \in Readers : \/ \E len \in Lens : tty_char_read(r, len)
                            \/ ReaderStep(r)
                            \/ Deliver(r)

TtySpec == TtyInit /\ [][TtyNext]_ttyVars

\* The interrupt handler goes on.
TtyFairSpec == TtySpec /\ WF_ttyVars(tty_notify \/ NotifyReader)
-----------------------------------------------------------------------------
\* Scan codes and characters keep their order through both buffers, across the
\* wrap: what does not fit is dropped from the end, no key is translated twice
\* or out of turn, and a read returns exactly the characters it removes.
Input == INSTANCE InputQueue WITH
            codes <- Contents(keyrb), queue <- Contents(rb),
            CodeCapacity <- KeyBuff - 1, CharCapacity <- BuffLen,
            KeyLength <- CodesToRead, Chars <- Output, CtrlAfter <- CtrlAfter

InputInOrder == Input!Spec

\* tty_char_read() blocks only while there is nothing to return: when the
\* interrupt handler and every reader are idle or asleep, a sleeping reader has
\* neither characters nor a signal waiting for it.  (A read of no characters has
\* nothing to return, and sleeps until it is interrupted.)
Quiet == isr = "idle" /\ \A r \in Readers : pc[r] \in {"idle", "asleep"}

Answerable(r) == (want[r] > 0 /\ ~ringbuff_is_empty(rb)) \/ sig_pending[r]

NoStrandedReader ==
    Quiet => \A r \in Readers :
                pc[r] = "asleep" => ~Answerable(r)

\* A reader returns once there is something to return, unless it stays on the
\* run queue for ever: that is a stack, and promises a runnable thread nothing.
ReadReturns ==
    \A r \in Readers :
        []<>(pc[r] \in {"idle", "asleep"}) =>
            (pc[r] # "idle" /\ Answerable(r) ~> pc[r] = "idle" \/ key_panic)

\* keybuff_append() stores the code or panics: no code is lost in silence.
CodeKept ==
    [][keys' # keys /\ ~key_panic' =>
          ringbuff_space_used(keyrb') = ringbuff_space_used(keyrb) + 1]_ttyVars
=============================================================================
