------------------------------ MODULE Hostname ------------------------------
(***************************************************************************)
(* daap_gethostname() of src/daap_init.c: ask for the host name with a     *)
(* buffer that doubles until the name fits, at most NumTries times.        *)
(*                                                                         *)
(* A name is its length.  What gethostname() does with a name that does    *)
(* not fit differs between C libraries: libc is what this one does.        *)
(***************************************************************************)
EXTENDS Integers

CONSTANTS
    HostLens,     \* lengths of host names to try
    FirstLen,     \* LOCAL_MAXHOSTNAMELEN
    NumTries      \* NUM_TRIES_FOR_NULL_HOSTNAME

ASSUME HostnameAssumption ==
    /\ HostLens \subseteq Nat \ {0}
    /\ FirstLen \in Nat \ {0, 1}
    /\ NumTries \in Nat \ {0}

VARIABLES
    host,       \* the length of the name of this host
    libc,       \* what gethostname() does with a name that does not fit
    length,     \* bytes allocated for buf
    num_tries,
    count,      \* strlen(buf), after the last call
    buf,        \* "owned" by this function, "given" to the caller, "freed" or "lost"
    result      \* "none" yet, or what was returned

vars == <<host, libc, length, num_tries, count, buf, result>>

(* "enametoolong" and "einval" fail; the others return 0: "cut" fills the  *)
(* buffer and does not terminate it, "terminated" cuts the name one byte   *)
(* earlier and terminates it, "empty" leaves an empty string.              *)
Failing == {"enametoolong", "einval"}
Libcs == Failing \cup {"cut", "terminated", "empty"}

(* calloc() can fail, too: nothing is allocated then.                      *)
Init ==
    /\ host \in HostLens
    /\ libc \in Libcs
    /\ length = FirstLen
    /\ num_tries = 0
    /\ count = 0
    /\ \/ buf = "owned" /\ result = "none"
       \/ buf = "freed" /\ result = "out_of_memory"

Return(r, b) == result' = r /\ buf' = b /\ UNCHANGED length

(* The buffer doubles; realloc() that fails leaves the old block behind.   *)
Grow ==
    \/ length' = 2 * length /\ UNCHANGED <<result, buf>>
    \/ Return("out_of_memory", "lost")

(* gethostname() was offered n bytes and returned 0: strlen(buf) after the *)
(* byte at length - 1 was cleared.                                         *)
CountOf(n) ==
    CASE host < n -> host
      [] host >= n /\ libc = "cut" -> n
      [] host >= n /\ libc = "terminated" -> n - 1
      [] OTHER -> 0

(* Faulty rounds: a full buffer passes for a complete name ...             *)
TrySucceedsOffByOne ==
    /\ result = "none"
    /\ num_tries < NumTries
    /\ num_tries' = num_tries + 1
    /\ host < length - 1 \/ libc \notin Failing
    /\ count' = CountOf(length - 1)
    /\ IF count' > 0 /\ count' <= length - 1
         THEN Return("success", "given")
         ELSE Grow
    /\ UNCHANGED <<host, libc>>

(* ... a failed call is counted twice, or beyond the limit.                *)
TryTooSmallTwice ==
    /\ result = "none"
    /\ num_tries < NumTries
    /\ num_tries' = num_tries + 2
    /\ host >= length - 1
    /\ libc \in Failing
    /\ Grow
    /\ UNCHANGED <<host, libc, count>>

TryTooSmallUnbounded ==
    /\ result = "none"
    /\ num_tries' = num_tries + 1
    /\ host >= length - 1
    /\ libc \in Failing
    /\ Grow
    /\ UNCHANGED <<host, libc, count>>

(* One round of the loop, the call succeeding.                             *)
TrySucceeds ==
    /\ result = "none"
    /\ num_tries < NumTries
    /\ num_tries' = num_tries + 1
    /\ host < length - 1 \/ libc \notin Failing
    /\ count' = CountOf(length - 1)
    /\ IF count' > 0 /\ count' < length - 1
         THEN Return("success", "given")
         ELSE Grow
    /\ UNCHANGED <<host, libc>>

(* One round of the loop, the call failing: the buffer was too small ...   *)
TryTooSmall ==
    /\ result = "none"
    /\ num_tries < NumTries
    /\ num_tries' = num_tries + 1
    /\ host >= length - 1
    /\ libc \in Failing
    /\ Grow
    /\ UNCHANGED <<host, libc, count>>

(* ... or anything else.                                                   *)
TryFails ==
    /\ result = "none"
    /\ num_tries < NumTries
    /\ num_tries' = num_tries + 1
    /\ Return("errno", "freed")
    /\ UNCHANGED <<host, libc, count>>

GiveUp ==
    /\ result = "none"
    /\ num_tries = NumTries
    /\ Return("error", "freed")
    /\ UNCHANGED <<host, libc, num_tries, count>>

Next == TrySucceeds \/ TryTooSmall \/ TryFails \/ GiveUp

Spec == Init /\ [][Next]_vars

-----------------------------------------------------------------------------
TypeOK ==
    /\ host \in HostLens
    /\ libc \in Libcs
    /\ length \in Nat
    /\ num_tries \in 0 .. NumTries
    /\ count \in Nat
    /\ buf \in {"owned", "given", "freed", "lost"}
    /\ result \in {"none", "success", "error", "errno", "out_of_memory"}

(* A name that is returned is terminated inside the buffer, and it is the  *)
(* whole name: the test count < length - 1 refuses every name that was     *)
(* cut, except one that the C library cut and terminated itself, which     *)
(* ends just before the last byte it was offered (daap_init.c:66-74).      *)
CutOnlyWhereUnseen ==
    result = "success" =>
        /\ count < length
        /\ \/ count = host
           \/ libc = "terminated" /\ count = length - 2 /\ host > count

(* The name is given up only if it does not fit the largest buffer tried,  *)
(* FirstLen doubled NumTries - 1 times, less the byte kept back: no name   *)
(* that would fit is refused at a boundary (daap_init.c:60-74, 122).       *)
GivesUpOnlyOnLongNames ==
    result = "error" => host >= FirstLen * 2^(NumTries - 1) - 1
=============================================================================
