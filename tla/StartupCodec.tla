---------------------------- MODULE StartupCodec -----------------------------
(***************************************************************************)
(* pgproto/mod.rs: read_initial_message and write_startup_message, their   *)
(* loops over the parameters step by step.                                 *)
(*                                                                         *)
(* A message is its length field, its code and the bytes that follow; the  *)
(* words "user" and "database" stand for one byte each.  Indices count     *)
(* from 1 after the code.  The length is an i32 taken for a usize, and 4   *)
(* is subtracted modulo Word in a release build; a build with overflow     *)
(* checks panics there, which comes to the same.                           *)
(***************************************************************************)
EXTENDS Integers, Sequences, FiniteSetsExt

CONSTANTS
    Word,      \* the number of values of a usize
    Nul, User, Database, Letters,
    MaxBytes,  \* bound on the bytes after the code of the message first read
    MaxLen     \* bound on the length of a message, which in the code is an i32

Bytes == {Nul, User, Database} \union Letters

CodecAssumption ==
    /\ Word \in Nat /\ MaxBytes \in Nat /\ MaxLen \in Nat
    /\ MaxBytes + 8 <= MaxLen /\ 2 * MaxLen < Word
    /\ Nul # User /\ Nul # Database /\ User # Database
    /\ Letters \intersect {Nul, User, Database} = {}

VARIABLES
    len, code, buf,  \* the message
    pc,
    offset, params,  \* the loop that reads: how far it is, and the pairs found
    first,           \* what was read before it was written again, or <<>>
    next, sent       \* the loop that writes: how far it is, and the pairs written

vars == <<len, code, buf, pc, offset, params, first, next, sent>>

Outcomes == {"ssl", "cancel", "startup", "error", "panic"}

Init ==
    /\ code \in {"Version3", "SSLRequest", "CancelRequest", "other"}
    /\ len \in -1..(MaxBytes + 8)
    /\ buf \in IF len > 8 /\ code = "Version3" THEN [1..(len - 8) -> Bytes] ELSE {<<>>}
    /\ pc = "length" /\ offset = 1 /\ params = <<>>
    /\ first = <<>> /\ next = 1 /\ sent = <<>>

-----------------------------------------------------------------------------
(* read_initial_message *)

Usize(n) == n % Word

\* More than isize::MAX cannot be allocated.
TooLong(n) == 2 * n >= Word

Payload == Usize(Usize(len) - 4)

\* The buffer cannot be had, or buf[0..4] is of fewer than four bytes.
BadLength == len # 8 /\ (TooLong(Payload) \/ Payload < 4)

ReadLength ==
    /\ pc = "length"
    /\ \/ len = 8 /\ code = "SSLRequest" /\ pc' = "ssl"
       \/ len = 8 /\ code = "CancelRequest" /\ pc' = "cancel"
       \/ len = 8 /\ code \in {"Version3", "other"} /\ pc' = "error"
       \/ BadLength /\ pc' = "panic"
       \/ len # 8 /\ ~BadLength /\ code # "Version3" /\ pc' = "error"
       \/ len # 8 /\ ~BadLength /\ code = "Version3" /\ pc' = "loop"
    /\ UNCHANGED <<len, code, buf, offset, params, first, next, sent>>

\* The first NUL at from or after it; 0 if there is none.
NulsFrom(from) == {i \in from..Len(buf) : buf[i] = Nul}
NulFrom(from)  == IF NulsFrom(from) = {} THEN 0 ELSE Min(NulsFrom(from))

\* Mutant: one byte too many is passed over.
BeyondNext(valEnd) == valEnd + 2

\* Where the next key begins.
After(valEnd) == valEnd + 1

\* A value that is not terminated reaches to the end.
ValueEnd(keyEnd) ==
    IF NulFrom(keyEnd + 1) = 0 THEN Len(buf) + 1 ELSE NulFrom(keyEnd + 1)

\* One turn of the loop.  A slice from beyond the end panics; one from just the
\* end is empty.
Parameter ==
    /\ pc = "loop"
    /\ LET keyEnd == NulFrom(offset)
           valEnd == ValueEnd(keyEnd)
       IN  \/ /\ offset > Len(buf) + 1
              /\ pc' = "panic" /\ UNCHANGED <<offset, params>>
           \/ /\ offset <= Len(buf) + 1 /\ keyEnd \in {0, offset}
              /\ pc' = "found" /\ UNCHANGED <<offset, params>>
           \/ /\ offset <= Len(buf) + 1 /\ keyEnd \notin {0, offset}
              /\ params' = Append(params, <<SubSeq(buf, offset, keyEnd - 1),
                                            SubSeq(buf, keyEnd + 1, valEnd - 1)>>)
              /\ offset' = After(valEnd)
              /\ UNCHANGED pc
    /\ UNCHANGED <<len, code, buf, first, next, sent>>

\* The pairs whose key is name; the first of them counts.
Matches(name) == {i \in 1..Len(params) : params[i][1] = <<name>>}
Value(name)   == params[Min(Matches(name))][2]

\* user is required and is the name of the database when there is none.
Startup ==
    [user     |-> Value(User),
     database |-> IF Matches(Database) = {} THEN Value(User) ELSE Value(Database),
     params   |-> params]

Found ==
    /\ pc = "found"
    /\ pc' = IF Matches(User) = {} THEN "error" ELSE "startup"
    /\ UNCHANGED <<len, code, buf, offset, params, first, next, sent>>

-----------------------------------------------------------------------------
(* write_startup_message *)

\* Mutant: the value is not terminated.
OpenPair(p) == p[1] \o <<Nul>> \o p[2]

Pair(p) == p[1] \o <<Nul>> \o p[2] \o <<Nul>>

UserPair(s)     == <<<<User>>, s.user>>
DatabasePair(s) == <<<<Database>>, s.database>>

IsOther(p) == p[1] \notin {<<User>>, <<Database>>}

\* What has been read is written, user and database first.
Rewrite ==
    /\ pc = "startup" /\ first = <<>>
    /\ first' = <<Startup>>
    /\ buf' = Pair(UserPair(Startup)) \o Pair(DatabasePair(Startup))
    /\ sent' = <<UserPair(Startup), DatabasePair(Startup)>>
    /\ pc' = "write" /\ next' = 1
    /\ UNCHANGED <<len, code, offset, params>>

\* One turn of the loop.
WriteParameter ==
    /\ pc = "write" /\ next <= Len(first[1].params)
    /\ LET p == first[1].params[next] IN
       IF IsOther(p) THEN buf' = buf \o Pair(p) /\ sent' = Append(sent, p)
                     ELSE UNCHANGED <<buf, sent>>
    /\ next' = next + 1
    /\ UNCHANGED <<len, code, pc, offset, params, first>>

\* The message is sent, and read again.
WriteEnd ==
    /\ pc = "write" /\ next > Len(first[1].params)
    /\ buf' = buf \o <<Nul>>
    /\ len' = Len(buf') + 8 /\ len' <= MaxLen
    /\ pc' = "length" /\ offset' = 1 /\ params' = <<>>
    /\ UNCHANGED <<code, first, next, sent>>

Next == ReadLength \/ Parameter \/ Found \/ Rewrite \/ WriteParameter \/ WriteEnd

Spec == Init /\ [][Next]_vars

-----------------------------------------------------------------------------
(* Properties *)

Others(pairs) == {i \in 1..Len(pairs) : IsOther(pairs[i])}

\* The other parameters of two lists are the same, and in the same order.
SameOthers(p, q) ==
    \E f \in [Others(p) -> Others(q)] :
        /\ \A j \in Others(q) : \E i \in Others(p) : f[i] = j
        /\ \A i \in Others(p) : p[i] = q[f[i]]
        /\ \A i, k \in Others(p) : i < k => f[i] < f[k]

\* What is written is read back: the same user and database, and the other
\* parameters in their order.
RoundTrip ==
    first # <<>> /\ pc \in Outcomes =>
        /\ pc = "startup"
        /\ Startup.user = first[1].user /\ Startup.database = first[1].database
        /\ SameOthers(params, first[1].params)

\* The last value is terminated, and so is the list of parameters.
Terminated == Len(buf) >= 2 /\ buf[Len(buf) - 1] = Nul /\ buf[Len(buf)] = Nul

\* Only a malformed message panics: a length field below 8, or one whose last
\* value and whose list of parameters are not both terminated.
PanicsOnlyMalformed == pc = "panic" => len < 8 \/ ~Terminated

=============================================================================
