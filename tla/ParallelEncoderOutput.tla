------------------------ MODULE ParallelEncoderOutput ------------------------
(***************************************************************************)
(* ParallelEncoderOutput (fpaq0parallel.rs): several entropy encoders and  *)
(* raw bytes share one output stream.  An encoder reserves the place of a  *)
(* byte in future_output when the decoder will read it, and decides the    *)
(* byte later; bytes leave for the writer in the order of the places.      *)
(*                                                                         *)
(* One action is one call of flush_byte, write_bypass_byte or of an        *)
(* encoder's constructor.  Which encoder calls, with which byte and in     *)
(* which order, is nondeterministic: the finish of an arithmetic encoder,  *)
(* four calls in a row in the code, may here be interleaved with others.   *)
(*                                                                         *)
(* An entry of future_output is a u16: an encoder's id while the byte is   *)
(* undecided, Flag + byte (the code's byte | 0x100) once it is.            *)
(***************************************************************************)
EXTENDS Naturals, Sequences

CONSTANTS Flag,         \* 0x100 in the code: marks a decided entry
          MaxEncoders,  \* 255: ids an output can hand out
          Leads,        \* places reserved by a new encoder: {1, 4}
          MaxSlots      \* bound on the places a behaviour reserves

ASSUME FlagAssumption == Flag \in Nat \ {0}
ASSUME IdsAssumption == MaxEncoders \in Nat /\ MaxEncoders <= Flag
ASSUME LeadsAssumption == Leads \subseteq Nat \ {0}
ASSUME MaxSlotsAssumption == MaxSlots \in Nat

Bytes == 0..(Flag - 1)
Ids == 0..(MaxEncoders - 1)
Raw == MaxEncoders            \* history only: who supplies bypass bytes
Sources == Ids \cup {Raw}

VARIABLES
    next_id,        \* id of the next encoder
    future_output,  \* places not yet written, decided or not
    output,         \* bytes the writer has accepted
    torn,           \* <<b>> once the writer refused byte b, else <<>>
    lead,           \* lead[e]: calls of flush_byte encoder e still owes
    closing,        \* encoders that have begun to finish
    order,          \* history: the places, in the order they were reserved
    asked,          \* history: places reserved by each source
    given           \* history: bytes supplied by each source

state == <<next_id, future_output, output, torn>>
encoders == <<lead, closing>>
history == <<order, asked, given>>
vars == <<state, encoders, history>>

Decided(x) == x >= Flag
Decide(byte) == Flag + byte
ByteOfUntruncated(x) == x                 \* mutant: without `as u8`
ByteOf(x) == x - Flag

Merged == INSTANCE MergedStream
            WITH Values <- Bytes, out <- output, cut <- torn # <<>>

-----------------------------------------------------------------------------
Init == /\ next_id = 0
        /\ future_output = <<>>
        /\ output = <<>>
        /\ torn = <<>>
        /\ lead = [e \in Ids |-> 0]
        /\ closing = {}
        /\ order = <<>>
        /\ asked = [s \in Sources |-> 0]
        /\ given = [s \in Sources |-> <<>>]

\* After a failed write the caller has its Err and stops.
Calm == torn = <<>>

Reserved(s, n) == Merged!Reserve(s, n) /\ Len(order) + n <= MaxSlots
Supplied(s, byte) == given' = [given EXCEPT ![s] = Append(@, byte)]

\* Fpaq0EncoderParallel::new (four places) and BypassBitEncoder::new (one).
Attach(n) ==
    /\ Calm
    /\ next_id < MaxEncoders
    /\ next_id' = next_id + 1
    /\ future_output' = future_output \o [i \in 1..n |-> next_id]
    /\ lead' = [lead EXCEPT ![next_id] = n]
    /\ Reserved(next_id, n)
    /\ UNCHANGED <<output, torn, closing, given>>

\* The encoder's side of a call: put reserves the place of one more byte
\* (REPUSH), finish gives up its places one by one.
Repush(id) == /\ id \notin closing
              /\ Reserved(id, 1)
              /\ UNCHANGED encoders

Finish(id) == /\ lead[id] > 0
              /\ lead' = [lead EXCEPT ![id] = @ - 1]
              /\ closing' = closing \cup {id}
              /\ Reserved(id, 0)

Called(id, byte, repush) ==
    /\ Calm
    /\ id < next_id
    /\ IF repush THEN Repush(id) ELSE Finish(id)
    /\ Supplied(id, byte)
    /\ next_id' = next_id

PushedAlways(id, repush) == <<id>>        \* mutant: finish reserves too
PushedNever(id, repush) == <<>>           \* mutant: put forgets to reserve
Pushed(id, repush) == IF repush THEN <<id>> ELSE <<>>

AtHead(id) == future_output # <<>> /\ Head(future_output) = id

\* byte and the n decided entries that begin rest, as they are written.
Run(byte, rest, n) == <<byte>> \o [i \in 1..n |-> ByteOf(rest[i])]

StartsDecided(rest, n) == \A i \in 1..n : Decided(rest[i])

\* The loop ends at the first undecided entry, or with the queue.
StopsAfterOne(rest, n) ==                 \* mutant: `if let` for `while let`
    n <= 1 /\ (n = 0 /\ Len(rest) > 0 => ~Decided(rest[1]))
Stops(rest, n) == n < Len(rest) => ~Decided(rest[n + 1])

\* flush_byte when the encoder's place is the first: its byte is written,
\* then every decided entry up to the first undecided one.
FlushHead(id, byte, repush) ==
    /\ Called(id, byte, repush)
    /\ AtHead(id)
    /\ LET rest == Tail(future_output) \o Pushed(id, repush)
       IN  \E n \in 0..Len(rest) :
             /\ StartsDecided(rest, n)
             /\ Stops(rest, n)
             /\ output' = output \o Run(byte, rest, n)
             /\ future_output' = SubSeq(rest, n + 1, Len(rest))
    /\ torn' = torn

\* The same when one of those writes fails: n bytes are accepted, and the
\* next one, already popped, is lost.
FlushHeadFails(id, byte, repush) ==
    /\ Called(id, byte, repush)
    /\ AtHead(id)
    /\ LET rest == Tail(future_output) \o Pushed(id, repush)
       IN  \E n \in 0..Len(rest) :
             /\ StartsDecided(rest, n)
             /\ output' = output \o SubSeq(Run(byte, rest, n), 1, n)
             /\ torn' = <<Run(byte, rest, n)[n + 1]>>
             /\ future_output' = SubSeq(rest, n + 1, Len(rest))

IsLast(i, id) ==                          \* mutant: the search does not stop
    /\ future_output[i] = id
    /\ \A j \in (i + 1)..Len(future_output) : future_output[j] # id
IsFirst(i, id) == /\ future_output[i] = id
                  /\ \A j \in 1..(i - 1) : future_output[j] # id

\* flush_byte when other places come first: the byte waits in the place of
\* the encoder's own that comes first.  When there is none the code panics
\* ("id not found in future output"); SlotFound says that it never does.
FlushLater(id, byte, repush) ==
    /\ Called(id, byte, repush)
    /\ ~AtHead(id)
    /\ \E i \in 1..Len(future_output) :
         /\ IsFirst(i, id)
         /\ future_output' = [future_output EXCEPT ![i] = Decide(byte)]
                             \o Pushed(id, repush)
    /\ UNCHANGED <<output, torn>>

\* write_bypass_byte: straight to the writer, or behind what is waiting.
BypassCall(byte) == /\ Calm
                    /\ Reserved(Raw, 1)
                    /\ Supplied(Raw, byte)
                    /\ UNCHANGED <<next_id, encoders>>

BypassDirect(byte) ==
    /\ BypassCall(byte)
    /\ future_output = <<>>
    /\ \/ output' = Append(output, byte) /\ torn' = torn
       \/ output' = output /\ torn' = <<byte>>
    /\ UNCHANGED future_output

BypassQueued(byte) ==
    /\ BypassCall(byte)
    /\ future_output # <<>>
    /\ future_output' = Append(future_output, Decide(byte))
    /\ UNCHANGED <<output, torn>>

flush_byte(id, byte, repush) == \/ FlushHead(id, byte, repush)
                                \/ FlushHeadFails(id, byte, repush)
                                \/ FlushLater(id, byte, repush)

write_bypass_byte(byte) == BypassDirect(byte) \/ BypassQueued(byte)

Next == \/ \E n \in Leads : Attach(n)
        \/ \E id \in Ids, byte \in Bytes, repush \in BOOLEAN :
               flush_byte(id, byte, repush)
        \/ \E byte \in Bytes : write_bypass_byte(byte)

Spec == Init /\ [][Next]_vars

-----------------------------------------------------------------------------
\* Every variable has its type: entries are ids or flagged bytes, so the two
\* never coincide in a u16 of future_output.
TypeOK == /\ next_id \in 0..MaxEncoders
          /\ future_output \in Seq(Ids \cup {Decide(b) : b \in Bytes})
          /\ output \in Seq(Bytes)
          /\ torn \in Seq(Bytes) /\ Len(torn) <= 1
          /\ lead \in [Ids -> Nat]
          /\ closing \in SUBSET Ids
          /\ order \in Seq([by : Sources, nth : Nat])
          /\ asked \in [Sources -> Nat]
          /\ given \in [Sources -> Seq(Bytes)]

\* The lookup of flush_byte never reaches its panic: every encoder that still
\* owes a byte has a place in the queue, whatever the other encoders did.
SlotFound ==
    \A id \in Ids : lead[id] > 0 =>
        \E i \in 1..Len(future_output) : future_output[i] = id

\* The queue holds only what must wait: as long as no write failed its first
\* entry is an undecided one, so write_bypass_byte may go straight to the
\* writer exactly when the queue is empty.
NothingHeldBack ==
    Calm /\ future_output # <<>> => ~Decided(Head(future_output))

\* When every encoder has finished and no write failed, nothing is left behind:
\* the whole stream has been written, one byte for every place reserved.
CompleteWhenFinished ==
    Calm /\ (\A id \in Ids : lead[id] = 0) =>
        future_output = <<>> /\ Len(output) = Len(order)

\* The stream that leaves is the merge of what the encoders and the bypass
\* calls supplied, each in its own order, at the places they reserved: what
\* the decoders read back "without any special signalling".
ImplementsMerged == Merged!Spec
=============================================================================
