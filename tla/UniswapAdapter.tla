--------------------------- MODULE UniswapAdapter ---------------------------
(***************************************************************************)
(* internal/dex/uniswapv3/client.go: one EffectivePrices call, the         *)
(* snapshot UniswapSnapshotter takes for a block.  Two goroutines per      *)
(* size simulate the swap with QuoterV2, each against the state the node   *)
(* holds when it serves the call (block number nil: latest), each writing  *)
(* its own row; a WaitGroup waits for all of them.                         *)
(*                                                                         *)
(* A price is kept as the raw amount the quoter returned: the program      *)
(* divides it by 10^decimals and by the size.                              *)
(***************************************************************************)
EXTENDS Integers

CONSTANTS
  Sizes,      \* the configured sizes: a sequence
  BaseUnit,   \* 10^18: toRawAmount of one unit of the base token
  Heads,      \* block numbers, a range
  Pool,       \* head -> method -> raw base amount -> raw quote amount, or Revert
  Revert,     \* the quoter's answer when the pool cannot serve the swap
  GasAnswers, \* the gas estimates QuoterV2 may return
  Word        \* 2^64: Quote.GasEstimate is a uint64

Sides == {"buy", "sell"}
Rows == Sides \X DOMAIN Sizes

VARIABLES
  head,      \* the block whose state the node serves now
  rows,      \* row -> what its goroutine wrote
  returned,  \* EffectivePrices has returned
  expired,   \* the call's context is done
  since      \* history: the head when the call began

vars == <<head, rows, returned, expired, since>>

-----------------------------------------------------------------------------
\* A row before its goroutine ends, with an error, and with a quote.
Unset == [kind |-> "unset"]
Err == [kind |-> "err"]
Quote(size, amount, gas) ==
  [kind |-> "quote", size |-> size, amount |-> amount, gas |-> gas]

\* quoteBuy asks for exactly the size out, quoteSell sends exactly the size in.
Method(side) ==
  IF side = "buy" THEN "quoteExactOutputSingle" ELSE "quoteExactInputSingle"

\* The first output of the eth_call behind row <<side, i>>.
Primary(row) == Pool[head][Method(row[1])][Sizes[row[2]] * BaseUnit]

\* Snapshot ignores its block event, and the node is not the one that
\* announced it (ETH_RPC_URL, ETH_WS_URL): its head may be any block.
Init ==
  /\ head \in Heads
  /\ since = head
  /\ rows = [row \in Rows |-> Unset]
  /\ returned = FALSE /\ expired = FALSE

\* Plausible bug: the gas estimate is converted unchecked, so it is truncated.
AnswersTruncated(row) ==
  {Err} \cup {Quote(Sizes[row[2]], Primary(row), gas % Word) :
                gas \in IF Primary(row) = Revert THEN {} ELSE GasAnswers}

\* What quote makes of the answer to the row's eth_call: an error if the swap
\* reverts, the answer does not decode, or its gas estimate is no uint64.
Answers(row) ==
  {Err} \cup {Quote(Sizes[row[2]], Primary(row), gas) :
                gas \in IF Primary(row) = Revert THEN {} ELSE GasAnswers \cap 0 .. Word - 1}

\* The node executes the row's eth_call in time.
Served(row) ==
  /\ rows[row] = Unset /\ ~expired
  /\ \E answer \in Answers(row) : rows' = [rows EXCEPT ![row] = answer]
  /\ UNCHANGED <<head, returned, expired, since>>

\* The transport gives up, or the context is done.
Fails(row) ==
  /\ rows[row] = Unset
  /\ rows' = [rows EXCEPT ![row] = Err]
  /\ UNCHANGED <<head, returned, expired, since>>

\* wg.Wait returns.
Return ==
  /\ ~returned
  /\ \A row \in Rows : rows[row] # Unset
  /\ returned' = TRUE
  /\ UNCHANGED <<head, rows, expired, since>>

\* The node imports the next block.
NewHead ==
  /\ head + 1 \in Heads
  /\ head' = head + 1
  /\ UNCHANGED <<rows, returned, expired, since>>

\* The Dispatcher's per-call timeout, or the shutdown.
Expire ==
  /\ ~expired
  /\ expired' = TRUE
  /\ UNCHANGED <<head, rows, returned, since>>

Next ==
  \/ \E row \in Rows : Served(row) \/ Fails(row)
  \/ Return \/ NewHead \/ Expire

Spec == Init /\ [][Next]_vars

-----------------------------------------------------------------------------
(* Properties. *)

TypeOK ==
  /\ {head, since} \subseteq Heads
  /\ \A row \in Rows :
       rows[row] \in {Unset, Err}
         \cup [kind : {"quote"}, size : {Sizes[row[2]]}, amount : Nat,
               gas : 0 .. Word - 1]
  /\ returned \in BOOLEAN /\ expired \in BOOLEAN

\* Every quote is one the quoter gave this call: the amount is what the pool
\* charges or pays for the row's size, by the method of its side, in a block
\* the node held since the call began -- whatever it imported meanwhile and
\* however often the row was tried -- and the gas is an estimate it answered,
\* never what is left of one that does not fit.
QuotesTrue ==
  \A row \in Rows : rows[row].kind = "quote" =>
    /\ rows[row].gas \in GasAnswers
    /\ \E h \in since .. head :
         rows[row].amount = Pool[h][Method(row[1])][rows[row].size * BaseUnit]
=============================================================================
