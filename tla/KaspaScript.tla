---------------------------- MODULE KaspaScript ----------------------------
(***************************************************************************)
(* The hash-time-lock of Kaspa: create_htlc_script builds it opcode by     *)
(* opcode, collect_data recognises it, extract_commitment reads the        *)
(* commitment back, and classify_spend tells a claim from a refund by the  *)
(* signature script.  What the opcodes do is the script engine's affair    *)
(* (kaspa-txscript, external), modelled as far as this script uses it.     *)
(*                                                                         *)
(* A byte string is a length and a content.  Numbers are their real bytes, *)
(* little-endian with a sign bit; identifiers, hashes, keys and addresses  *)
(* are opaque contents.  Hashes do not collide, so a redeem script stands  *)
(* for its pay-to-script-hash address.                                     *)
(***************************************************************************)
EXTENDS Integers, Sequences, SequencesExt

CONSTANTS
    SOLVER_REWARD,      \* sompi a settler keeps
    Sha256,             \* the hash of each secret
    NoHash              \* the hash of anything else

Bytes(n, v) == [len |-> n, v |-> v]
Raw(b) == Bytes(Len(b), b)
SpkBytes == 36          \* length of a serialized public-key script
ScriptBytes == 240      \* length of a redeem script; test_script_size has < 250

LittleEndian[n \in Nat] ==
    IF n = 0 THEN <<>> ELSE <<n % 256>> \o LittleEndian[n \div 256]

\* The bytes of a script number: the last byte carries the sign.
Signed(m, sign) ==
    CASE m = <<>> -> Raw(m)
      [] m # <<>> /\ Last(m) >= 128 -> Raw(Append(m, sign))
      [] OTHER -> Raw([m EXCEPT ![Len(m)] = @ + sign])

Num(n) == IF n < 0 THEN Signed(LittleEndian[-n], 128) ELSE Signed(LittleEndian[n], 0)

\* At most eight bytes count, the missing ones are zero.
decode_u64_from_script(b) ==
    FoldRight(LAMBDA x, acc : x + 256 * acc,
              SubSeq(b, 1, IF Len(b) < 8 THEN Len(b) ELSE 8), 0)

Number(b) ==
    IF b.len = 0 THEN 0
    ELSE (IF b.v[b.len] >= 128 THEN -1 ELSE 1)
         * decode_u64_from_script([b.v EXCEPT ![b.len] = @ % 128])
----------------------------------------------------------------------------
(* Building a script. *)

SmallInts == <<"Op1", "Op2", "Op3", "Op4", "Op5", "Op6", "Op7", "Op8",
               "Op9", "Op10", "Op11", "Op12", "Op13", "Op14", "Op15", "Op16">>
OpTrue == "Op1"

add_op(code) == <<[op |-> code, data |-> Raw(<<>>)]>>

\* ScriptBuilder::add_data: a single small byte becomes an opcode.
add_data(d) ==
    CASE d.len = 0 -> add_op("OpFalse")
      [] d.len = 1 /\ d.v[1] = 0 -> add_op("OpFalse")
      [] d.len = 1 /\ d.v[1] \in 1..16 -> add_op(SmallInts[d.v[1]])
      [] d.len = 1 /\ d.v[1] = 129 -> add_op("Op1Negate")
      [] OTHER -> <<[op |-> "OpData", data |-> d]>>

add_i64(n) == add_data(Num(n))

\* mutant: a settler may send the claimed amount anywhere
pays_anyone(spk) == FlattenSeq(<<
    add_op("OpTxInputCount"), add_i64(2), add_op("OpNumEqualVerify"),
    add_op("OpTxOutputCount"), add_i64(2), add_op("OpNumEqualVerify"),
    add_i64(0), add_op("OpTxOutputAmount"),
    add_op("OpTxInputIndex"), add_op("OpTxInputAmount"),
    add_i64(SOLVER_REWARD), add_op("OpSub"), add_op("OpGreaterThanOrEqual")>>)

\* Both branches: two inputs, two outputs, and output 0 pays spk at least the
\* value of the lock less the reward.
pays(spk) == FlattenSeq(<<
    add_op("OpTxInputCount"), add_i64(2), add_op("OpNumEqualVerify"),
    add_op("OpTxOutputCount"), add_i64(2), add_op("OpNumEqualVerify"),
    add_data(spk), add_i64(0), add_op("OpTxOutputSpk"), add_op("OpEqualVerify"),
    add_i64(0), add_op("OpTxOutputAmount"),
    add_op("OpTxInputIndex"), add_op("OpTxInputAmount"),
    add_i64(SOLVER_REWARD), add_op("OpSub"), add_op("OpGreaterThanOrEqual")>>)

create_htlc_script(sender_spk, sender_receiver_address, receiver_spk, secret_hash, timelock, destination, swap_id) ==
    FlattenSeq(<<
        add_op("OpIf"),
            add_op("OpSHA256"), add_data(secret_hash), add_op("OpEqualVerify"),
            pays(receiver_spk),
        add_op("OpElse"),
            add_i64(timelock), add_op("OpCheckLockTimeVerify"),
            pays(sender_spk),
        add_op("OpEndIf"),
        add_op("OpFalse"), add_op("OpIf"),
            add_data(swap_id), add_data(sender_receiver_address),
            add_data(Raw(<<destination>>)),
        add_op("OpEndIf")>>)

spk_to_vec(address) == Bytes(SpkBytes, address)

unlock_ts_ms(c) == c.unlock_ts * 1000

htlc_script_from_commitment(c) ==
    create_htlc_script(spk_to_vec(c.sender), c.sender_destination,
                       spk_to_vec(c.receiver), Bytes(32, c.secret_hash),
                       unlock_ts_ms(c), c.destination, Bytes(32, c.swap_id))

\* The address is the hash of the script, here the script itself.
p2sh_components(c) ==
    LET script == htlc_script_from_commitment(c)
    IN  [address |-> script, redeem_script |-> script]

reveal_sig(secret, script) ==
    add_data(secret) \o add_op(OpTrue) \o add_data(Bytes(ScriptBytes, script))

refund_sig(script) ==
    add_op("OpFalse") \o add_data(Bytes(ScriptBytes, script))
----------------------------------------------------------------------------
(* Reading a script back. *)

Code(code) == [op |-> code, label |-> "Opcode"]
Data(label) == [op |-> "Data", label |-> label]

expected_pays(label) == <<
    Code("OpTxInputCount"), Data("Opcode"), Code("OpNumEqualVerify"),
    Code("OpTxOutputCount"), Data("Opcode"), Code("OpNumEqualVerify"),
    Data(label), Data("Opcode"), Code("OpTxOutputSpk"), Code("OpEqualVerify"),
    Data("Opcode"), Code("OpTxOutputAmount"),
    Code("OpTxInputIndex"), Code("OpTxInputAmount"),
    Data("Opcode"), Code("OpSub"), Code("OpGreaterThanOrEqual")>>

EXPECTED_OPCODES ==
    <<Code("OpIf"), Code("OpSHA256"), Data("SecretHash"), Code("OpEqualVerify")>>
    \o expected_pays("ReceiverSpk")
    \o <<Code("OpElse"), Data("Timelock"), Code("OpCheckLockTimeVerify")>>
    \o expected_pays("SenderSpk")
    \o <<Code("OpEndIf"), Code("OpFalse"), Code("OpIf"), Data("SwapId"),
         Data("SenderReceiverAddress"), Data("Destination"), Code("OpEndIf")>>

DataType == {EXPECTED_OPCODES[i].label : i \in DOMAIN EXPECTED_OPCODES} \ {"Opcode"}

\* mutant: the opcode of an empty push is not taken for a zero
value_to_bytes_no_zero(code) ==
    IF code \in ToSet(SmallInts)
    THEN Raw(<<SelectInSeq(SmallInts, LAMBDA c : c = code)>>) ELSE Raw(<<>>)

\* The bytes a small-integer opcode stands for.
value_to_bytes(code) ==
    CASE code = "OpFalse" -> Raw(<<0>>)
      [] code \in ToSet(SmallInts) ->
            Raw(<<SelectInSeq(SmallInts, LAMBDA c : c = code)>>)
      [] OTHER -> Raw(<<>>)

extract_opcode_data(o) ==
    IF o.data.len # 0 THEN o.data ELSE value_to_bytes(o.op)

\* Only opcodes are compared; operands are taken as they are.
matches_template(script) ==
    /\ Len(script) = Len(EXPECTED_OPCODES)
    /\ \A i \in DOMAIN script :
          \/ EXPECTED_OPCODES[i].op = "Data"
          \/ script[i].op = EXPECTED_OPCODES[i].op

collect_data(script) ==
    [label \in DataType |->
        extract_opcode_data(
            script[SelectInSeq(EXPECTED_OPCODES, LAMBDA e : e.label = label)])]

Failed == [ok |-> FALSE]

CommitmentOf(data) ==
    IF \/ data["SwapId"].len # 32
       \/ data["SecretHash"].len # 32
       \/ data["SenderSpk"].len < 2
       \/ data["ReceiverSpk"].len < 2
       \/ data["Timelock"].len = 0
       \/ data["SenderReceiverAddress"].len = 0
       \/ data["Destination"].len = 0
    THEN Failed
    ELSE [ok |-> TRUE,
          swap_id |-> data["SwapId"].v,
          sender |-> data["SenderSpk"].v,
          receiver |-> data["ReceiverSpk"].v,
          sender_destination |-> data["SenderReceiverAddress"],
          secret_hash |-> data["SecretHash"].v,
          unlock_ts |-> decode_u64_from_script(data["Timelock"].v) \div 1000,
          destination |-> data["Destination"].v[1]]

extract_commitment(script) ==
    IF matches_template(script) THEN CommitmentOf(collect_data(script)) ELSE Failed

Announces(extracted, swap_id, unlock_ts) ==
    extracted.ok /\ extracted.swap_id = swap_id /\ extracted.unlock_ts = unlock_ts

validate_script_announce(address, redeem_script, swap_id, unlock_ts) ==
    /\ Announces(extract_commitment(redeem_script), swap_id, unlock_ts)
    /\ redeem_script = address

extract_reveal_secret(sig) ==
    IF /\ Len(sig) = 3
       /\ sig[2].op = OpTrue
       /\ extract_opcode_data(sig[1]).len = 32
       /\ extract_opcode_data(sig[3]).len # 0
    THEN [ok |-> TRUE, secret |-> extract_opcode_data(sig[1]).v]
    ELSE Failed

validate_refund_sig(sig) ==
    /\ Len(sig) = 2
    /\ sig[1].op = "OpFalse"
    /\ extract_opcode_data(sig[2]).len # 0

last_redeem(sig) ==
    IF sig # <<>> /\ Last(sig).data.len # 0
    THEN [ok |-> TRUE, script |-> Last(sig).data.v]
    ELSE Failed

\* The event of a spend, or "none": neither a claim nor a refund.
NoEvent == [type |-> "none"]

SpendOf(commitment, reveal, is_refund) ==
    CASE ~commitment.ok -> NoEvent
      [] commitment.ok /\ reveal.ok ->
            [type |-> "Reveal", swap_id |-> commitment.swap_id, secret |-> reveal.secret]
      [] commitment.ok /\ ~reveal.ok /\ is_refund ->
            [type |-> "Refund", swap_id |-> commitment.swap_id]
      [] OTHER -> NoEvent

classify_spend(sig, redeem_script) ==
    SpendOf(extract_commitment(redeem_script), extract_reveal_secret(sig),
            validate_refund_sig(sig))
----------------------------------------------------------------------------
(* The script engine.  The top of the stack is its first element; cond     *)
(* holds the branches that are open: "run", "skip", or "dead" for one      *)
(* inside a branch that is not run.                                        *)

Fail(st) == [st EXCEPT !.ok = FALSE]

\* Take n operands and push the given results.
Replace(st, n, results) ==
    [st EXCEPT !.stack = results \o SubSeq(@, n + 1, Len(@))]

Operands ==
    [c \in {"OpSHA256", "OpTxOutputSpk", "OpTxOutputAmount", "OpTxInputAmount",
            "OpCheckLockTimeVerify"} |-> 1]
    @@ [c \in {"OpEqualVerify", "OpNumEqualVerify", "OpSub",
               "OpGreaterThanOrEqual"} |-> 2]
    @@ [c \in {"OpData", "OpFalse", "Op1Negate", "OpTxInputCount",
               "OpTxOutputCount", "OpTxInputIndex"} \cup ToSet(SmallInts) |-> 0]

Bool(b) == IF b THEN Raw(<<1>>) ELSE Raw(<<>>)
Hash(b) == Bytes(32, IF b.v \in DOMAIN Sha256 THEN Sha256[b.v] ELSE NoHash)

Apply(tx, i, st, o) ==
    LET n == Operands[o.op]
        a == st.stack[1]
        b == st.stack[2]
        k == Number(a) + 1
        Push(x) == Replace(st, n, <<x>>)
        Verify(x) == IF x THEN Replace(st, n, <<>>) ELSE Fail(st)
    IN  IF Len(st.stack) < n THEN Fail(st)
        ELSE CASE o.op = "OpData" -> Push(o.data)
               [] o.op = "OpFalse" -> Push(Raw(<<>>))
               [] o.op = "Op1Negate" -> Push(Num(-1))
               [] o.op \in ToSet(SmallInts) -> Push(value_to_bytes(o.op))
               [] o.op = "OpSHA256" -> Push(Hash(a))
               [] o.op = "OpEqualVerify" -> Verify(a = b)
               [] o.op = "OpNumEqualVerify" -> Verify(Number(a) = Number(b))
               [] o.op = "OpSub" -> Push(Num(Number(b) - Number(a)))
               [] o.op = "OpGreaterThanOrEqual" -> Push(Bool(Number(b) >= Number(a)))
               [] o.op = "OpTxInputCount" -> Push(Num(Len(tx.inputs)))
               [] o.op = "OpTxOutputCount" -> Push(Num(Len(tx.outputs)))
               [] o.op = "OpTxInputIndex" -> Push(Num(i - 1))
               [] o.op = "OpTxInputAmount" /\ k \in DOMAIN tx.inputs ->
                    Push(Num(tx.inputs[k].amount))
               [] o.op = "OpTxOutputSpk" /\ k \in DOMAIN tx.outputs ->
                    Push(spk_to_vec(tx.outputs[k].spk))
               [] o.op = "OpTxOutputAmount" /\ k \in DOMAIN tx.outputs ->
                    Push(Num(tx.outputs[k].amount))
               [] o.op = "OpCheckLockTimeVerify" ->
                    Verify(decode_u64_from_script(a.v) <= tx.lock_time)
               [] OTHER -> Fail(st)

Running(st) == \A i \in DOMAIN st.cond : st.cond[i] = "run"

Step(tx, i, st, o) ==
    LET flip == [run |-> "skip", skip |-> "run", dead |-> "dead"]
        open(c) == [st EXCEPT !.cond = <<c>> \o @]
        a == st.stack[1]
    IN  CASE ~st.ok -> st
          [] st.ok /\ o.op = "OpIf" ->
                IF ~Running(st) THEN open("dead")
                ELSE IF st.stack # <<>> /\ (a = Raw(<<>>) \/ a = Raw(<<1>>))
                THEN [open(IF a.len = 1 THEN "run" ELSE "skip")
                        EXCEPT !.stack = Tail(@)]
                ELSE Fail(st)
          [] st.ok /\ o.op = "OpElse" ->
                IF st.cond = <<>> THEN Fail(st)
                ELSE [st EXCEPT !.cond[1] = flip[@]]
          [] st.ok /\ o.op = "OpEndIf" ->
                IF st.cond = <<>> THEN Fail(st) ELSE [st EXCEPT !.cond = Tail(@)]
          [] st.ok /\ ~Running(st) /\ o.op \notin {"OpIf", "OpElse", "OpEndIf"} -> st
          [] OTHER -> Apply(tx, i, st, o)

\* The opcodes run in order up to the first that fails, eight at a time.
Eight(tx, i, script, st, k) ==
    LET at[n \in 0..8] ==
            IF n = 0 THEN st
            ELSE IF k + n > Len(script) THEN at[n - 1]
            ELSE Step(tx, i, at[n - 1], script[k + n])
    IN  IF st.ok THEN at[8] ELSE st

Execute(tx, i, script, stack) ==
    LET run[k \in 0..Len(script)] ==
            IF k = 0 THEN [ok |-> TRUE, stack |-> stack, cond |-> <<>>]
            ELSE Eight(tx, i, script, run[k - 1], 8 * (k - 1))
    IN  run[1 + Len(script) \div 8]

Succeeds(st) == st.ok /\ st.cond = <<>> /\ st.stack = <<Bool(TRUE)>>

Redeems(tx, i, script, pushed) ==
    /\ pushed.ok
    /\ Head(pushed.stack) = Bytes(ScriptBytes, script)
    /\ Succeeds(Execute(tx, i, script, Tail(pushed.stack)))

\* Input i of tx unlocks an output locked to the hash of script: the signature
\* script pushes the script last, and running it leaves TRUE and nothing else.
Unlocks(tx, i, script) ==
    /\ tx.inputs[i].sig # <<>>
    /\ Redeems(tx, i, script, Execute(tx, i, tx.inputs[i].sig, <<>>))
=============================================================================
