----------------------------- MODULE IrqProofs -----------------------------
(***************************************************************************)
(* Proofs about Irq, for every set of lines, handlers and bounds: IInv is  *)
(* inductive, and the safety invariants of the runs follow from it.        *)
(***************************************************************************)
EXTENDS Irq, TLAPS

\* gicv3_hw_init writes two priorities only.
LEMMA PrioValues == ASSUME NEW i PROVE Prio(i) \in {144, 160}
BY DEF Prio

\* The running frame goes on, inside IRQInterruptHandler, to label l: the
\* frames below it and what they saved stay as they are.
LEMMA TopStep ==
    ASSUME IInv, depth > 0, pc[depth] # "save",
           NEW l \in FrameLabel, l \notin {"save", "eret"},
           pc' = [pc EXCEPT ![depth] = l], UNCHANGED <<depth, saved>>
    PROVE  StackInv' /\ ReturnInv'
<1> USE BoundAssumption DEF IInv, TypeOK, Context, Frames
<1>1. pc'[depth] = l /\ \A d \in Context \ {depth} : pc'[d] = pc[d]
  OBVIOUS
<1>2. StackInv'
  BY <1>1 DEF StackInv
<1>3. ReturnInv'
  <2>1. ASSUME NEW d \in Frames, pc'[d] # "save"
        PROVE  BelowIs(d, saved[d][1], saved[d][2])'
    <3>1. pc[d] # "save" /\ pc'[d - 1] = pc[d - 1]
      BY <1>1, <2>1 DEF StackInv
    <3> QED BY <3>1 DEF ReturnInv, BelowIs
  <2> QED BY <1>1, <2>1 DEF ReturnInv
<1> QED BY <1>2, <1>3

\* ... and if the step is no acknowledgement and no end of interrupt, the
\* lines in service stay the same.
LEMMA ActiveStable ==
    ASSUME IInv, depth > 0, NEW l \in FrameLabel,
           pc' = [pc EXCEPT ![depth] = l], UNCHANGED <<depth, active>>,
           Acked(depth) <=> l \in {"handle", "open", "eoi"},
           \A d \in Frames : Acked(d) => irqnr'[d] = irqnr[d]
    PROVE  ActiveInv'
<1>1. \A d \in Frames : Acked(d)' <=> Acked(d)
  BY DEF IInv, TypeOK, Context, Frames, Acked
<1>2. Frames' = Frames
  BY DEF Frames
<1>3. depth = 2 => irqnr'[1] = irqnr[1]
  BY DEF IInv, StackInv, Frames, Acked
<1> QED BY <1>1, <1>2, <1>3 DEF IInv, ActiveInv

\* The stores of request_irq keep a descriptor a descriptor.
LEMMA HandlerStore ==
    ASSUME NEW desc \in Desc, NEW h \in Handler
    PROVE  [desc EXCEPT !.handle_irq = h] \in Desc
BY DEF Desc

\* ... and so does the store of the data and the reset of irq_count.
LEMMA DataStore ==
    ASSUME NEW desc \in Desc, NEW data \in Handler \cup {NULL}
    PROVE  [desc EXCEPT !.handler_data = data, !.irq_count = 0] \in Desc
BY DEF Desc

\* A dead return address, as Init and eret leave it, is one all the same.
LEMMA NoReturnType == NoReturn \in Return
BY BoundAssumption DEF NoReturn, Return, Context, Label

\* Every step of thread, frame, CPU or device preserves the invariant: one
\* step of the proof per action, and under it one per part of IInv.
LEMMA NextIInv == ASSUME IInv, [Next]_vars PROVE IInv'
<1> USE LineAssumption, HandlerAssumption, BoundAssumption
<1>1. CASE set_irq_chip
  <2> USE <1>1 DEF IInv, set_irq_chip, Thread, At, Goto, vars, descVars,
      cpuVars, frameVars, threadVars, gicVars
  <2>1. TypeOK'
    BY DEF TypeOK, Label, ThreadLabel, FrameLabel
  <2>2. StackInv'
    BY DEF TypeOK, Context, StackInv, MaskInv, ReturnInv, BelowIs, Frames,
        ThreadLabel, FrameLabel
  <2>3. MaskInv'
    BY DEF TypeOK, Context, StackInv, MaskInv, Masked, Frames, ReturnInv,
        BelowIs, ThreadLabel, FrameLabel
  <2>4. ReturnInv'
    BY DEF TypeOK, Context, Return, StackInv, ReturnInv, BelowIs, Frames,
        ThreadLabel, FrameLabel, MaskInv
  <2>5. NestInv'
    BY DEF TypeOK, Context, StackInv, NestInv, Counted, Frames, ReturnInv,
        BelowIs, ThreadLabel, FrameLabel, MaskInv
  <2>6. ActiveInv'
    BY DEF TypeOK, Context, StackInv, ActiveInv, Acked, Frames, ThreadLabel,
        FrameLabel
  <2>7. RequestInv'
    BY DEF TypeOK, Context, StackInv, Frames, FrameLabel, ThreadLabel,
        RequestInv, Requesting
  <2> QED BY <2>1, <2>2, <2>3, <2>4, <2>5, <2>6, <2>7
<1>2. CASE set_handle_irq
  <2> USE <1>2 DEF IInv, set_handle_irq, Thread, At, Goto, vars, descVars,
      cpuVars, frameVars, threadVars, gicVars
  <2>1. TypeOK'
    BY DEF TypeOK, Label, ThreadLabel, FrameLabel
  <2>2. StackInv'
    BY DEF TypeOK, Context, StackInv, MaskInv, ReturnInv, BelowIs, Frames,
        ThreadLabel, FrameLabel
  <2>3. MaskInv'
    BY DEF TypeOK, Context, StackInv, MaskInv, Masked, Frames, ReturnInv,
        BelowIs, ThreadLabel, FrameLabel
  <2>4. ReturnInv'
    BY DEF TypeOK, Context, Return, StackInv, ReturnInv, BelowIs, Frames,
        ThreadLabel, FrameLabel, MaskInv
  <2>5. NestInv'
    BY DEF TypeOK, Context, StackInv, NestInv, Counted, Frames, ReturnInv,
        BelowIs, ThreadLabel, FrameLabel, MaskInv
  <2>6. ActiveInv'
    BY DEF TypeOK, Context, StackInv, ActiveInv, Acked, Frames, ThreadLabel,
        FrameLabel
  <2>7. RequestInv'
    BY DEF TypeOK, Context, StackInv, Frames, FrameLabel, ThreadLabel,
        RequestInv, Requesting
  <2> QED BY <2>1, <2>2, <2>3, <2>4, <2>5, <2>6, <2>7
<1>3. CASE gicv3_hw_init
  <2> USE <1>3 DEF IInv, gicv3_hw_init, Thread, At, Goto, vars, descVars,
      cpuVars, frameVars, threadVars, gicVars
  <2>1. TypeOK'
    BY DEF TypeOK, Label, ThreadLabel, FrameLabel
  <2>2. StackInv'
    BY DEF TypeOK, Context, StackInv, MaskInv, ReturnInv, BelowIs, Frames,
        ThreadLabel, FrameLabel
  <2>3. MaskInv'
    BY DEF TypeOK, Context, StackInv, MaskInv, Masked, Frames, ReturnInv,
        BelowIs, ThreadLabel, FrameLabel
  <2>4. ReturnInv'
    BY DEF TypeOK, Context, Return, StackInv, ReturnInv, BelowIs, Frames,
        ThreadLabel, FrameLabel, MaskInv
  <2>5. NestInv'
    BY DEF TypeOK, Context, StackInv, NestInv, Counted, Frames, ReturnInv,
        BelowIs, ThreadLabel, FrameLabel, MaskInv
  <2>6. ActiveInv'
    BY DEF TypeOK, Context, StackInv, ActiveInv, Acked, Frames, ThreadLabel,
        FrameLabel
  <2>7. RequestInv'
    BY DEF TypeOK, Context, StackInv, Frames, FrameLabel, ThreadLabel,
        RequestInv, Requesting
  <2> QED BY <2>1, <2>2, <2>3, <2>4, <2>5, <2>6, <2>7
<1>4. ASSUME NEW i \in Line, mask_irq(i) PROVE IInv'
  <2> USE <1>4 DEF IInv, mask_irq, Thread, ClearEnable, At, Goto, vars,
      descVars, cpuVars, frameVars, threadVars, gicVars
  <2>1. TypeOK'
    BY DEF TypeOK
  <2>2. StackInv'
    BY DEF StackInv, Frames
  <2>3. MaskInv'
    BY DEF MaskInv, Masked, TypeOK
  <2>4. ReturnInv'
    BY DEF ReturnInv, BelowIs, Frames
  <2>5. NestInv'
    BY DEF NestInv, Counted
  <2>6. ActiveInv'
    BY DEF ActiveInv, Acked, Frames
  <2>7. RequestInv'
    BY DEF TypeOK, Context, StackInv, Frames, FrameLabel, ThreadLabel,
        RequestInv, Requesting
  <2> QED BY <2>1, <2>2, <2>3, <2>4, <2>5, <2>6, <2>7
<1>5. ASSUME NEW i \in Line, unmask_irq(i) PROVE IInv'
  <2> USE <1>5 DEF IInv, unmask_irq, Thread, SetEnable, At, Goto, vars,
      descVars, cpuVars, frameVars, threadVars, gicVars
  <2>1. TypeOK'
    BY DEF TypeOK
  <2>2. StackInv'
    BY DEF StackInv, Frames
  <2>3. MaskInv'
    BY DEF MaskInv, Masked, TypeOK
  <2>4. ReturnInv'
    BY DEF ReturnInv, BelowIs, Frames
  <2>5. NestInv'
    BY DEF NestInv, Counted
  <2>6. ActiveInv'
    BY DEF ActiveInv, Acked, Frames
  <2>7. RequestInv'
    BY DEF TypeOK, Context, StackInv, Frames, FrameLabel, ThreadLabel,
        RequestInv, Requesting
  <2> QED BY <2>1, <2>2, <2>3, <2>4, <2>5, <2>6, <2>7
<1>6. ASSUME NEW i \in Line, NEW h \in Handler \cup {NULL}, request_irq(i, h)
      PROVE  IInv'
  <2> USE <1>6 DEF IInv, request_irq, Thread, At, Goto, vars, descVars,
      cpuVars, frameVars, threadVars, gicVars
  <2>1. TypeOK'
    <3>1. irq_desc' \in [Line -> Desc]
      <4>1. [irq_desc[i] EXCEPT !.handle_irq = h] \in Desc \/ h = NULL
        BY HandlerStore DEF TypeOK
      <4>2. h # NULL => irq_desc' = [irq_desc EXCEPT ![i] =
                               [irq_desc[i] EXCEPT !.handle_irq = h]]
        BY DEF TypeOK, Desc
      <4> QED BY <4>1, <4>2 DEF TypeOK
    <3>2. req' \in Request
      BY DEF TypeOK, Request
    <3>3. pc' \in [Context -> Label]
      BY DEF TypeOK, Label, ThreadLabel
    <3> QED BY <3>1, <3>2, <3>3 DEF TypeOK
  <2>2. StackInv'
    BY DEF TypeOK, Context, StackInv, MaskInv, ReturnInv, BelowIs, Frames,
        ThreadLabel, FrameLabel
  <2>3. MaskInv'
    BY DEF TypeOK, Context, StackInv, MaskInv, Masked, Frames, ReturnInv,
        BelowIs, ThreadLabel, FrameLabel
  <2>4. ReturnInv'
    BY DEF TypeOK, Context, Return, StackInv, ReturnInv, BelowIs, Frames,
        ThreadLabel, FrameLabel, MaskInv
  <2>5. NestInv'
    BY DEF TypeOK, Context, StackInv, NestInv, Counted, Frames, ReturnInv,
        BelowIs, ThreadLabel, FrameLabel, MaskInv
  <2>6. ActiveInv'
    BY DEF TypeOK, Context, StackInv, ActiveInv, Acked, Frames, ThreadLabel,
        FrameLabel
  <2>7. RequestInv'
    <3>1. pc'[0] = "req_data"
      BY DEF TypeOK, Context
    <3>2. active' = {} /\ enabled' = enabled
      BY DEF ActiveInv, Frames
    <3>3. h # NULL => irq_desc'[i].handle_irq = h
      BY DEF TypeOK, Desc
    <3>4. \A j \in Line \ {i} : irq_desc'[j] = irq_desc[j]
      BY DEF TypeOK
    <3>5. pc[0] # "req_data"
      OBVIOUS
    <3>6. req'.irq = i /\ req'.handler = h
      OBVIOUS
    <3>7. req'.live = (i \in enabled)
      BY SMT
    <3> HIDE <1>6 DEF request_irq
    <3>8. ASSUME NEW j \in Line
          PROVE  \/ irq_desc'[j].handle_irq = handle_bad_irq
                 \/ irq_desc'[j].handler_data \in {irq_desc'[j].handle_irq,
                     NULL}
                 \/ pc'[0] = "req_data" /\ req'.irq = j
      BY <3>1, <3>4, <3>5, <3>6 DEF RequestInv
    <3>9. ~req'.live => i \notin enabled
      BY ZenonT(60), <3>7
    <3> QED BY <3>1, <3>2, <3>3, <3>6, <3>8, <3>9 DEF RequestInv, Requesting
  <2> QED BY <2>1, <2>2, <2>3, <2>4, <2>5, <2>6, <2>7
<1>7. CASE request_irq_data
  <2> USE <1>7 DEF IInv, request_irq_data, Thread, At, Goto, vars, descVars,
      cpuVars, frameVars, threadVars, gicVars
  <2>1. TypeOK'
    <3>1. irq_desc' \in [Line -> Desc]
      <4>1. /\ req.irq \in Line /\ irq_desc[req.irq] \in Desc
            /\ req.handler \in Handler \cup {NULL}
        BY DEF TypeOK, Request, RequestInv, Requesting
      <4>2. [irq_desc[req.irq] EXCEPT !.handler_data = req.handler,
                                      !.irq_count = 0] \in Desc
        BY ZenonT(60), <4>1, DataStore
      <4>3. irq_desc' = [irq_desc EXCEPT ![req.irq] =
                [irq_desc[req.irq] EXCEPT !.handler_data = req.handler,
                                          !.irq_count = 0]]
        BY <4>1 DEF TypeOK
      <4> QED BY <4>1, <4>2, <4>3 DEF TypeOK
    <3>2. pc' \in [Context -> Label]
      BY DEF TypeOK, Label, ThreadLabel
    <3> QED BY <3>1, <3>2 DEF TypeOK
  <2>2. StackInv'
    BY DEF TypeOK, Context, StackInv, MaskInv, ReturnInv, BelowIs, Frames,
        ThreadLabel, FrameLabel
  <2>3. MaskInv'
    BY DEF TypeOK, Context, StackInv, MaskInv, Masked, Frames, ReturnInv,
        BelowIs, ThreadLabel, FrameLabel
  <2>4. ReturnInv'
    BY DEF TypeOK, Context, Return, StackInv, ReturnInv, BelowIs, Frames,
        ThreadLabel, FrameLabel, MaskInv
  <2>5. NestInv'
    BY DEF TypeOK, Context, StackInv, NestInv, Counted, Frames, ReturnInv,
        BelowIs, ThreadLabel, FrameLabel, MaskInv
  <2>6. ActiveInv'
    BY DEF TypeOK, Context, StackInv, ActiveInv, Acked, Frames, ThreadLabel,
        FrameLabel
  <2>7. RequestInv'
    BY DEF TypeOK, StackInv, Context, RequestInv, Requesting, Desc, Request
  <2> QED BY <2>1, <2>2, <2>3, <2>4, <2>5, <2>6, <2>7
<1>8. CASE _setup_irq
  <2> USE <1>8 DEF IInv, _setup_irq, Thread, SetEnable, NoRequest, At, Goto,
      vars, descVars, cpuVars, frameVars, threadVars, gicVars
  <2>1. TypeOK'
    <3>1. enabled' \subseteq Line
      BY ZenonT(60) DEF TypeOK, RequestInv, Requesting
    <3>2. req' \in Request
      BY DEF Request
    <3>3. pc' \in [Context -> Label]
      BY DEF TypeOK, Label, ThreadLabel
    <3> QED BY <3>1, <3>2, <3>3 DEF TypeOK
  <2>2. StackInv'
    BY DEF TypeOK, Context, StackInv, MaskInv, ReturnInv, BelowIs, Frames,
        ThreadLabel, FrameLabel
  <2>3. MaskInv'
    BY DEF TypeOK, Context, StackInv, MaskInv, Masked, Frames, ReturnInv,
        BelowIs, ThreadLabel, FrameLabel
  <2>4. ReturnInv'
    BY DEF TypeOK, Context, Return, StackInv, ReturnInv, BelowIs, Frames,
        ThreadLabel, FrameLabel, MaskInv
  <2>5. NestInv'
    BY DEF TypeOK, Context, StackInv, NestInv, Counted, Frames, ReturnInv,
        BelowIs, ThreadLabel, FrameLabel, MaskInv
  <2>6. ActiveInv'
    BY DEF TypeOK, Context, StackInv, ActiveInv, Acked, Frames, ThreadLabel,
        FrameLabel
  <2>7. RequestInv'
    BY DEF TypeOK, Context, StackInv, Frames, FrameLabel, ThreadLabel,
        RequestInv, Requesting
  <2> QED BY <2>1, <2>2, <2>3, <2>4, <2>5, <2>6, <2>7
<1>9. CASE local_irq_save_mask
  <2> USE <1>9 DEF IInv, local_irq_save_mask, Thread, At, Goto, vars,
      descVars, cpuVars, frameVars, threadVars, gicVars
  <2>1. TypeOK'
    BY DEF TypeOK, Label, ThreadLabel, FrameLabel
  <2>2. StackInv'
    BY DEF TypeOK, Context, StackInv, MaskInv, ReturnInv, BelowIs, Frames,
        ThreadLabel, FrameLabel
  <2>3. MaskInv'
    <3>1. pc'[0] = "critical"
      BY DEF TypeOK, Context
    <3> QED BY <3>1 DEF MaskInv, Masked
  <2>4. ReturnInv'
    BY DEF TypeOK, Context, Return, StackInv, ReturnInv, BelowIs, Frames,
        ThreadLabel, FrameLabel, MaskInv
  <2>5. NestInv'
    BY DEF TypeOK, Context, StackInv, NestInv, Counted, Frames, ReturnInv,
        BelowIs, ThreadLabel, FrameLabel, MaskInv
  <2>6. ActiveInv'
    BY DEF TypeOK, Context, StackInv, ActiveInv, Acked, Frames, ThreadLabel,
        FrameLabel
  <2>7. RequestInv'
    BY DEF TypeOK, Context, StackInv, Frames, FrameLabel, ThreadLabel,
        RequestInv, Requesting
  <2> QED BY <2>1, <2>2, <2>3, <2>4, <2>5, <2>6, <2>7
<1>10. CASE local_irq_restore
  <2> USE <1>10 DEF IInv, local_irq_restore, Thread, At, Goto, vars, descVars,
      cpuVars, frameVars, threadVars, gicVars
  <2>1. TypeOK'
    BY ZenonT(60) DEF TypeOK, Label, ThreadLabel, FrameLabel
  <2>2. StackInv'
    BY DEF TypeOK, Context, StackInv, MaskInv, ReturnInv, BelowIs, Frames,
        ThreadLabel, FrameLabel
  <2>3. MaskInv'
    BY DEF TypeOK, Context, StackInv, MaskInv, Masked, Frames, ReturnInv,
        BelowIs, ThreadLabel, FrameLabel
  <2>4. ReturnInv'
    BY DEF TypeOK, Context, Return, StackInv, ReturnInv, BelowIs, Frames,
        ThreadLabel, FrameLabel, MaskInv
  <2>5. NestInv'
    BY DEF TypeOK, Context, StackInv, NestInv, Counted, Frames, ReturnInv,
        BelowIs, ThreadLabel, FrameLabel, MaskInv
  <2>6. ActiveInv'
    BY DEF TypeOK, Context, StackInv, ActiveInv, Acked, Frames, ThreadLabel,
        FrameLabel
  <2>7. RequestInv'
    BY DEF TypeOK, Context, StackInv, Frames, FrameLabel, ThreadLabel,
        RequestInv, Requesting
  <2> QED BY <2>1, <2>2, <2>3, <2>4, <2>5, <2>6, <2>7
<1>11. CASE local_irq_enable
  <2> USE <1>11 DEF IInv, local_irq_enable, Thread, At, Goto, vars, descVars,
      cpuVars, frameVars, threadVars, gicVars
  <2>1. TypeOK'
    BY DEF TypeOK
  <2>2. StackInv'
    BY DEF StackInv, Frames
  <2>3. MaskInv'
    BY DEF MaskInv, Masked, TypeOK
  <2>4. ReturnInv'
    BY DEF ReturnInv, BelowIs, Frames
  <2>5. NestInv'
    BY DEF NestInv, Counted
  <2>6. ActiveInv'
    BY DEF ActiveInv, Acked, Frames
  <2>7. RequestInv'
    BY DEF TypeOK, Context, StackInv, Frames, FrameLabel, ThreadLabel,
        RequestInv, Requesting
  <2> QED BY <2>1, <2>2, <2>3, <2>4, <2>5, <2>6, <2>7
<1>12. CASE local_irq_disable
  <2> USE <1>12 DEF IInv, local_irq_disable, Thread, At, Goto, vars, descVars,
      cpuVars, frameVars, threadVars, gicVars
  <2>1. TypeOK'
    BY DEF TypeOK
  <2>2. StackInv'
    BY DEF StackInv, Frames
  <2>3. MaskInv'
    BY DEF MaskInv, Masked, TypeOK
  <2>4. ReturnInv'
    BY DEF ReturnInv, BelowIs, Frames
  <2>5. NestInv'
    BY DEF NestInv, Counted
  <2>6. ActiveInv'
    BY DEF ActiveInv, Acked, Frames
  <2>7. RequestInv'
    BY DEF TypeOK, Context, StackInv, Frames, FrameLabel, ThreadLabel,
        RequestInv, Requesting
  <2> QED BY <2>1, <2>2, <2>3, <2>4, <2>5, <2>6, <2>7
<1>13. CASE local_irq_save
  <2> USE <1>13 DEF IInv, local_irq_save, Thread, At, Goto, vars, descVars,
      cpuVars, frameVars, threadVars, gicVars
  <2>1. TypeOK'
    BY DEF TypeOK, Label, ThreadLabel, FrameLabel
  <2>2. StackInv'
    BY DEF TypeOK, Context, StackInv, MaskInv, ReturnInv, BelowIs, Frames,
        ThreadLabel, FrameLabel
  <2>3. MaskInv'
    BY DEF TypeOK, Context, StackInv, MaskInv, Masked, Frames, ReturnInv,
        BelowIs, ThreadLabel, FrameLabel
  <2>4. ReturnInv'
    BY DEF TypeOK, Context, Return, StackInv, ReturnInv, BelowIs, Frames,
        ThreadLabel, FrameLabel, MaskInv
  <2>5. NestInv'
    BY DEF TypeOK, Context, StackInv, NestInv, Counted, Frames, ReturnInv,
        BelowIs, ThreadLabel, FrameLabel, MaskInv
  <2>6. ActiveInv'
    BY DEF TypeOK, Context, StackInv, ActiveInv, Acked, Frames, ThreadLabel,
        FrameLabel
  <2>7. RequestInv'
    BY DEF TypeOK, Context, StackInv, Frames, FrameLabel, ThreadLabel,
        RequestInv, Requesting
  <2> QED BY <2>1, <2>2, <2>3, <2>4, <2>5, <2>6, <2>7
<1>14. CASE TakeIrq
  <2> USE <1>14 DEF IInv, TakeIrq, At, Goto, vars, descVars, cpuVars,
      frameVars, threadVars, gicVars
  <2>1. TypeOK'
    <3>1. depth' \in Context /\ depth + 1 \in Context
      BY DEF TypeOK, Context
    <3>2. elr' \in Return
      BY DEF TypeOK, Return
    <3>3. pc' \in [Context -> Label]
      BY <3>1 DEF TypeOK, Label, FrameLabel
    <3> QED BY <3>1, <3>2, <3>3 DEF TypeOK
  <2>2. StackInv'
    BY DEF TypeOK, Context, StackInv, MaskInv, ReturnInv, BelowIs, Frames,
        ThreadLabel, FrameLabel
  <2>3. MaskInv'
    <3>1. ~closed /\ pc[0] \in {"run", "req_data", "req_unmask", "save_mask"}
      BY DEF MaskInv, Masked, StackInv, ThreadLabel, TypeOK, Context
    <3>2. depth' > 0 /\ pc'[0] = pc[0] /\ pc'[depth'] = "save"
      BY DEF TypeOK, Context
    <3> QED BY <3>1, <3>2 DEF MaskInv
  <2>4. ReturnInv'
    <3>1. /\ pc'[depth'] = "save" /\ depth' = depth + 1
          /\ \A d \in 0 .. depth : pc'[d] = pc[d]
      BY DEF TypeOK, Context
    <3>2. \A d \in Frames : pc[d] # "save"
      BY DEF StackInv, MaskInv, Frames, TypeOK, Context
    <3>3. ASSUME NEW d \in Frames PROVE BelowIs(d, saved[d][1], saved[d][2])'
      BY SMTT(30), <3>1, <3>2, <3>3
         DEF ReturnInv, BelowIs, Frames, TypeOK, Context
    <3>4. BelowIs(depth, elr, spsr)'
      BY <3>1 DEF BelowIs, TypeOK, Context
    <3> QED BY <3>1, <3>3, <3>4 DEF ReturnInv, Frames, TypeOK, Context
  <2>5. NestInv'
    BY DEF TypeOK, Context, StackInv, NestInv, Counted, Frames, ReturnInv,
        BelowIs, ThreadLabel, FrameLabel, MaskInv
  <2>6. ActiveInv'
    <3>1. PICK i \in Line : \A j \in active : Prio(i) < Prio(j)
      BY ZenonT(60) DEF Presented, TypeOK
    <3>2. /\ pc'[depth'] = "save"
          /\ \A d \in Frames : pc'[d] = pc[d]
          /\ Frames' = Frames \cup {depth'}
      BY DEF TypeOK, Context, Frames
    <3>3. \A d \in Frames : pc[d] = "open"
      BY DEF StackInv, MaskInv, Frames, TypeOK, Context
    <3>4. \A d \in Frames : irqnr[d] \in active
      BY <3>3 DEF ActiveInv, Acked
    <3>5. depth = 2 => FALSE
      BY <3>1, <3>3, <3>4, PrioValues DEF ActiveInv, Acked, Frames
    <3>6. depth = 1 => Prio(irqnr[1]) = 160
      BY <3>1, <3>4, PrioValues DEF Frames
    <3>7. \A d \in Frames' : Acked(d)' <=> d # depth'
      BY <3>2, <3>3 DEF Acked, Frames
    <3>8. \A d \in Frames : Acked(d)
      BY <3>3 DEF Acked
    <3>9. depth' <= 2 /\ (depth' = 2 => Prio(irqnr[1]) = 160)
      BY <3>5, <3>6 DEF ActiveInv, TypeOK, Context
    <3>10. \A d \in Frames' : Acked(d)' => d \in Frames /\ Acked(d)
      BY <3>2, <3>7, <3>8
    <3>11. Frames \subseteq Frames' /\ \A d \in Frames : Acked(d)'
      BY <3>2, <3>7 DEF Frames, TypeOK, Context
    <3>12. active' = active /\ irqnr' = irqnr
      OBVIOUS
    <3> HIDE <1>14 DEF TakeIrq
    <3> QED BY <3>8, <3>9, <3>10, <3>11, <3>12 DEF ActiveInv
  <2>7. RequestInv'
    BY DEF TypeOK, Context, StackInv, Frames, FrameLabel, ThreadLabel,
        RequestInv, Requesting
  <2> QED BY <2>1, <2>2, <2>3, <2>4, <2>5, <2>6, <2>7
<1>15. CASE save_context
  <2> USE <1>15 DEF IInv, save_context, At, Goto, vars, descVars, cpuVars,
      frameVars, threadVars, gicVars
  <2>0. depth > 0
    BY DEF TypeOK, Context, StackInv, ThreadLabel
  <2>1. TypeOK'
    BY <2>0 DEF TypeOK, Label, ThreadLabel, FrameLabel
  <2>2. StackInv'
    BY <2>0 DEF TypeOK, Context, StackInv, MaskInv, ReturnInv, BelowIs,
        Frames, ThreadLabel, FrameLabel
  <2>3. MaskInv'
    BY <2>0 DEF TypeOK, Context, StackInv, MaskInv, Masked, Frames, ReturnInv,
        BelowIs, ThreadLabel, FrameLabel
  <2>4. ReturnInv'
    BY <2>0 DEF TypeOK, Context, Return, StackInv, ReturnInv, BelowIs, Frames,
        ThreadLabel, FrameLabel, MaskInv
  <2>5. NestInv'
    BY <2>0 DEF TypeOK, Context, StackInv, NestInv, Counted, Frames,
        ReturnInv, BelowIs, ThreadLabel, FrameLabel, MaskInv
  <2>6. ActiveInv'
    BY <2>0, "enter" \in FrameLabel, ActiveStable DEF Acked, FrameLabel
  <2>7. RequestInv'
    BY <2>0 DEF TypeOK, Context, StackInv, Frames, FrameLabel, ThreadLabel,
        RequestInv, Requesting
  <2> QED BY <2>1, <2>2, <2>3, <2>4, <2>5, <2>6, <2>7
<1>16. CASE irq_enter
  <2> USE <1>16 DEF IInv, irq_enter, At, Goto, vars, descVars, cpuVars,
      frameVars, threadVars, gicVars
  <2>0. depth > 0
    BY DEF TypeOK, Context, StackInv, ThreadLabel
  <2>1. TypeOK'
    BY <2>0 DEF TypeOK, Label, ThreadLabel, FrameLabel
  <2>2. StackInv'
    BY <2>0, "enter_st" \in FrameLabel, TopStep DEF FrameLabel, IInv
  <2>3. MaskInv'
    BY <2>0 DEF TypeOK, Context, StackInv, MaskInv, Masked, Frames, ReturnInv,
        BelowIs, ThreadLabel, FrameLabel
  <2>4. ReturnInv'
    BY <2>0, "enter_st" \in FrameLabel, TopStep DEF FrameLabel, IInv
  <2>5. NestInv'
    BY <2>0 DEF TypeOK, Context, StackInv, NestInv, Counted, Frames,
        ReturnInv, BelowIs, ThreadLabel, FrameLabel, MaskInv
  <2>6. ActiveInv'
    BY <2>0, "enter_st" \in FrameLabel, ActiveStable DEF Acked, FrameLabel
  <2>7. RequestInv'
    BY <2>0 DEF TypeOK, Context, StackInv, Frames, FrameLabel, ThreadLabel,
        RequestInv, Requesting
  <2> QED BY <2>1, <2>2, <2>3, <2>4, <2>5, <2>6, <2>7
<1>17. CASE irq_enter_store
  <2> USE <1>17 DEF IInv, irq_enter_store, At, Goto, vars, descVars, cpuVars,
      frameVars, threadVars, gicVars
  <2>0. depth > 0
    BY DEF TypeOK, Context, StackInv, ThreadLabel
  <2>1. TypeOK'
    <3>1. interrupt_nest' \in Nat
      BY <2>0 DEF NestInv, TypeOK, Context
    <3>2. pc' \in [Context -> Label]
      BY DEF TypeOK, Label, FrameLabel
    <3> QED BY <3>1, <3>2 DEF TypeOK
  <2>2. StackInv'
    BY <2>0, "iar" \in FrameLabel, TopStep DEF FrameLabel, IInv
  <2>3. MaskInv'
    BY <2>0 DEF TypeOK, Context, StackInv, MaskInv, Masked, Frames, ReturnInv,
        BelowIs, ThreadLabel, FrameLabel
  <2>4. ReturnInv'
    BY <2>0, "iar" \in FrameLabel, TopStep DEF FrameLabel, IInv
  <2>5. NestInv'
    BY <2>0 DEF TypeOK, Context, StackInv, NestInv, Counted, Frames,
        ReturnInv, BelowIs, ThreadLabel, FrameLabel, MaskInv
  <2>6. ActiveInv'
    BY <2>0, "iar" \in FrameLabel, ActiveStable DEF Acked, FrameLabel
  <2>7. RequestInv'
    BY <2>0 DEF TypeOK, Context, StackInv, Frames, FrameLabel, ThreadLabel,
        RequestInv, Requesting
  <2> QED BY <2>1, <2>2, <2>3, <2>4, <2>5, <2>6, <2>7
<1>18. ASSUME NEW i \in Line, gic_read_iar(i) PROVE IInv'
  <2> USE <1>18 DEF IInv, gic_read_iar, Highest, Presented, At, Goto, vars,
      descVars, cpuVars, frameVars, threadVars, gicVars
  <2>0. depth > 0
    BY DEF TypeOK, Context, StackInv, ThreadLabel
  <2>1. TypeOK'
    BY <2>0 DEF TypeOK, Label, ThreadLabel, FrameLabel
  <2>2. StackInv'
    BY <2>0, "handle" \in FrameLabel, TopStep DEF FrameLabel, IInv
  <2>3. MaskInv'
    BY <2>0 DEF TypeOK, Context, StackInv, MaskInv, Masked, Frames, ReturnInv,
        BelowIs, ThreadLabel, FrameLabel
  <2>4. ReturnInv'
    BY <2>0, "handle" \in FrameLabel, TopStep DEF FrameLabel, IInv
  <2>5. NestInv'
    BY <2>0 DEF TypeOK, Context, StackInv, NestInv, Counted, Frames,
        ReturnInv, BelowIs, ThreadLabel, FrameLabel, MaskInv
  <2>6. ActiveInv'
    <3>1. /\ irqnr'[depth] = i
          /\ \A d \in Context \ {depth} : irqnr'[d] = irqnr[d]
      BY DEF TypeOK
    <3>2. \A d \in Frames : Acked(d)' /\ (Acked(d) <=> d # depth)
      BY <2>0 DEF StackInv, Acked, Frames, TypeOK, Context
    <3>3. \A j \in active : Prio(i) < Prio(j)
      OBVIOUS
    <3>4. \A d \in Frames' : irqnr'[d] \in active'
      BY <3>1, <3>2 DEF ActiveInv, Frames, TypeOK, Context
    <3>5. \A j \in active' : \E d \in Frames' : irqnr'[d] = j
      BY <2>0, <3>1, <3>2 DEF ActiveInv, Frames, TypeOK, Context
    <3>6. \A d, e \in Frames' : d < e => Prio(irqnr'[e]) < Prio(irqnr'[d])
      <4>1. ASSUME NEW d \in Frames, NEW e \in Frames, d < e
            PROVE  Prio(irqnr'[e]) < Prio(irqnr'[d])
        <5>1. d # depth /\ d \in Context /\ irqnr'[d] = irqnr[d] /\ Acked(d)
          BY <3>1, <3>2, <4>1 DEF Frames, TypeOK, Context
        <5>2. CASE e = depth
          BY <3>1, <3>3, <5>1, <5>2 DEF ActiveInv
        <5>3. CASE e # depth
          BY <3>1, <3>2, <4>1, <5>1, <5>3 DEF ActiveInv, Frames, TypeOK,
              Context
        <5> QED BY <5>2, <5>3
      <4> QED BY <4>1 DEF Frames
    <3>7. depth = 2 => irqnr'[1] = irqnr[1]
      BY <3>1 DEF TypeOK, Context
    <3> QED BY <3>2, <3>4, <3>5, <3>6, <3>7 DEF ActiveInv, Frames
  <2>7. RequestInv'
    BY <2>0 DEF TypeOK, Context, StackInv, Frames, FrameLabel, ThreadLabel,
        RequestInv, Requesting
  <2> QED BY <2>1, <2>2, <2>3, <2>4, <2>5, <2>6, <2>7
<1>19. CASE gic_read_iar_special
  <2> USE <1>19 DEF IInv, gic_read_iar_special, NoIrq, Spurious, At, Goto,
      vars, descVars, cpuVars, frameVars, threadVars, gicVars
  <2>0. depth > 0
    BY DEF TypeOK, Context, StackInv, ThreadLabel
  <2>1. TypeOK'
    BY <2>0 DEF TypeOK, Label, ThreadLabel, FrameLabel
  <2>2. StackInv'
    BY <2>0, "exit" \in FrameLabel, TopStep DEF FrameLabel, IInv
  <2>3. MaskInv'
    BY <2>0 DEF TypeOK, Context, StackInv, MaskInv, Masked, Frames, ReturnInv,
        BelowIs, ThreadLabel, FrameLabel
  <2>4. ReturnInv'
    BY <2>0, "exit" \in FrameLabel, TopStep DEF FrameLabel, IInv
  <2>5. NestInv'
    BY <2>0 DEF TypeOK, Context, StackInv, NestInv, Counted, Frames,
        ReturnInv, BelowIs, ThreadLabel, FrameLabel, MaskInv
  <2>6. ActiveInv'
    <3>1. \A d \in Frames : Acked(d) => irqnr'[d] = irqnr[d]
      BY DEF Acked, TypeOK, Context, Frames
    <3> QED BY <2>0, <3>1, "exit" \in FrameLabel, ActiveStable DEF Acked,
        FrameLabel
  <2>7. RequestInv'
    BY <2>0 DEF TypeOK, Context, StackInv, Frames, FrameLabel, ThreadLabel,
        RequestInv, Requesting
  <2> QED BY <2>1, <2>2, <2>3, <2>4, <2>5, <2>6, <2>7
<1>20. CASE generic_handle_irq
  <2> USE <1>20 DEF IInv, generic_handle_irq, At, Goto, vars, descVars,
      cpuVars, frameVars, threadVars, gicVars
  <2>0. depth > 0
    BY DEF TypeOK, Context, StackInv, ThreadLabel
  <2>1. TypeOK'
    <3>1. PICK l \in {"open", "eoi"} : pc' = [pc EXCEPT ![depth] = l]
      BY ZenonT(60)
    <3>2. pc' \in [Context -> Label]
      BY <2>0, <3>1, l \in Label DEF TypeOK, Label, FrameLabel
    <3>3. pending' = pending \/ pending' = pending \ {irqnr[depth]}
      OBVIOUS
    <3>4. daif' = FALSE \/ daif' = daif
      OBVIOUS
    <3>5. pending' \subseteq Line /\ daif' \in BOOLEAN
      BY ZenonT(60), <3>3, <3>4 DEF TypeOK
    <3>6. UNCHANGED <<descVars, interrupt_nest, elr, spsr, depth, frameVars,
                      threadVars, enabled, active, raises>>
      OBVIOUS
    <3> HIDE <1>20 DEF generic_handle_irq, Goto, At
    <3> QED BY <3>2, <3>5, <3>6 DEF TypeOK
  <2>2. StackInv'
    <3>1. PICK l \in {"open", "eoi"} : pc' = [pc EXCEPT ![depth] = l]
      BY ZenonT(60)
    <3> QED BY ZenonT(60), <2>0, <3>1, l \in FrameLabel, TopStep DEF FrameLabel
  <2>3. MaskInv'
    <3>1. daif
      BY <2>0 DEF MaskInv
    <3>2. daif' <=> pc'[depth] # "open"
      BY <3>1 DEF TypeOK, Context
    <3>3. pc'[0] = pc[0]
      BY <2>0 DEF TypeOK, Context
    <3> QED BY <2>0, <3>2, <3>3 DEF MaskInv
  <2>4. ReturnInv'
    <3>1. PICK l \in {"open", "eoi"} : pc' = [pc EXCEPT ![depth] = l]
      BY ZenonT(60)
    <3> QED BY ZenonT(60), <2>0, <3>1, l \in FrameLabel, TopStep DEF FrameLabel
  <2>5. NestInv'
    BY <2>0 DEF TypeOK, Context, StackInv, NestInv, Counted, Frames,
        ReturnInv, BelowIs, ThreadLabel, FrameLabel, MaskInv
  <2>6. ActiveInv'
    <3>1. PICK l \in {"open", "eoi"} : pc' = [pc EXCEPT ![depth] = l]
      BY ZenonT(60)
    <3> QED BY ZenonT(60), <2>0, <3>1, l \in FrameLabel, ActiveStable
         DEF Acked, FrameLabel
  <2>7. RequestInv'
    BY <2>0 DEF TypeOK, Context, StackInv, Frames, FrameLabel, ThreadLabel,
        RequestInv, Requesting
  <2> QED BY <2>1, <2>2, <2>3, <2>4, <2>5, <2>6, <2>7
<1>21. CASE HandlerReturn
  <2> USE <1>21 DEF IInv, HandlerReturn, At, Goto, vars, descVars, cpuVars,
      frameVars, threadVars, gicVars
  <2>0. depth > 0
    BY DEF TypeOK, Context, StackInv, ThreadLabel
  <2>1. TypeOK'
    BY <2>0 DEF TypeOK, Label, ThreadLabel, FrameLabel
  <2>2. StackInv'
    BY <2>0, "eoi" \in FrameLabel, TopStep DEF FrameLabel, IInv
  <2>3. MaskInv'
    <3>1. pc'[depth] = "eoi" /\ pc'[0] = pc[0]
      BY <2>0 DEF TypeOK, Context
    <3> QED BY <2>0, <3>1 DEF MaskInv
  <2>4. ReturnInv'
    BY <2>0, "eoi" \in FrameLabel, TopStep DEF FrameLabel, IInv
  <2>5. NestInv'
    BY <2>0 DEF TypeOK, Context, StackInv, NestInv, Counted, Frames,
        ReturnInv, BelowIs, ThreadLabel, FrameLabel, MaskInv
  <2>6. ActiveInv'
    BY <2>0, "eoi" \in FrameLabel, ActiveStable DEF Acked, FrameLabel
  <2>7. RequestInv'
    BY <2>0 DEF TypeOK, Context, StackInv, Frames, FrameLabel, ThreadLabel,
        RequestInv, Requesting
  <2> QED BY <2>1, <2>2, <2>3, <2>4, <2>5, <2>6, <2>7
<1>22. CASE gicv3_eoi_irq
  <2> USE <1>22 DEF IInv, gicv3_eoi_irq, At, Goto, vars, descVars, cpuVars,
      frameVars, threadVars, gicVars
  <2>0. depth > 0
    BY DEF TypeOK, Context, StackInv, ThreadLabel
  <2>1. TypeOK'
    BY ZenonT(60), <2>0 DEF TypeOK, Label, ThreadLabel, FrameLabel
  <2>2. StackInv'
    BY <2>0, "exit" \in FrameLabel, TopStep DEF FrameLabel, IInv
  <2>3. MaskInv'
    BY <2>0 DEF TypeOK, Context, StackInv, MaskInv, Masked, Frames, ReturnInv,
        BelowIs, ThreadLabel, FrameLabel
  <2>4. ReturnInv'
    BY <2>0, "exit" \in FrameLabel, TopStep DEF FrameLabel, IInv
  <2>5. NestInv'
    BY <2>0 DEF TypeOK, Context, StackInv, NestInv, Counted, Frames,
        ReturnInv, BelowIs, ThreadLabel, FrameLabel, MaskInv
  <2>6. ActiveInv'
    <3>1. \A d \in Frames : Acked(d) /\ (Acked(d)' <=> d # depth)
      BY <2>0 DEF StackInv, Acked, Frames, TypeOK, Context
    <3>2. \A d \in Frames : d # depth => irqnr[d] # irqnr[depth]
      BY <2>0, <3>1, PrioValues DEF ActiveInv, Frames, TypeOK, Context
    <3> QED BY <3>1, <3>2 DEF ActiveInv, Frames
  <2>7. RequestInv'
    BY <2>0 DEF TypeOK, Context, StackInv, Frames, FrameLabel, ThreadLabel,
        RequestInv, Requesting
  <2> QED BY <2>1, <2>2, <2>3, <2>4, <2>5, <2>6, <2>7
<1>23. CASE irq_exit
  <2> USE <1>23 DEF IInv, irq_exit, At, Goto, vars, descVars, cpuVars,
      frameVars, threadVars, gicVars
  <2>0. depth > 0
    BY DEF TypeOK, Context, StackInv, ThreadLabel
  <2>1. TypeOK'
    BY <2>0 DEF TypeOK, Label, ThreadLabel, FrameLabel
  <2>2. StackInv'
    BY <2>0, "exit_st" \in FrameLabel, TopStep DEF FrameLabel, IInv
  <2>3. MaskInv'
    BY <2>0 DEF TypeOK, Context, StackInv, MaskInv, Masked, Frames, ReturnInv,
        BelowIs, ThreadLabel, FrameLabel
  <2>4. ReturnInv'
    BY <2>0, "exit_st" \in FrameLabel, TopStep DEF FrameLabel, IInv
  <2>5. NestInv'
    BY <2>0 DEF TypeOK, Context, StackInv, NestInv, Counted, Frames,
        ReturnInv, BelowIs, ThreadLabel, FrameLabel, MaskInv
  <2>6. ActiveInv'
    BY <2>0, "exit_st" \in FrameLabel, ActiveStable DEF Acked, FrameLabel
  <2>7. RequestInv'
    BY <2>0 DEF TypeOK, Context, StackInv, Frames, FrameLabel, ThreadLabel,
        RequestInv, Requesting
  <2> QED BY <2>1, <2>2, <2>3, <2>4, <2>5, <2>6, <2>7
<1>24. CASE irq_exit_store
  <2> USE <1>24 DEF IInv, irq_exit_store, At, Goto, vars, descVars, cpuVars,
      frameVars, threadVars, gicVars
  <2>0. depth > 0
    BY DEF TypeOK, Context, StackInv, ThreadLabel
  <2>1. TypeOK'
    <3>1. interrupt_nest' \in Nat
      BY <2>0 DEF NestInv, TypeOK, Context
    <3>2. pc' \in [Context -> Label]
      BY DEF TypeOK, Label, FrameLabel
    <3> QED BY <3>1, <3>2 DEF TypeOK
  <2>2. StackInv'
    BY <2>0, "restore" \in FrameLabel, TopStep DEF FrameLabel, IInv
  <2>3. MaskInv'
    BY <2>0 DEF TypeOK, Context, StackInv, MaskInv, Masked, Frames, ReturnInv,
        BelowIs, ThreadLabel, FrameLabel
  <2>4. ReturnInv'
    BY <2>0, "restore" \in FrameLabel, TopStep DEF FrameLabel, IInv
  <2>5. NestInv'
    BY <2>0 DEF TypeOK, Context, StackInv, NestInv, Counted, Frames,
        ReturnInv, BelowIs, ThreadLabel, FrameLabel, MaskInv
  <2>6. ActiveInv'
    BY <2>0, "restore" \in FrameLabel, ActiveStable DEF Acked, FrameLabel
  <2>7. RequestInv'
    BY <2>0 DEF TypeOK, Context, StackInv, Frames, FrameLabel, ThreadLabel,
        RequestInv, Requesting
  <2> QED BY <2>1, <2>2, <2>3, <2>4, <2>5, <2>6, <2>7
<1>25. CASE restore_context
  <2> USE <1>25 DEF IInv, restore_context, At, Goto, vars, descVars, cpuVars,
      frameVars, threadVars, gicVars
  <2>0. depth > 0
    BY DEF TypeOK, Context, StackInv, ThreadLabel
  <2>1. TypeOK'
    BY <2>0 DEF TypeOK, Label, ThreadLabel, FrameLabel
  <2>2. StackInv'
    BY <2>0 DEF TypeOK, Context, StackInv, MaskInv, ReturnInv, BelowIs,
        Frames, ThreadLabel, FrameLabel
  <2>3. MaskInv'
    BY <2>0 DEF TypeOK, Context, StackInv, MaskInv, Masked, Frames, ReturnInv,
        BelowIs, ThreadLabel, FrameLabel
  <2>4. ReturnInv'
    BY <2>0 DEF TypeOK, Context, Return, StackInv, ReturnInv, BelowIs, Frames,
        ThreadLabel, FrameLabel, MaskInv
  <2>5. NestInv'
    BY <2>0 DEF TypeOK, Context, StackInv, NestInv, Counted, Frames,
        ReturnInv, BelowIs, ThreadLabel, FrameLabel, MaskInv
  <2>6. ActiveInv'
    BY <2>0, "eret" \in FrameLabel, ActiveStable DEF Acked, FrameLabel
  <2>7. RequestInv'
    BY <2>0 DEF TypeOK, Context, StackInv, Frames, FrameLabel, ThreadLabel,
        RequestInv, Requesting
  <2> QED BY <2>1, <2>2, <2>3, <2>4, <2>5, <2>6, <2>7
<1>26. CASE eret
  <2> USE <1>26 DEF IInv, eret, NoIrq, Spurious, At, Goto, vars, descVars,
      cpuVars, frameVars, threadVars, gicVars
  <2>0. depth > 0
    BY DEF TypeOK, Context, StackInv, ThreadLabel
  <2>a. /\ depth' = depth - 1 /\ depth' \in Context
        /\ pc'[depth'] = pc[depth'] /\ ~daif'
    BY <2>0 DEF ReturnInv, BelowIs, Frames, TypeOK, Context
  <2>b. \A d \in Context \ {depth} : pc'[d] = pc[d] /\ irqnr'[d] = irqnr[d]
    BY <2>a, <2>0 DEF ReturnInv, BelowIs, Frames, TypeOK, Context
  <2>c. /\ Frames' = Frames \ {depth}
        /\ \A d \in Frames' : d \in Context /\ d # depth /\ d < depth
    BY SMTT(30), <2>a, <2>0 DEF Frames, TypeOK, Context
  <2>1. TypeOK'
    <3>0. 0 \in Context
      BY DEF Context
    <3>1. elr = <<depth', pc[depth']>> /\ pc[depth'] \in Label
      BY <2>0, <2>a DEF ReturnInv, BelowIs, Frames, TypeOK
    <3>2. pc' \in [Context -> Label] /\ elr' \in Return
      BY <2>a, <3>1, NoReturnType DEF TypeOK, Label
    <3>3. daif' \in BOOLEAN /\ spsr' \in BOOLEAN
      <4>1. daif' = spsr /\ spsr' = FALSE
        OBVIOUS
      <4> HIDE <1>26 DEF eret
      <4> QED BY ZenonT(60), <4>1 DEF TypeOK
    <3>4. /\ irqnr' \in [Context -> Line \cup Spurious]
          /\ reg' \in [Context -> Int]
      BY DEF TypeOK
    <3>5. saved' \in [Context -> Return \X BOOLEAN]
      <4>1. <<NoReturn, FALSE>> \in Return \X BOOLEAN
        BY ZenonT(60), NoReturnType
      <4>2. saved' = [saved EXCEPT ![depth] = <<NoReturn, FALSE>>]
        OBVIOUS
      <4> HIDE <1>26 DEF eret
      <4> QED BY <4>1, <4>2 DEF TypeOK
    <3>6. UNCHANGED <<descVars, interrupt_nest, threadVars, gicVars>>
      OBVIOUS
    <3> HIDE <1>26 DEF eret
    <3> QED BY <2>a, <3>2, <3>3, <3>4, <3>5, <3>6 DEF TypeOK
  <2>d. UNCHANGED <<descVars, interrupt_nest, threadVars, gicVars>> /\
      pc[depth] = "eret"
    OBVIOUS
  <2>e. saved' = [saved EXCEPT ![depth] = <<NoReturn, FALSE>>]
    OBVIOUS
  <2> HIDE <1>26 DEF eret
  <2>2. StackInv'
    <3>1. \A d \in Frames' : pc'[d] = pc[d] /\ pc[d] = "open"
      BY <2>b, <2>c DEF StackInv
    <3>2. pc'[0] = pc[0]
      BY <2>0, <2>b DEF TypeOK, Context
    <3> QED BY <3>1, <3>2 DEF StackInv, FrameLabel
  <2>3. MaskInv'
    <3>1. pc'[0] = pc[0]
      BY <2>0, <2>b DEF TypeOK, Context
    <3>2. depth' > 0 => pc'[depth'] = "open"
      BY <2>a, <2>c DEF StackInv, Frames, Context
    <3>3. ~closed /\ pc[0] \in {"run", "req_data", "req_unmask", "save_mask"}
      BY <2>0 DEF MaskInv
    <3> QED BY <2>a, <2>d, <3>1, <3>2, <3>3 DEF MaskInv, Masked
  <2>4. ReturnInv'
    <3>1. depth' > 0 => pc'[depth'] = "open"
      BY <2>a, <2>c DEF StackInv, Frames, Context
    <3>2. \A d \in Frames' : /\ pc'[d] = pc[d] /\ pc[d] = "open"
                            /\ pc'[d - 1] = pc[d - 1] /\ saved'[d] = saved[d]
      BY <2>b, <2>c, <2>e DEF StackInv, Frames, TypeOK, Context
    <3>3. ASSUME NEW d \in Frames' PROVE BelowIs(d, saved[d][1], saved[d][2])'
      BY <2>c, <3>2 DEF ReturnInv, BelowIs
    <3> QED BY <3>1, <3>3 DEF ReturnInv
  <2>5. NestInv'
    <3>1. depth' > 0 => pc'[depth'] = "open"
      BY <2>a, <2>c DEF StackInv, Frames, Context
    <3>2. interrupt_nest' = depth - 1
      <4>1. ~Counted(depth)
        BY <2>d DEF Counted
      <4> QED BY <2>0, <2>d, <4>1 DEF NestInv
    <3> QED BY <2>a, <3>1, <3>2 DEF NestInv, Counted, TypeOK, Context
  <2>6. ActiveInv'
    <3>1. ASSUME NEW d \in Frames'
          PROVE  (Acked(d)' <=> Acked(d)) /\ irqnr'[d] = irqnr[d] /\ d \in
              Frames
      BY <2>b, <2>c DEF Acked
    <3>2. ~Acked(depth) /\ active' = active
      BY <2>d DEF Acked
    <3>3. depth' < 2
      BY <2>a DEF ActiveInv, TypeOK, Context
    <3>4. ASSUME NEW i \in active
          PROVE  \E d \in Frames' : Acked(d)' /\ irqnr'[d] = i
      <4>1. PICK d \in Frames : Acked(d) /\ irqnr[d] = i
        BY DEF ActiveInv
      <4> QED BY <2>c, <3>1, <3>2, <4>1
    <3> QED BY <2>a, <3>1, <3>2, <3>3, <3>4 DEF ActiveInv, Context
  <2>7. RequestInv'
    <3>1. pc'[0] = pc[0]
      BY <2>0, <2>b DEF TypeOK, Context
    <3> QED BY <2>d, <3>1 DEF RequestInv, Requesting
  <2> QED BY <2>1, <2>2, <2>3, <2>4, <2>5, <2>6, <2>7
<1>27. ASSUME NEW i \in Line, Raise(i) PROVE IInv'
  <2> USE <1>27 DEF IInv, Raise, At, Goto, vars, descVars, cpuVars, frameVars,
      threadVars, gicVars
  <2>1. TypeOK'
    BY DEF TypeOK
  <2>2. StackInv'
    BY DEF StackInv, Frames
  <2>3. MaskInv'
    BY DEF MaskInv, Masked, TypeOK
  <2>4. ReturnInv'
    BY DEF ReturnInv, BelowIs, Frames
  <2>5. NestInv'
    BY DEF NestInv, Counted
  <2>6. ActiveInv'
    BY DEF ActiveInv, Acked, Frames
  <2>7. RequestInv'
    BY DEF TypeOK, Context, StackInv, Frames, FrameLabel, ThreadLabel,
        RequestInv, Requesting
  <2> QED BY <2>1, <2>2, <2>3, <2>4, <2>5, <2>6, <2>7
<1>28. ASSUME NEW i \in Line, Withdraw(i) PROVE IInv'
  <2> USE <1>28 DEF IInv, Withdraw, At, Goto, vars, descVars, cpuVars,
      frameVars, threadVars, gicVars
  <2>1. TypeOK'
    BY DEF TypeOK
  <2>2. StackInv'
    BY DEF StackInv, Frames
  <2>3. MaskInv'
    BY DEF MaskInv, Masked, TypeOK
  <2>4. ReturnInv'
    BY DEF ReturnInv, BelowIs, Frames
  <2>5. NestInv'
    BY DEF NestInv, Counted
  <2>6. ActiveInv'
    BY DEF ActiveInv, Acked, Frames
  <2>7. RequestInv'
    BY DEF TypeOK, Context, StackInv, Frames, FrameLabel, ThreadLabel,
        RequestInv, Requesting
  <2> QED BY <2>1, <2>2, <2>3, <2>4, <2>5, <2>6, <2>7
<1>29. CASE UNCHANGED vars
  <2> USE <1>29 DEF IInv, At, Goto, vars, descVars, cpuVars, frameVars,
      threadVars, gicVars
  <2>1. TypeOK'
    BY DEF TypeOK
  <2>2. StackInv'
    BY DEF StackInv, Frames
  <2>3. MaskInv'
    BY DEF MaskInv, Masked, TypeOK
  <2>4. ReturnInv'
    BY DEF ReturnInv, BelowIs, Frames
  <2>5. NestInv'
    BY DEF NestInv, Counted
  <2>6. ActiveInv'
    BY DEF ActiveInv, Acked, Frames
  <2>7. RequestInv'
    BY DEF TypeOK, Context, StackInv, Frames, FrameLabel, ThreadLabel,
        RequestInv, Requesting
  <2> QED BY <2>1, <2>2, <2>3, <2>4, <2>5, <2>6, <2>7
<1> QED BY <1>1, <1>2, <1>3, <1>4, <1>5, <1>6, <1>7, <1>8, <1>9, <1>10, <1>11,
    <1>12, <1>13, <1>14, <1>15, <1>16, <1>17, <1>18, <1>19, <1>20, <1>21,
    <1>22, <1>23, <1>24, <1>25, <1>26, <1>27, <1>28, <1>29
       DEF Next, DriverInit, Call, InCall, LocalIrq, IrqPath, Device

\* Boot establishes it: no frame, IRQs masked, nothing active.
LEMMA InitIInv == ASSUME Init PROVE IInv
<1> USE LineAssumption, HandlerAssumption, BoundAssumption DEF Init
<1>1. 0 \in Context /\ Frames = {} /\ NoIrq \in Spurious
  BY DEF Context, Frames, NoIrq, Spurious
<1>2. TypeOK
  <2>1. irq_desc \in [Line -> Desc]
    BY DEF Desc
  <2>2. pc \in [Context -> Label]
    BY DEF Label, ThreadLabel
  <2>3. req \in Request
    BY DEF Request, NoRequest
  <2>4. saved \in [Context -> Return \X BOOLEAN]
    BY ZenonT(60), NoReturnType
  <2>5. irqnr \in [Context -> Line \cup Spurious] /\ reg \in [Context -> Int]
    BY <1>1
  <2>6. raises \in [Line -> 0 .. MaxRaise] /\ enabled \subseteq Line
    OBVIOUS
  <2>7. elr \in Return /\ depth \in Context
    BY <1>1, NoReturnType
  <2> QED BY <2>1, <2>2, <2>3, <2>4, <2>5, <2>6, <2>7 DEF TypeOK
<1>3. pc[0] = "set_irq_chip"
  BY <1>1
<1>4. StackInv /\ MaskInv /\ ReturnInv /\ NestInv
  BY <1>1, <1>3
     DEF StackInv, MaskInv, Masked, ReturnInv, NestInv, ThreadLabel
<1>5. ActiveInv
  BY <1>1 DEF ActiveInv
<1>6. RequestInv
  BY <1>3 DEF RequestInv, Requesting
<1> QED BY <1>2, <1>4, <1>5, <1>6 DEF IInv

\* The inductive invariant holds in every behaviour of the interrupt path.
THEOREM InductiveInvariant == Spec => []IInv
BY InitIInv, NextIInv, PTL DEF Spec

-----------------------------------------------------------------------------
(* What follows from it                                                    *)

\* Type correctness, and interrupt_nest never wraps below zero.
THEOREM TypeCorrect == Spec => []TypeOK
<1>1. IInv => TypeOK
  BY DEF IInv
<1> QED BY <1>1, InductiveInvariant, PTL

\* vector.S: eret always resumes the interrupted context where the IRQ struck.
THEOREM ReturnAddress == Spec => []ReturnAddressIntact
<1>1. IInv => ReturnAddressIntact
  BY DEF IInv, TypeOK, Context, StackInv, ThreadLabel, ReturnInv, BelowIs,
         ReturnAddressIntact
<1> QED BY <1>1, InductiveInvariant, PTL

\* interrupt.c: interrupt_nest is exact for the thread and for every handler.
THEOREM NestExact == Spec => []NestCounts
<1>1. IInv => NestCounts
  BY DEF IInv, TypeOK, Context, StackInv, ThreadLabel, NestInv, Counted,
         NestCounts
<1> QED BY <1>1, InductiveInvariant, PTL

\* gicv3.c: end of interrupt comes in reverse order of acknowledgement, and
\* the thread never runs with a line left active.
THEOREM EoiInOrder == Spec => []EoiDiscipline
<1>1. ASSUME IInv PROVE depth = 0 => active = {}
  BY <1>1 DEF IInv, ActiveInv, Frames
<1>2. ASSUME IInv, pc[depth] = "eoi"
      PROVE  /\ irqnr[depth] \in active
             /\ \A j \in active \ {irqnr[depth]} : Prio(irqnr[depth]) < Prio(j)
  <2>1. depth \in Frames /\ \A d \in Frames : d <= depth /\ d \in Nat
    BY <1>2 DEF IInv, TypeOK, Context, StackInv, ThreadLabel, Frames
  <2>2. \A d \in Frames : Acked(d)
    BY <1>2, <2>1 DEF IInv, StackInv, Acked
  <2>3. ASSUME NEW j \in active \ {irqnr[depth]}
        PROVE  Prio(irqnr[depth]) < Prio(j)
    <3>1. PICK d \in Frames : irqnr[d] = j
      BY <1>2 DEF IInv, ActiveInv
    <3>2. d < depth
      BY <1>2, <2>1, <2>3, <3>1 DEF IInv, TypeOK, Context
    <3> QED BY <1>2, <2>1, <2>2, <3>1, <3>2 DEF IInv, ActiveInv
  <2> QED BY <1>2, <2>1, <2>2, <2>3 DEF IInv, ActiveInv
<1>3. IInv => EoiDiscipline
  BY <1>1, <1>2 DEF EoiDiscipline
<1> QED BY <1>3, InductiveInvariant, PTL

\* Two priorities: never more than two frames on the one kernel stack.
THEOREM StackBounded == Spec => []NestingBounded
<1>1. IInv => NestingBounded
  BY DEF IInv, ActiveInv, NestingBounded
<1> QED BY <1>1, InductiveInvariant, PTL

\* irqflags.h: no IRQ is taken where the thread asked for none.
THEOREM MaskRespected == Spec => []ThreadMaskRespected
<1>1. IInv => ThreadMaskRespected
  BY DEF IInv, TypeOK, MaskInv, Masked, ThreadMaskRespected, Thread, At
<1> QED BY <1>1, InductiveInvariant, PTL

\* request_irq: a handler runs with its own data, except when its line was
\* already enabled while it was registered.
THEOREM OwnData == Spec => []NoForeignData
<1>1. ASSUME IInv, pc[depth] = "handle"
      PROVE  /\ irqnr[depth] \in active
             /\ irqnr[depth] \in Line
  <2>1. depth \in Frames
    BY <1>1 DEF IInv, TypeOK, Context, StackInv, ThreadLabel, Frames
  <2> QED BY <1>1, <2>1 DEF IInv, TypeOK, ActiveInv, Acked
<1>2. IInv => NoForeignData
  BY <1>1 DEF IInv, RequestInv, Requesting, NoForeignData
<1> QED BY <1>2, InductiveInvariant, PTL

-----------------------------------------------------------------------------
(* The interrupt path implements IrqService                                *)

\* The lines in service depend on the frames of the handlers only, so a step
\* that keeps their count and lines keeps the mapped variable.
LEMMA ServingStable ==
    ASSUME InService \in Int, InService' = InService,
           \A d \in 1 .. InService : irqnr'[d] = irqnr[d]
    PROVE  Serving' = Serving
BY DEF Serving

\* The thread runs with no line in service.
LEMMA ThreadIdle == ASSUME IInv, depth = 0
                    PROVE  InService = 0 /\ Serving = <<>>
BY DEF InService, Serving

\* The other steps of the running frame keep the lines in service.
LEMMA FrameStable ==
    ASSUME IInv, depth > 0, NEW l \in FrameLabel,
           pc' = [pc EXCEPT ![depth] = l], UNCHANGED <<depth, closed>>,
           Acked(depth) <=> l \in {"handle", "open", "eoi"},
           \A d \in Context : irqnr'[d] = irqnr[d] \/ (d = depth /\ ~Acked(d))
    PROVE  UNCHANGED <<Serving, Masked>>
<1> USE BoundAssumption DEF IInv, TypeOK, Context
<1>1. Acked(depth)' <=> Acked(depth)
  BY DEF Acked
<1>2. InService' = InService /\ InService \in 0 .. depth
  BY <1>1 DEF InService
<1>3. \A d \in 1 .. InService : irqnr'[d] = irqnr[d]
  BY <1>2 DEF InService
<1>4. pc'[0] = pc[0]
  OBVIOUS
<1> QED BY <1>2, <1>3, <1>4, ServingStable DEF Masked

\* A step of the thread serves nothing and completes nothing: at most it
\* changes the mask that the abstract service sees.
LEMMA ThreadStable ==
    ASSUME IInv, depth = 0, UNCHANGED <<depth, irqnr>>
    PROVE  Service!Next \/ UNCHANGED <<Serving, Masked>>
<1>1. Serving = <<>> /\ Serving' = <<>>
  BY DEF InService, Serving
<1>2. Masked' \in BOOLEAN
  BY DEF Masked
<1> QED BY <1>1, <1>2 DEF Service!Next, Service!SetMask

\* Every step of the path is a step of IrqService, or none.
LEMMA StepService ==
    ASSUME IInv, [Next]_vars
    PROVE  [Service!Next]_<<Serving, Masked>>
<1> USE LineAssumption, BoundAssumption
<1>1. CASE DriverInit \/ Call \/ InCall \/ LocalIrq
  <2>1. depth = 0 /\ UNCHANGED <<depth, irqnr>>
    BY <1>1 DEF DriverInit, Call, InCall, LocalIrq, set_irq_chip,
       set_handle_irq, gicv3_hw_init, mask_irq, unmask_irq, request_irq,
       request_irq_data, _setup_irq, local_irq_save_mask, local_irq_restore,
       local_irq_enable, local_irq_disable, local_irq_save, Thread, frameVars
  <2> QED BY <2>1, ThreadStable
<1>2. CASE TakeIrq
  <2>1. /\ depth' = depth + 1 /\ depth \in Nat /\ UNCHANGED <<irqnr, closed>>
        /\ pc'[depth'] = "save" /\ \A d \in 0 .. depth : pc'[d] = pc[d]
    BY <1>2 DEF TakeIrq, IInv, TypeOK, Context, frameVars, threadVars
  <2>2. depth > 0 => Acked(depth)
    BY <1>2 DEF TakeIrq, IInv, MaskInv, Acked
  <2>3. ~Acked(depth)'
    BY <2>1 DEF Acked
  <2>4. InService = depth /\ InService' = depth
    BY <2>1, <2>2, <2>3 DEF InService
  <2> QED BY <2>1, <2>4, ServingStable DEF Masked
<1>3. ASSUME NEW i \in Line, gic_read_iar(i)
      PROVE  Service!Next
  <2>1. /\ depth \in Nat \ {0} /\ ~Acked(depth) /\ UNCHANGED <<depth, closed>>
        /\ depth \in Context
        /\ irqnr' = [irqnr EXCEPT ![depth] = i]
        /\ irqnr \in [Context -> Line \cup Spurious]
        /\ pc' = [pc EXCEPT ![depth] = "handle"] /\ pc \in [Context -> Label]
    BY <1>3 DEF gic_read_iar, At, Goto, Acked, threadVars, IInv, TypeOK,
       Context, StackInv, ThreadLabel
  <2>2. pc'[depth] = "handle" /\ pc'[0] = pc[0]
    BY <2>1 DEF Context
  <2>3. Acked(depth)'
    BY <2>1, <2>2 DEF Acked
  <2>4. InService = depth - 1 /\ InService' = depth
    BY <2>1, <2>3 DEF InService
  <2>5. \A d \in 1 .. depth : d \in Context
    BY <2>1 DEF Context
  <2>6. \A d \in 1 .. depth - 1 : irqnr[d] \in active
    BY <2>1, <2>5 DEF IInv, StackInv, ActiveInv, Frames, Acked
  <2>7. \A j \in active : Prio(i) < Prio(j)
    BY <1>3 DEF gic_read_iar, Highest, Presented
  <2>8. Serving \in Seq(Line) /\ Len(Serving) = depth - 1
    <3>1. \A d \in 1 .. depth - 1 : irqnr[d] \in Line
      BY ZenonT(60), <2>6 DEF IInv, TypeOK
    <3> QED BY <2>1, <2>4, <3>1 DEF Serving
  <2>9. Serving' = Append(Serving, i)
    <3>1. Serving' = [d \in 1 .. depth |-> irqnr'[d]]
      BY <2>4 DEF Serving
    <3>2. Serving = [d \in 1 .. depth - 1 |-> irqnr[d]]
      BY <2>4 DEF Serving
    <3>3. \A d \in 1 .. depth : irqnr'[d] = IF d = depth THEN i ELSE irqnr[d]
      BY <2>1, <2>5
    <3> QED BY <2>1, <3>1, <3>2, <3>3
  <2>10. ~Masked /\ ~Masked'
    BY <2>1, <2>2 DEF IInv, MaskInv, Masked
  <2>11. \A d \in 1 .. Len(Serving) : Prio(i) < Prio(Serving[d])
    BY ZenonT(60), <2>4, <2>6, <2>7, <2>8 DEF Serving
  <2> QED BY <2>9, <2>10, <2>11
          DEF Service!Next, Service!Acknowledge, Masked
<1>4. CASE gicv3_eoi_irq
  <2>1. /\ depth \in Nat \ {0} /\ depth \in Context /\ Acked(depth)
        /\ UNCHANGED <<depth, closed, irqnr>>
        /\ pc' = [pc EXCEPT ![depth] = "exit"] /\ pc \in [Context -> Label]
    BY <1>4 DEF gicv3_eoi_irq, At, Goto, Acked, threadVars, frameVars, IInv,
       TypeOK, Context, StackInv, ThreadLabel
  <2>2. pc'[depth] = "exit" /\ pc'[0] = pc[0]
    BY <2>1 DEF Context
  <2>3. ~Acked(depth)'
    BY <2>1, <2>2 DEF Acked
  <2>4. InService = depth /\ InService' = depth - 1
    BY <2>1, <2>3 DEF InService
  <2>5. \A d \in 1 .. depth : irqnr[d] \in Line
    BY ZenonT(60), <2>1 DEF IInv, TypeOK, StackInv, ActiveInv, Frames, Acked
  <2>6. Serving \in Seq(Line) /\ Len(Serving) = depth
    BY <2>1, <2>4, <2>5 DEF Serving
  <2>7. Serving' = SubSeq(Serving, 1, Len(Serving) - 1)
    <3>1. Serving' = [d \in 1 .. depth - 1 |-> irqnr[d]]
      BY <2>1, <2>4 DEF Serving
    <3>2. Serving = [d \in 1 .. depth |-> irqnr[d]]
      BY <2>4 DEF Serving
    <3> QED BY <2>1, <2>6, <3>1, <3>2
  <2>8. Masked' = Masked
    BY <2>1, <2>2 DEF Masked
  <2>9. Serving # <<>>
    BY <2>1, <2>6
  <2> QED BY <2>7, <2>8, <2>9 DEF Service!Next, Service!Complete
<1>5. CASE generic_handle_irq
  <2>1. PICK l \in {"open", "eoi"} : pc' = [pc EXCEPT ![depth] = l]
    BY ZenonT(60), <1>5 DEF generic_handle_irq, Goto
  <2>2. depth > 0 /\ Acked(depth) /\ UNCHANGED <<depth, closed, irqnr>>
    BY <1>5 DEF generic_handle_irq, At, Acked, threadVars, frameVars, IInv,
       TypeOK, Context, StackInv, ThreadLabel
  <2>3. l \in FrameLabel /\ l \in {"handle", "open", "eoi"}
    BY DEF FrameLabel
  <2> QED BY ZenonT(60), <2>1, <2>2, <2>3, FrameStable
<1>6. CASE save_context
  <2>1. depth > 0 /\ pc' = [pc EXCEPT ![depth] = "enter"]
    BY <1>6 DEF save_context, At, Goto, IInv, TypeOK, Context, StackInv,
       ThreadLabel
  <2> QED BY <1>6, <2>1, "enter" \in FrameLabel, FrameStable
          DEF save_context, At, Acked, FrameLabel, threadVars, frameVars
<1>7. CASE irq_enter
  <2>1. depth > 0 /\ pc' = [pc EXCEPT ![depth] = "enter_st"]
    BY <1>7 DEF irq_enter, At, Goto, IInv, TypeOK, Context, StackInv,
       ThreadLabel
  <2> QED BY <1>7, <2>1, "enter_st" \in FrameLabel, FrameStable
          DEF irq_enter, At, Acked, FrameLabel, threadVars, frameVars
<1>8. CASE irq_enter_store
  <2>1. depth > 0 /\ pc' = [pc EXCEPT ![depth] = "iar"]
    BY <1>8 DEF irq_enter_store, At, Goto, IInv, TypeOK, Context, StackInv,
       ThreadLabel
  <2> QED BY <1>8, <2>1, "iar" \in FrameLabel, FrameStable
          DEF irq_enter_store, At, Acked, FrameLabel, threadVars, frameVars
<1>9. CASE gic_read_iar_special
  <2>1. depth > 0 /\ pc' = [pc EXCEPT ![depth] = "exit"]
    BY <1>9 DEF gic_read_iar_special, At, Goto, IInv, TypeOK, Context,
        StackInv,
       ThreadLabel
  <2>2. \A d \in Context : irqnr'[d] = irqnr[d] \/ (d = depth /\ ~Acked(d))
    BY <1>9 DEF gic_read_iar_special, At, Acked, IInv, TypeOK
  <2> QED BY <1>9, <2>1, <2>2, "exit" \in FrameLabel, FrameStable
          DEF gic_read_iar_special, At, Acked, FrameLabel, threadVars
<1>10. CASE HandlerReturn
  <2>1. depth > 0 /\ pc' = [pc EXCEPT ![depth] = "eoi"]
    BY <1>10 DEF HandlerReturn, At, Goto, IInv, TypeOK, Context, StackInv,
       ThreadLabel
  <2> QED BY <1>10, <2>1, "eoi" \in FrameLabel, FrameStable
          DEF HandlerReturn, At, Acked, FrameLabel, threadVars, frameVars
<1>11. CASE irq_exit
  <2>1. depth > 0 /\ pc' = [pc EXCEPT ![depth] = "exit_st"]
    BY <1>11 DEF irq_exit, At, Goto, IInv, TypeOK, Context, StackInv,
       ThreadLabel
  <2> QED BY <1>11, <2>1, "exit_st" \in FrameLabel, FrameStable
          DEF irq_exit, At, Acked, FrameLabel, threadVars, frameVars
<1>12. CASE irq_exit_store
  <2>1. depth > 0 /\ pc' = [pc EXCEPT ![depth] = "restore"]
    BY <1>12 DEF irq_exit_store, At, Goto, IInv, TypeOK, Context, StackInv,
       ThreadLabel
  <2> QED BY <1>12, <2>1, "restore" \in FrameLabel, FrameStable
          DEF irq_exit_store, At, Acked, FrameLabel, threadVars, frameVars
<1>13. CASE restore_context
  <2>1. depth > 0 /\ pc' = [pc EXCEPT ![depth] = "eret"]
    BY <1>13 DEF restore_context, At, Goto, IInv, TypeOK, Context, StackInv,
       ThreadLabel
  <2> QED BY <1>13, <2>1, "eret" \in FrameLabel, FrameStable
          DEF restore_context, At, Acked, FrameLabel, threadVars, frameVars
<1>14. CASE eret
  <2>1. /\ depth \in Nat \ {0} /\ ~Acked(depth) /\ pc[depth] = "eret"
        /\ depth \in Context /\ depth - 1 \in Context
    BY <1>14 DEF eret, At, Acked, IInv, TypeOK, Context, StackInv, ThreadLabel
  <2>2. elr = <<depth - 1, pc[depth - 1]>>
    BY <2>1 DEF IInv, ReturnInv, BelowIs
  <2>3. /\ depth' = depth - 1 /\ closed' = closed
        /\ \A d \in 0 .. depth - 1 : pc'[d] = pc[d] /\ irqnr'[d] = irqnr[d]
    BY <1>14, <2>1, <2>2 DEF eret, threadVars, IInv, TypeOK, Context
  <2>4. depth' > 0 => pc'[depth'] = "open"
    BY <2>1, <2>3 DEF IInv, StackInv, Frames
  <2>5. depth' > 0 => Acked(depth)'
    BY <2>4 DEF Acked
  <2>6. InService = depth - 1 /\ InService' = depth - 1
    BY <2>1, <2>3, <2>5 DEF InService
  <2> QED BY <2>1, <2>3, <2>6, ServingStable DEF Masked
<1>15. CASE Device \/ UNCHANGED vars
  <2>1. UNCHANGED <<depth, pc, irqnr, closed>>
    BY <1>15 DEF Device, Raise, Withdraw, vars, frameVars, threadVars
  <2> QED BY <2>1 DEF InService, Serving, Acked, Masked
<1> QED BY <1>1, <1>2, <1>3, <1>4, <1>5, <1>6, <1>7, <1>8, <1>9, <1>10, <1>11,
    <1>12, <1>13, <1>14, <1>15
       DEF Next, IrqPath

\* vector.S, interrupt.c and gicv3.c together implement IrqService: lines are
\* served strictly nested by priority, and never while the thread masks IRQs.
THEOREM Implementation == Spec => ImplementsService
<1>1. Init => Service!Init
  <2>1. ASSUME Init PROVE Serving = <<>> /\ Masked = TRUE
    BY <2>1, InitIInv, ThreadIdle DEF Init, Masked
  <2> QED BY <2>1 DEF Service!Init
<1>2. IInv /\ [Next]_vars => [Service!Next]_<<Serving, Masked>>
  BY StepService
<1> QED BY <1>1, <1>2, InductiveInvariant, PTL
        DEF Spec, ImplementsService, Service!Spec
=============================================================================
