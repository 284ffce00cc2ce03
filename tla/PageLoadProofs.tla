--------------------------- MODULE PageLoadProofs ---------------------------
(***************************************************************************)
(* Proofs about DocumentStream, ClientRuntime and PageLoad, which runs the *)
(* one behind the other, for pages of any number of chunks, a zlib of any  *)
(* size and any number of pages, fetches and operations.                   *)
(*                                                                         *)
(* WholeOrError is not inductive: what a client may still get waits in up  *)
(* to three queues, and Order says that they and what the client has are   *)
(* one gapless document. Throttled needs Room: what the queues may hold at *)
(* each place of the pump.                                                 *)
(*                                                                         *)
(* ClientInv adds to what the runs check of the runtime who may still      *)
(* touch the page (OneLive), what an operation's stage says of its answer  *)
(* (AnswersKnown), where the address bar may be ahead (AddressBar), whose  *)
(* intent the live operation is (IntentKept) and what each fetch shows     *)
(* (MutationsKept).                                                        *)
(***************************************************************************)
EXTENDS PageLoad, FiniteSetTheorems, TLAPS

-----------------------------------------------------------------------------
(* Streamed documents.                                                     *)

\* Which parts of the pipeline exist.
Plumbing ==
  /\ reply # "streaming" =>
       /\ render = "none" /\ produced = 0 /\ ~gzipped
       /\ docState = "none" /\ docQueue = <<>> /\ ~pulling /\ ~tailSent
       /\ ~cancelled /\ outcome = "waiting" /\ arrived = <<>>
  /\ reply = "streaming" => outcome # "waiting" /\ docState # "none" /\ render # "none"
  /\ ~gzipped => /\ pump = "none" /\ zlibState = "none" /\ pending = <<>>
                 /\ outState = "none" /\ outQueue = <<>>
  /\ gzipped => pump # "none" /\ zlibState # "none" /\ outState # "none"

\* What is known of documentStream.
Source ==
  /\ Len(docQueue) <= 1
  /\ pulling => docQueue = <<>> /\ (docState = "readable" \/ cancelled)
  /\ cancelled => outcome = "left"
  /\ render = "done" <=> tailSent = TRUE
  /\ docState = "closed" => docQueue = <<>>
  /\ docState = "closed" /\ ~cancelled => tailSent /\ render = "done"

\* What is known of zlib and the stream behind it while the client reads.
Sink ==
  outcome = "reading" =>
    /\ Destroyed <=> outState = "errored"
    /\ Destroyed => outQueue = <<>> /\ pending = <<>>
    /\ zlibState = "ended" <=> outState = "closed"
    /\ zlibState \in {"ending", "ended"} => pump = "ended" /\ docState = "closed"
    /\ zlibState = "ended" => pending = <<>>

\* The client's units, the queue of its stream, zlib and the queue of
\* documentStream are the document so far, until an error drops a part.
Order ==
  outcome = "reading" /\ ~Destroyed =>
    /\ Consecutive(outQueue, Len(arrived))
    /\ Consecutive(pending, Len(arrived) + Len(outQueue))
    /\ Consecutive(docQueue, Len(arrived) + Len(outQueue) + Len(pending))
    /\ Len(arrived) + Len(outQueue) + Len(pending) + Len(docQueue)
         = produced + (IF tailSent THEN 2 ELSE 1)

\* The room that the pump has seen, and what react may still add to it.
Room ==
  outcome = "reading" /\ gzipped =>
    /\ ~Destroyed =>
         /\ Len(outQueue) + Len(pending) <= ZlibRoom
         /\ pump \in {"check", "parked"} => Len(pending) < ZlibRoom
         /\ pump \in {"woken", "reading"} => Len(outQueue) + Len(pending) < ZlibRoom
    /\ produced + (IF pump = "reading" THEN 1 ELSE 0)
         <= Len(arrived) + ZlibRoom - 1 + Len(docQueue)

DocumentInv == DocumentTypeOK /\ Plumbing /\ Source /\ Sink /\ Order /\ Room /\ WholeOrError

\* Taking from the front and adding at the back keep a run of units gapless.
LEMMA HeadOfRun ==
  ASSUME NEW s \in Seq(Nat), s # <<>>, NEW k \in Nat, Consecutive(s, k)
  PROVE  /\ Head(s) = k /\ Tail(s) \in Seq(Nat) /\ Len(Tail(s)) = Len(s) - 1
         /\ Consecutive(Tail(s), k + 1)
<1>1. Len(s) \in Nat \ {0} OBVIOUS
<1>2. Head(s) = s[1] OBVIOUS
<1>3. Tail(s) \in Seq(Nat) /\ Len(Tail(s)) = Len(s) - 1 OBVIOUS
<1>4. \A i \in DOMAIN Tail(s) : i + 1 \in DOMAIN s /\ Tail(s)[i] = s[i + 1] OBVIOUS
<1>5. DOMAIN Tail(s) \subseteq Nat BY <1>3
<1>6. 1 \in DOMAIN s BY <1>1
<1>7. Head(s) = k BY <1>2, <1>6 DEF Consecutive
<1>8. ASSUME NEW i \in DOMAIN Tail(s) PROVE Tail(s)[i] = (k + 1) + i - 1
  <2>1. s[i + 1] = k + (i + 1) - 1 BY <1>4 DEF Consecutive
  <2>2. i \in Nat BY <1>5
  <2>3. QED BY <2>1, <2>2, <1>4
<1>9. QED BY <1>3, <1>7, <1>8 DEF Consecutive

LEMMA EndOfRun ==
  ASSUME NEW s \in Seq(Nat), NEW k \in Nat, Consecutive(s, k)
  PROVE  /\ Append(s, k + Len(s)) \in Seq(Nat) /\ Len(Append(s, k + Len(s))) = Len(s) + 1
         /\ Consecutive(Append(s, k + Len(s)), k)
<1>1. Len(s) \in Nat /\ DOMAIN s = 1..Len(s) OBVIOUS
<1>2. QED BY <1>1 DEF Consecutive

\* The type of the flags and that of everything else: the provers treat
\* Boolean variables apart.
Flags ==
  gzipped \in BOOLEAN /\ pulling \in BOOLEAN /\ tailSent \in BOOLEAN /\ cancelled \in BOOLEAN

Places ==
  /\ reply \in {"asked", "redirect", "failed", "streaming"}
  /\ render \in RenderStates
  /\ produced \in 0..MaxChunks
  /\ docState \in StreamStates
  /\ pump \in PumpStates
  /\ zlibState \in {"none", "open", "ending", "ended", "destroyed", "failed"}
  /\ outState \in StreamStates
  /\ outcome \in {"waiting", "reading", "complete", "broken", "left"}

Queues ==
  docQueue \in Seq(Nat) /\ pending \in Seq(Nat) /\ outQueue \in Seq(Nat) /\ arrived \in Seq(Nat)

LEMMA TypesSplit == DocumentTypeOK <=> Flags /\ Places /\ Queues
  BY DEF DocumentTypeOK, Flags, Places, Queues

\* No step leaves the type of a flag.
LEMMA FlagsStep == Flags /\ [DocumentNext]_documentVars => Flags'
<1> SUFFICES ASSUME Flags, [DocumentNext]_documentVars PROVE Flags' OBVIOUS
<1> USE DEF Flags, renderVars, docVars, gzipVars, clientVars
<1>1. CASE Refuse BY <1>1 DEF Refuse
<1>2. ASSUME NEW gz \in BOOLEAN, Respond(gz) PROVE Flags' BY <1>2 DEF Respond
<1>3. CASE Pull BY <1>3 DEF Pull
<1>4. CASE Yield BY <1>4 DEF Yield, Enqueue
<1>5. CASE YieldTail BY <1>5 DEF YieldTail, Enqueue
<1>6. CASE CloseDocument BY <1>6 DEF CloseDocument
<1>7. CASE RenderFails BY <1>7 DEF RenderFails
<1>8. CASE PumpLooks BY <1>8 DEF PumpLooks, Destroyed
<1>9. CASE PumpWakes BY <1>9 DEF PumpWakes, Destroyed
<1>10. CASE PumpWrites BY <1>10 DEF PumpWrites, Destroyed
<1>11. CASE PumpDrains BY <1>11 DEF PumpDrains, Destroyed
<1>12. CASE PumpFinishes BY <1>12 DEF PumpFinishes, Destroyed
<1>13. CASE PumpFails BY <1>13 DEF PumpFails, Destroyed
<1>14. CASE ZlibEmits BY <1>14 DEF ZlibEmits
<1>15. CASE ZlibEnds BY <1>15 DEF ZlibEnds
<1>16. CASE ZlibFails BY <1>16 DEF ZlibFails
<1>17. CASE ReadPlain BY <1>17 DEF ReadPlain
<1>18. CASE ReadGzipped BY <1>18 DEF ReadGzipped, Wake
<1>19. CASE Ends BY <1>19 DEF Ends, EndsWith
<1>20. CASE Leaves BY <1>20 DEF Leaves, CancelGzip, CancelDocument, Wake, Destroyed
<1>21. CASE UNCHANGED documentVars BY <1>21 DEF documentVars
<1>22. QED
  BY <1>1, <1>2, <1>3, <1>4, <1>5, <1>6, <1>7, <1>8, <1>9, <1>10, <1>11, <1>12, <1>13,
     <1>14, <1>15, <1>16, <1>17, <1>18, <1>19, <1>20, <1>21
  DEF DocumentNext, RenderDocument, React, Pump, Zlib, Reads

\* No step leaves the places a part can be in.
LEMMA PlacesStep == Places /\ [DocumentNext]_documentVars => Places'
<1> SUFFICES ASSUME Places, [DocumentNext]_documentVars PROVE Places' OBVIOUS
<1> USE DocumentAssumption DEF Places, renderVars, docVars, gzipVars, clientVars,
          RenderStates, PumpStates, StreamStates
<1>1. CASE Refuse BY <1>1 DEF Refuse
<1>2. ASSUME NEW gz \in BOOLEAN, Respond(gz) PROVE Places' BY <1>2 DEF Respond
<1>3. CASE Pull BY <1>3 DEF Pull
<1>4. CASE Yield BY <1>4 DEF Yield, Enqueue
<1>5. CASE YieldTail BY <1>5 DEF YieldTail, Enqueue
<1>6. CASE CloseDocument BY <1>6 DEF CloseDocument
<1>7. CASE RenderFails BY <1>7 DEF RenderFails
<1>8. CASE PumpLooks BY <1>8 DEF PumpLooks, Destroyed
<1>9. CASE PumpWakes BY <1>9 DEF PumpWakes, Destroyed
<1>10. CASE PumpWrites BY <1>10 DEF PumpWrites, Destroyed
<1>11. CASE PumpDrains BY <1>11 DEF PumpDrains, Destroyed
<1>12. CASE PumpFinishes BY <1>12 DEF PumpFinishes, Destroyed
<1>13. CASE PumpFails BY <1>13 DEF PumpFails, Destroyed
<1>14. CASE ZlibEmits BY <1>14 DEF ZlibEmits
<1>15. CASE ZlibEnds BY <1>15 DEF ZlibEnds
<1>16. CASE ZlibFails BY <1>16 DEF ZlibFails
<1>17. CASE ReadPlain BY <1>17 DEF ReadPlain
<1>18. CASE ReadGzipped BY <1>18 DEF ReadGzipped, Wake
<1>19. CASE Ends BY <1>19 DEF Ends, EndsWith
<1>20. CASE Leaves BY <1>20 DEF Leaves, CancelGzip, CancelDocument, Wake, Destroyed
<1>21. CASE UNCHANGED documentVars BY <1>21 DEF documentVars
<1>22. QED
  BY <1>1, <1>2, <1>3, <1>4, <1>5, <1>6, <1>7, <1>8, <1>9, <1>10, <1>11, <1>12, <1>13,
     <1>14, <1>15, <1>16, <1>17, <1>18, <1>19, <1>20, <1>21
  DEF DocumentNext, RenderDocument, React, Pump, Zlib, Reads

\* What a leaving client may change: queues are discarded, never refilled.
LEMMA LeavingDiscards ==
  ASSUME Leaves
  PROVE  /\ docQueue' \in {docQueue, <<>>}
         /\ pending' \in {pending, <<>>}
         /\ outQueue' \in {outQueue, <<>>}
<1>1. CASE gzipped
  <2>1. CancelGzip BY <1>1 DEF Leaves
  <2>2. CASE outState = "readable" \/ outQueue # <<>>
    <3>1. pending' = <<>> /\ outQueue' = <<>> BY <2>1, <2>2 DEF CancelGzip
    <3>2. CancelDocument BY <2>1, <2>2 DEF CancelGzip
    <3>3. docQueue' \in {docQueue, <<>>} BY <3>2 DEF CancelDocument
    <3>4. QED BY <3>1, <3>3
  <2>3. CASE ~(outState = "readable" \/ outQueue # <<>>)
    BY <2>1, <2>3 DEF CancelGzip, gzipVars
  <2>4. QED BY <2>2, <2>3
<1>2. CASE ~gzipped
  <2>1. CancelDocument /\ UNCHANGED gzipVars BY <1>2 DEF Leaves
  <2>2. docQueue' \in {docQueue, <<>>} BY <2>1 DEF CancelDocument
  <2>3. QED BY <2>1, <2>2 DEF gzipVars
<1>3. QED BY <1>1, <1>2

\* The queues hold units.
LEMMA QueuesStep == Queues /\ Places /\ [DocumentNext]_documentVars => Queues'
<1> SUFFICES ASSUME Queues /\ Places, [DocumentNext]_documentVars PROVE Queues' OBVIOUS
<1> USE DEF Queues, Places, renderVars, docVars, gzipVars, clientVars
<1>1. CASE Refuse BY <1>1 DEF Refuse
<1>2. ASSUME NEW gz \in BOOLEAN, Respond(gz) PROVE Queues' BY <1>2 DEF Respond
<1>3. CASE Pull BY <1>3 DEF Pull
<1>4. CASE Yield BY <1>4 DEF Yield, Enqueue
<1>5. CASE YieldTail BY <1>5 DEF YieldTail, Enqueue
<1>6. CASE CloseDocument BY <1>6 DEF CloseDocument
<1>7. CASE RenderFails BY <1>7 DEF RenderFails
<1>8. CASE PumpLooks BY <1>8 DEF PumpLooks, Destroyed
<1>9. CASE PumpWakes BY <1>9 DEF PumpWakes, Destroyed
<1>10. CASE PumpWrites BY <1>10 DEF PumpWrites, Destroyed
<1>11. CASE PumpDrains BY <1>11 DEF PumpDrains, Destroyed
<1>12. CASE PumpFinishes BY <1>12 DEF PumpFinishes, Destroyed
<1>13. CASE PumpFails
  <2>1. CASE Destroyed BY <1>13, <2>1 DEF PumpFails
  <2>2. CASE ~Destroyed BY <1>13, <2>2 DEF PumpFails
  <2>3. QED BY <2>1, <2>2
<1>14. CASE ZlibEmits BY <1>14 DEF ZlibEmits
<1>15. CASE ZlibEnds BY <1>15 DEF ZlibEnds
<1>16. CASE ZlibFails BY <1>16 DEF ZlibFails
<1>17. CASE ReadPlain BY <1>17 DEF ReadPlain
<1>18. CASE ReadGzipped BY <1>18 DEF ReadGzipped, Wake
<1>19. CASE Ends BY <1>19 DEF Ends, EndsWith
<1>20. CASE Leaves
  <2>1. arrived' = arrived BY <1>20 DEF Leaves
  <2>2. /\ docQueue' = docQueue \/ docQueue' = <<>>
        /\ pending' = pending \/ pending' = <<>>
        /\ outQueue' = outQueue \/ outQueue' = <<>>
    BY <1>20, LeavingDiscards
  <2>3. <<>> \in Seq(Nat) OBVIOUS
  <2>4. docQueue' \in Seq(Nat) BY <2>2, <2>3
  <2>5. pending' \in Seq(Nat) BY <2>2, <2>3
  <2>6. outQueue' \in Seq(Nat) BY <2>2, <2>3
  <2>7. QED BY <2>1, <2>4, <2>5, <2>6
<1>21. CASE UNCHANGED documentVars BY <1>21 DEF documentVars
<1>22. QED
  BY <1>1, <1>2, <1>3, <1>4, <1>5, <1>6, <1>7, <1>8, <1>9, <1>10, <1>11, <1>12, <1>13,
     <1>14, <1>15, <1>16, <1>17, <1>18, <1>19, <1>20, <1>21
  DEF DocumentNext, RenderDocument, React, Pump, Zlib, Reads

LEMMA TypeStep == DocumentTypeOK /\ [DocumentNext]_documentVars => DocumentTypeOK'
  BY TypesSplit, FlagsStep, PlacesStep, QueuesStep DEF DocumentTypeOK, Flags, Places, Queues

\* No part appears before the page streams, and none of gzip without it.
LEMMA PlumbingStep == Plumbing /\ Places /\ [DocumentNext]_documentVars => Plumbing'
<1> SUFFICES ASSUME Plumbing, Places, [DocumentNext]_documentVars PROVE Plumbing' OBVIOUS
<1> USE DEF Plumbing, Places, renderVars, docVars, gzipVars, clientVars
<1>1. CASE Refuse BY <1>1 DEF Refuse
<1>2. ASSUME NEW gz \in BOOLEAN, Respond(gz) PROVE Plumbing' BY <1>2 DEF Respond
<1>3. CASE Pull BY <1>3 DEF Pull
<1>4. CASE Yield BY <1>4 DEF Yield, Enqueue
<1>5. CASE YieldTail BY <1>5 DEF YieldTail, Enqueue
<1>6. CASE CloseDocument BY <1>6 DEF CloseDocument
<1>7. CASE RenderFails BY <1>7 DEF RenderFails
<1>8. CASE PumpLooks BY <1>8 DEF PumpLooks, Destroyed
<1>9. CASE PumpWakes BY <1>9 DEF PumpWakes, Destroyed
<1>10. CASE PumpWrites BY <1>10 DEF PumpWrites, Destroyed
<1>11. CASE PumpDrains BY <1>11 DEF PumpDrains, Destroyed
<1>12. CASE PumpFinishes BY <1>12 DEF PumpFinishes, Destroyed
<1>13. CASE PumpFails BY <1>13 DEF PumpFails, Destroyed
<1>14. CASE ZlibEmits BY <1>14 DEF ZlibEmits
<1>15. CASE ZlibEnds BY <1>15 DEF ZlibEnds
<1>16. CASE ZlibFails BY <1>16 DEF ZlibFails
<1>17. CASE ReadPlain BY <1>17 DEF ReadPlain
<1>18. CASE ReadGzipped BY <1>18 DEF ReadGzipped, Wake
<1>19. CASE Ends BY <1>19 DEF Ends, EndsWith
<1>20. CASE Leaves BY <1>20 DEF Leaves, CancelGzip, CancelDocument, Wake, Destroyed
<1>21. CASE UNCHANGED documentVars BY <1>21 DEF documentVars
<1>22. QED
  BY <1>1, <1>2, <1>3, <1>4, <1>5, <1>6, <1>7, <1>8, <1>9, <1>10, <1>11, <1>12, <1>13,
     <1>14, <1>15, <1>16, <1>17, <1>18, <1>19, <1>20, <1>21
  DEF DocumentNext, RenderDocument, React, Pump, Zlib, Reads

\* documentStream keeps to one unit and one pull.
LEMMA SourceStep == Source /\ Plumbing /\ Places /\ Queues /\ [DocumentNext]_documentVars => Source'
<1> SUFFICES ASSUME Source, Plumbing, Places, Queues, [DocumentNext]_documentVars
             PROVE Source'
    OBVIOUS
<1> USE DEF Source, Plumbing, Places, Queues, renderVars, docVars, gzipVars, clientVars
<1>1. CASE Refuse BY <1>1 DEF Refuse
<1>2. ASSUME NEW gz \in BOOLEAN, Respond(gz) PROVE Source' BY <1>2 DEF Respond
<1>3. CASE Pull BY <1>3 DEF Pull
<1>4. CASE Yield BY <1>4 DEF Yield, Enqueue
<1>5. CASE YieldTail BY <1>5 DEF YieldTail, Enqueue
<1>6. CASE CloseDocument BY <1>6 DEF CloseDocument
<1>7. CASE RenderFails BY <1>7 DEF RenderFails
<1>8. CASE PumpLooks BY <1>8 DEF PumpLooks, Destroyed
<1>9. CASE PumpWakes BY <1>9 DEF PumpWakes, Destroyed
<1>10. CASE PumpWrites BY <1>10 DEF PumpWrites, Destroyed
<1>11. CASE PumpDrains BY <1>11 DEF PumpDrains, Destroyed
<1>12. CASE PumpFinishes BY <1>12 DEF PumpFinishes, Destroyed
<1>13. CASE PumpFails BY <1>13 DEF PumpFails, Destroyed
<1>14. CASE ZlibEmits BY <1>14 DEF ZlibEmits
<1>15. CASE ZlibEnds BY <1>15 DEF ZlibEnds
<1>16. CASE ZlibFails BY <1>16 DEF ZlibFails
<1>17. CASE ReadPlain BY <1>17 DEF ReadPlain
<1>18. CASE ReadGzipped BY <1>18 DEF ReadGzipped, Wake
<1>19. CASE Ends BY <1>19 DEF Ends, EndsWith
<1>20. CASE Leaves BY <1>20 DEF Leaves, CancelGzip, CancelDocument, Wake, Destroyed
<1>21. CASE UNCHANGED documentVars BY <1>21 DEF documentVars
<1>22. QED
  BY <1>1, <1>2, <1>3, <1>4, <1>5, <1>6, <1>7, <1>8, <1>9, <1>10, <1>11, <1>12, <1>13,
     <1>14, <1>15, <1>16, <1>17, <1>18, <1>19, <1>20, <1>21
  DEF DocumentNext, RenderDocument, React, Pump, Zlib, Reads

\* zlib and its stream keep in step.
LEMMA SinkStep == Sink /\ Plumbing /\ Source /\ [DocumentNext]_documentVars => Sink'
<1> SUFFICES ASSUME Sink, Plumbing, Source, [DocumentNext]_documentVars PROVE Sink' OBVIOUS
<1> USE DEF Sink, Destroyed, Plumbing, Source, renderVars, docVars, gzipVars, clientVars
<1>1. CASE Refuse BY <1>1 DEF Refuse
<1>2. ASSUME NEW gz \in BOOLEAN, Respond(gz) PROVE Sink' BY <1>2 DEF Respond
<1>3. CASE Pull BY <1>3 DEF Pull
<1>4. CASE Yield BY <1>4 DEF Yield, Enqueue
<1>5. CASE YieldTail BY <1>5 DEF YieldTail, Enqueue
<1>6. CASE CloseDocument BY <1>6 DEF CloseDocument
<1>7. CASE RenderFails BY <1>7 DEF RenderFails
<1>8. CASE PumpLooks BY <1>8 DEF PumpLooks, Destroyed
<1>9. CASE PumpWakes BY <1>9 DEF PumpWakes, Destroyed
<1>10. CASE PumpWrites BY <1>10 DEF PumpWrites, Destroyed
<1>11. CASE PumpDrains BY <1>11 DEF PumpDrains, Destroyed
<1>12. CASE PumpFinishes BY <1>12 DEF PumpFinishes, Destroyed
<1>13. CASE PumpFails BY <1>13 DEF PumpFails, Destroyed
<1>14. CASE ZlibEmits BY <1>14 DEF ZlibEmits
<1>15. CASE ZlibEnds BY <1>15 DEF ZlibEnds
<1>16. CASE ZlibFails BY <1>16 DEF ZlibFails
<1>17. CASE ReadPlain BY <1>17 DEF ReadPlain
<1>18. CASE ReadGzipped BY <1>18 DEF ReadGzipped, Wake
<1>19. CASE Ends BY <1>19 DEF Ends, EndsWith
<1>20. CASE Leaves BY <1>20 DEF Leaves, CancelGzip, CancelDocument, Wake, Destroyed
<1>21. CASE UNCHANGED documentVars BY <1>21 DEF documentVars
<1>22. QED
  BY <1>1, <1>2, <1>3, <1>4, <1>5, <1>6, <1>7, <1>8, <1>9, <1>10, <1>11, <1>12, <1>13,
     <1>14, <1>15, <1>16, <1>17, <1>18, <1>19, <1>20, <1>21
  DEF DocumentNext, RenderDocument, React, Pump, Zlib, Reads

\* The pump never takes more than there is room for.
LEMMA RoomStep ==
  Room /\ Order /\ Sink /\ Source /\ Plumbing /\ Queues /\ Places /\ [DocumentNext]_documentVars
    => Room'
<1> SUFFICES ASSUME Room, Order, Sink, Source, Plumbing, Queues, Places,
                    [DocumentNext]_documentVars
             PROVE Room'
    OBVIOUS
<1>a. outcome = "reading" /\ ~Destroyed =>
        produced + 1 <= Len(arrived) + Len(outQueue) + Len(pending) + Len(docQueue)
  BY DEF Order, Queues, Places
<1> USE DocumentAssumption DEF Room, Sink, Destroyed, Source, Plumbing, Queues, Places,
                               renderVars, docVars, gzipVars, clientVars
<1>1. CASE Refuse BY <1>1 DEF Refuse
<1>2. ASSUME NEW gz \in BOOLEAN, Respond(gz) PROVE Room' BY <1>2 DEF Respond
<1>3. CASE Pull BY <1>3 DEF Pull
<1>4. CASE Yield BY <1>4 DEF Yield, Enqueue
<1>5. CASE YieldTail BY <1>5 DEF YieldTail, Enqueue
<1>6. CASE CloseDocument BY <1>6 DEF CloseDocument
<1>7. CASE RenderFails BY <1>7 DEF RenderFails
<1>8. CASE PumpLooks
  <2>1. CASE pump' # "reading" BY <1>8, <2>1 DEF PumpLooks, Destroyed
  <2>2. CASE pump' = "reading"
    <3>1. ~Destroyed /\ ~(outState = "readable" /\ outQueue # <<>>)
      BY <1>8, <2>2 DEF PumpLooks
    <3>2. outcome = "reading" /\ gzipped => outState = "readable"
      BY <1>8, <3>1 DEF PumpLooks, StreamStates
    <3>3. outcome = "reading" /\ gzipped => Len(outQueue) = 0 BY <3>1, <3>2
    <3>4. QED BY <1>a, <1>8, <2>2, <3>1, <3>3 DEF PumpLooks
  <2>3. QED BY <2>1, <2>2
<1>9. CASE PumpWakes BY <1>a, <1>9 DEF PumpWakes, Destroyed
<1>10. CASE PumpWrites BY <1>10 DEF PumpWrites, Destroyed
<1>11. CASE PumpDrains BY <1>11 DEF PumpDrains, Destroyed
<1>12. CASE PumpFinishes BY <1>12 DEF PumpFinishes, Destroyed
<1>13. CASE PumpFails BY <1>13 DEF PumpFails, Destroyed
<1>14. CASE ZlibEmits BY <1>14 DEF ZlibEmits
<1>15. CASE ZlibEnds BY <1>15 DEF ZlibEnds
<1>16. CASE ZlibFails BY <1>16 DEF ZlibFails
<1>17. CASE ReadPlain BY <1>17 DEF ReadPlain
<1>18. CASE ReadGzipped
  <2>a. outQueue # <<>> /\ outQueue' = Tail(outQueue) /\ arrived' = Append(arrived, Head(outQueue))
    BY <1>18 DEF ReadGzipped
  <2>b. outQueue \in Seq(Nat) /\ arrived \in Seq(Nat) OBVIOUS
  <2>1. Len(outQueue') = Len(outQueue) - 1 /\ Len(arrived') = Len(arrived) + 1 /\ Len(outQueue) > 0
    BY ONLY <2>a, <2>b
  <2>2. pump' = pump \/ (pump = "parked" /\ pump' = "woken" /\ Len(outQueue) = 1)
    BY <1>18 DEF ReadGzipped, Wake
  <2>3. UNCHANGED <<gzipped, produced, docQueue, zlibState, pending, outcome>>
    BY <1>18 DEF ReadGzipped
  <2>c. Len(outQueue) \in Nat /\ Len(arrived) \in Nat /\ Len(pending) \in Nat OBVIOUS
  <2>4. CASE Destroyed BY <1>18, <2>1, <2>2, <2>3, <2>4, <2>c DEF ReadGzipped
  <2>5. CASE ~Destroyed
    <3>1. Len(outQueue') + Len(pending') < Len(outQueue) + Len(pending)
      BY <2>1, <2>3, <2>c
    <3>2. Destroyed' <=> Destroyed BY <2>3
    <3>3. CASE pump' = pump
      <4>1. outcome = "reading" /\ gzipped BY <1>18 DEF ReadGzipped
      <4>2. /\ Len(outQueue) + Len(pending) <= ZlibRoom
            /\ pump \in {"check", "parked"} => Len(pending) < ZlibRoom
            /\ pump \in {"woken", "reading"} => Len(outQueue) + Len(pending) < ZlibRoom
        BY <4>1, <2>5 DEF Room
      <4>3. /\ Len(outQueue') + Len(pending') <= ZlibRoom
            /\ pump' \in {"check", "parked"} => Len(pending') < ZlibRoom
            /\ pump' \in {"woken", "reading"} => Len(outQueue') + Len(pending') < ZlibRoom
        BY <2>1, <2>3, <2>c, <3>1, <3>3, <4>2
      <4>4. produced' + (IF pump' = "reading" THEN 1 ELSE 0)
              <= Len(arrived') + ZlibRoom - 1 + Len(docQueue')
        <5> DEFINE taken == IF pump = "reading" THEN 1 ELSE 0
        <5>1. produced + taken <= Len(arrived) + ZlibRoom - 1 + Len(docQueue)
          BY <4>1 DEF Room
        <5>2. taken \in Nat /\ produced \in Nat /\ ZlibRoom \in Nat /\ Len(docQueue) \in Nat
          OBVIOUS
        <5>3. /\ produced' = produced /\ docQueue' = docQueue /\ Len(arrived') = Len(arrived) + 1
              /\ (IF pump' = "reading" THEN 1 ELSE 0) = taken
          BY <2>1, <2>3, <3>3
        <5> HIDE DEF taken
        <5>4. QED BY ONLY <2>c, <5>1, <5>2, <5>3
      <4>5. QED BY <4>3, <4>4
    <3>4. CASE pump = "parked" /\ pump' = "woken" /\ Len(outQueue) = 1
      BY <1>18, <2>1, <2>3, <2>5, <2>c, <3>1, <3>4 DEF ReadGzipped
    <3>5. QED BY <2>2, <3>3, <3>4
  <2>6. QED BY <2>4, <2>5
<1>19. CASE Ends BY <1>19 DEF Ends, EndsWith
<1>20. CASE Leaves BY <1>20 DEF Leaves, CancelGzip, CancelDocument, Wake, Destroyed
<1>21. CASE UNCHANGED documentVars BY <1>21 DEF documentVars
<1>22. QED
  BY <1>1, <1>2, <1>3, <1>4, <1>5, <1>6, <1>7, <1>8, <1>9, <1>10, <1>11, <1>12, <1>13,
     <1>14, <1>15, <1>16, <1>17, <1>18, <1>19, <1>20, <1>21
  DEF DocumentNext, RenderDocument, React, Pump, Zlib, Reads

\* The queues stay one gapless document.
LEMMA OrderStep ==
  Order /\ Sink /\ Source /\ Plumbing /\ Queues /\ Places /\ [DocumentNext]_documentVars => Order'
<1> SUFFICES ASSUME Order, Sink, Source, Plumbing, Queues, Places, [DocumentNext]_documentVars
    PROVE  Order'
  OBVIOUS
<1> DEFINE A == Len(arrived)
           B == A + Len(outQueue)
           C == B + Len(pending)
<1> USE DEF Order, Sink, Destroyed, Source, Plumbing, Queues, Places,
            renderVars, docVars, gzipVars, clientVars
<1>1. CASE Refuse BY <1>1 DEF Refuse
<1>2. ASSUME NEW gz \in BOOLEAN, Respond(gz) PROVE Order'
  <2>1. /\ outQueue' = <<>> /\ pending' = <<>> /\ docQueue' = <<0>> /\ arrived' = <<>>
        /\ produced' = 0 /\ tailSent' = FALSE
    BY <1>2 DEF Respond
  <2>2. QED BY <2>1 DEF Consecutive
<1>3. CASE Pull BY <1>3 DEF Pull
<1>4. CASE Yield
  <2>1. SUFFICES ASSUME outcome = "reading", ~Destroyed PROVE Order'
    BY <1>4 DEF Yield
  <2>2. docQueue = <<>> /\ ~cancelled /\ docQueue' = Append(docQueue, produced + 1)
    BY <1>4, <2>1 DEF Yield, Enqueue
  <2>3. produced + 1 = C /\ ~tailSent BY <1>4, <2>1, <2>2 DEF Yield
  <2>a. C \in Nat /\ docQueue \in Seq(Nat) /\ Len(docQueue) = 0 /\ Consecutive(docQueue, C)
    BY <2>1, <2>2
  <2>b. docQueue' = Append(docQueue, C + Len(docQueue)) BY <2>2, <2>3, <2>a
  <2>4. Len(docQueue') = 1 /\ Consecutive(docQueue', C)
    <3> HIDE DEF C
    <3>1. /\ Len(Append(docQueue, C + Len(docQueue))) = Len(docQueue) + 1
          /\ Consecutive(Append(docQueue, C + Len(docQueue)), C)
      BY ONLY <2>a, EndOfRun
    <3>2. QED BY ONLY <2>a, <2>b, <3>1
  <2>5. QED BY <1>4, <2>1, <2>3, <2>4 DEF Yield
<1>5. CASE YieldTail
  <2>1. SUFFICES ASSUME outcome = "reading", ~Destroyed PROVE Order'
    BY <1>5 DEF YieldTail
  <2>2. docQueue = <<>> /\ ~cancelled /\ docQueue' = Append(docQueue, produced + 1)
    BY <1>5, <2>1 DEF YieldTail, Enqueue
  <2>3. produced + 1 = C /\ ~tailSent BY <1>5, <2>1, <2>2 DEF YieldTail
  <2>a. C \in Nat /\ docQueue \in Seq(Nat) /\ Len(docQueue) = 0 /\ Consecutive(docQueue, C)
    BY <2>1, <2>2
  <2>b. docQueue' = Append(docQueue, C + Len(docQueue)) BY <2>2, <2>3, <2>a
  <2>4. Len(docQueue') = 1 /\ Consecutive(docQueue', C)
    <3> HIDE DEF C
    <3>1. /\ Len(Append(docQueue, C + Len(docQueue))) = Len(docQueue) + 1
          /\ Consecutive(Append(docQueue, C + Len(docQueue)), C)
      BY ONLY <2>a, EndOfRun
    <3>2. QED BY ONLY <2>a, <2>b, <3>1
  <2>5. QED BY <1>5, <2>1, <2>3, <2>4 DEF YieldTail
<1>6. CASE CloseDocument BY <1>6 DEF CloseDocument
<1>7. CASE RenderFails BY <1>7 DEF RenderFails
<1>8. CASE PumpLooks BY <1>8 DEF PumpLooks, Destroyed
<1>9. CASE PumpWakes BY <1>9 DEF PumpWakes, Destroyed
<1>10. CASE PumpWrites
  <2>1. SUFFICES ASSUME outcome = "reading", ~Destroyed PROVE Order'
    BY <1>10 DEF PumpWrites
  <2>2. docQueue' = Tail(docQueue) /\ pending' = Append(pending, Head(docQueue))
    BY <1>10, <2>1 DEF PumpWrites
  <2>3. /\ Head(docQueue) = C /\ Len(docQueue') = Len(docQueue) - 1
        /\ Consecutive(docQueue', C + 1)
    BY <1>10, <2>1, <2>2, HeadOfRun DEF PumpWrites
  <2>4. Len(pending') = Len(pending) + 1 /\ Consecutive(pending', B)
    BY <2>1, <2>2, <2>3, EndOfRun
  <2>5. QED BY <1>10, <2>1, <2>3, <2>4 DEF PumpWrites
<1>11. CASE PumpDrains BY <1>11 DEF PumpDrains, Destroyed
<1>12. CASE PumpFinishes BY <1>12 DEF PumpFinishes, Destroyed
<1>13. CASE PumpFails BY <1>13 DEF PumpFails, Destroyed
<1>14. CASE ZlibEmits
  <2>1. SUFFICES ASSUME outcome = "reading", ~Destroyed PROVE Order'
    BY <1>14 DEF ZlibEmits
  <2>2. pending' = Tail(pending) /\ outQueue' = Append(outQueue, Head(pending))
    BY <1>14 DEF ZlibEmits
  <2>3. /\ Head(pending) = B /\ Len(pending') = Len(pending) - 1
        /\ Consecutive(pending', B + 1)
    BY <1>14, <2>1, <2>2, HeadOfRun DEF ZlibEmits
  <2>4. Len(outQueue') = Len(outQueue) + 1 /\ Consecutive(outQueue', A)
    BY <2>1, <2>2, <2>3, EndOfRun
  <2>5. QED BY <1>14, <2>1, <2>3, <2>4 DEF ZlibEmits
<1>15. CASE ZlibEnds BY <1>15 DEF ZlibEnds
<1>16. CASE ZlibFails BY <1>16 DEF ZlibFails
<1>17. CASE ReadPlain
  <2>1. SUFFICES ASSUME outcome = "reading", ~Destroyed PROVE Order'
    BY <1>17 DEF ReadPlain
  <2>2. docQueue' = Tail(docQueue) /\ Len(arrived') = A + 1 BY <1>17 DEF ReadPlain
  <2>3. Len(docQueue') = Len(docQueue) - 1 /\ Consecutive(docQueue', A + 1)
    BY <1>17, <2>1, <2>2, HeadOfRun DEF ReadPlain
  <2>4. outQueue' = <<>> /\ pending' = <<>> /\ B = A /\ C = A BY <1>17 DEF ReadPlain
  <2>5. Consecutive(outQueue', A + 1) /\ Consecutive(pending', A + 1)
    BY <2>4 DEF Consecutive
  <2>6. Len(outQueue') = 0 /\ Len(pending') = 0 BY <2>4
  <2>7. QED BY <1>17, <2>1, <2>2, <2>3, <2>4, <2>5, <2>6 DEF ReadPlain
<1>18. CASE ReadGzipped
  <2>1. SUFFICES ASSUME outcome = "reading", ~Destroyed PROVE Order'
    BY <1>18 DEF ReadGzipped
  <2>2. outQueue' = Tail(outQueue) /\ Len(arrived') = A + 1 BY <1>18 DEF ReadGzipped
  <2>3. Len(outQueue') = Len(outQueue) - 1 /\ Consecutive(outQueue', A + 1)
    BY <1>18, <2>1, <2>2, HeadOfRun DEF ReadGzipped
  <2>4. QED BY <1>18, <2>1, <2>2, <2>3 DEF ReadGzipped
<1>19. CASE Ends BY <1>19 DEF Ends, EndsWith
<1>20. CASE Leaves BY <1>20 DEF Leaves, CancelGzip, CancelDocument, Wake, Destroyed
<1>21. CASE UNCHANGED documentVars BY <1>21 DEF documentVars
<1>22. QED
  BY <1>1, <1>2, <1>3, <1>4, <1>5, <1>6, <1>7, <1>8, <1>9, <1>10, <1>11, <1>12, <1>13,
     <1>14, <1>15, <1>16, <1>17, <1>18, <1>19, <1>20, <1>21
  DEF DocumentNext, RenderDocument, React, Pump, Zlib, Reads

\* What a client gets is the next unit of the document, and it sees a clean
\* end only when the document is whole.
LEMMA WholeStep ==
  WholeOrError /\ Order /\ Sink /\ Source /\ Plumbing /\ Queues /\ Places /\ [DocumentNext]_documentVars
    => WholeOrError'
<1> SUFFICES ASSUME WholeOrError, Order, Sink, Source, Plumbing, Queues, Places,
                    [DocumentNext]_documentVars
             PROVE  WholeOrError'
  OBVIOUS
<1> USE DEF WholeOrError, Source, Plumbing, Queues, Places
<1>1. CASE UNCHANGED <<arrived, outcome, produced, render>>
  BY <1>1
<1>2. CASE ReadPlain
  <2>1. outQueue = <<>> /\ pending = <<>> /\ ~Destroyed /\ outcome = "reading"
    BY <1>2 DEF ReadPlain, Destroyed
  <2>2. Consecutive(docQueue, Len(arrived)) BY <2>1 DEF Order
  <2>3. Head(docQueue) = Len(arrived) BY <1>2, <2>2, HeadOfRun DEF ReadPlain
  <2>4. arrived' = Append(arrived, Len(arrived)) /\ outcome' = "reading"
    BY <1>2, <2>3 DEF ReadPlain
  <2>5. QED BY <2>4, EndOfRun
<1>3. CASE ReadGzipped
  <2>1. ~Destroyed /\ outcome = "reading" BY <1>3 DEF ReadGzipped, Sink
  <2>2. Consecutive(outQueue, Len(arrived)) BY <2>1 DEF Order
  <2>3. Head(outQueue) = Len(arrived) BY <1>3, <2>2, HeadOfRun DEF ReadGzipped
  <2>4. arrived' = Append(arrived, Len(arrived)) /\ outcome' = "reading"
    BY <1>3, <2>3 DEF ReadGzipped
  <2>5. QED BY <2>4, EndOfRun
<1>4. CASE Ends
  <2>1. UNCHANGED <<arrived, produced, render>> /\ outcome = "reading"
    BY <1>4 DEF Ends, renderVars
  <2>2. CASE outcome' # "complete" BY <2>1, <2>2
  <2>3. CASE outcome' = "complete"
    <3>1. CASE gzipped
      <4>1. outState = "closed" /\ outQueue = <<>> BY <1>4, <2>3, <3>1 DEF Ends, EndsWith
      <4>2. ~Destroyed /\ pending = <<>> /\ docState = "closed" BY <2>1, <4>1 DEF Sink
      <4>3. QED BY <2>1, <2>3, <4>1, <4>2 DEF Order
    <3>2. CASE ~gzipped
      <4>1. docState = "closed" /\ ~Destroyed BY <1>4, <2>3, <3>2 DEF Ends, EndsWith, Destroyed
      <4>2. QED BY <2>1, <2>3, <3>2, <4>1 DEF Order
    <3>3. QED BY <3>1, <3>2
  <2>4. QED BY <2>2, <2>3
<1>5. CASE ~UNCHANGED <<arrived, outcome, produced, render>> /\ arrived' = arrived
           /\ outcome' # "complete"
  BY <1>5
<1>6. ASSUME Refuse \/ Pull \/ Pump \/ Zlib \/ ZlibFails
      PROVE  UNCHANGED <<arrived, outcome, produced, render>>
  BY <1>6 DEF Refuse, Pull, Pump, PumpLooks, PumpWakes, PumpWrites, PumpDrains, PumpFinishes,
              PumpFails, Zlib, ZlibEmits, ZlibEnds, ZlibFails, renderVars, clientVars
<1>7. ASSUME RenderDocument \/ React \/ Leaves, ~Refuse
      PROVE  arrived' = arrived /\ (outcome' # "complete" \/ UNCHANGED <<outcome, produced, render>>)
  <2>1. CASE React
    <3>1. pulling /\ clientVars' = clientVars
      BY <2>1 DEF React, Yield, YieldTail, CloseDocument, RenderFails
    <3>2. CASE outcome # "complete" BY <3>1, <3>2 DEF clientVars
    <3>3. CASE outcome = "complete"
      <4>1. render = "done" BY <3>3
      <4>2. CloseDocument BY <2>1, <4>1 DEF React, Yield, YieldTail, RenderFails
      <4>3. QED BY <3>1, <4>2 DEF CloseDocument, renderVars, clientVars
    <3>4. QED BY <3>2, <3>3
  <2>2. CASE \E gz \in BOOLEAN : Respond(gz) BY <2>2 DEF Respond
  <2>3. CASE Leaves BY <2>3 DEF Leaves
  <2>4. QED BY <1>7, <2>1, <2>2, <2>3 DEF RenderDocument
<1>8. CASE UNCHANGED documentVars BY <1>8 DEF documentVars, renderVars, clientVars
<1>9. QED
  BY <1>1, <1>2, <1>3, <1>4, <1>5, <1>6, <1>7, <1>8 DEF DocumentNext, RenderDocument, Reads

LEMMA DocumentInitially == DocumentInit => DocumentInv
<1> SUFFICES ASSUME DocumentInit PROVE DocumentInv OBVIOUS
<1> USE DocumentAssumption DEF DocumentInit
<1>1. Flags BY DEF Flags
<1>2. Places BY DEF Places, RenderStates, PumpStates, StreamStates
<1>3. Queues BY DEF Queues
<1>4. Plumbing /\ Source /\ Sink /\ Order /\ Room
  BY DEF Plumbing, Source, Sink, Order, Room, Destroyed
<1>5. WholeOrError BY DEF WholeOrError, Consecutive
<1>6. QED BY <1>1, <1>2, <1>3, <1>4, <1>5, TypesSplit DEF DocumentInv

LEMMA DocumentStep == DocumentInv /\ [DocumentNext]_documentVars => DocumentInv'
  BY TypesSplit, TypeStep, PlumbingStep, SourceStep, SinkStep, OrderStep, RoomStep, WholeStep
  DEF DocumentInv

\* The inductive invariant holds in every reachable state, for pages of any
\* number of chunks and a zlib of any size.
THEOREM DocumentInvariance == DocumentSpec => []DocumentInv
<1>1. DocumentInit => DocumentInv BY DocumentInitially
<1>2. DocumentInv /\ [DocumentNext]_documentVars => DocumentInv' BY DocumentStep
<1>3. QED BY <1>1, <1>2, PTL DEF DocumentSpec

\* Every variable of the pipeline keeps its type.
THEOREM DocumentTyping == DocumentSpec => []DocumentTypeOK
<1>1. DocumentInv => DocumentTypeOK BY DEF DocumentInv
<1>2. QED BY <1>1, DocumentInvariance, PTL

\* A client has the document in order and without a gap, and one whose
\* response ends cleanly has it whole: head, every chunk, tail.
THEOREM WholeOrErrorAlways == DocumentSpec => []WholeOrError
<1>1. DocumentInv => WholeOrError BY DEF DocumentInv
<1>2. QED BY <1>1, DocumentInvariance, PTL

LEMMA InvThrottles == DocumentInv => Throttled
<1> SUFFICES ASSUME DocumentInv, outcome = "reading"
             PROVE  produced + 1 <= Len(arrived) + (IF gzipped THEN ZlibRoom + 1 ELSE 1)
  BY DEF Throttled
<1>1. Queues /\ Places /\ Flags /\ Source /\ Plumbing /\ Order /\ Room
  BY TypesSplit DEF DocumentInv
<1>2. /\ Len(arrived) \in Nat /\ Len(docQueue) \in Nat /\ Len(docQueue) <= 1
      /\ produced \in Nat /\ ZlibRoom \in Nat
  BY <1>1, DocumentAssumption DEF Queues, Places, Source
<1>3. CASE gzipped BY <1>1, <1>2, <1>3 DEF Room
<1>4. CASE ~gzipped
  <2>1. outQueue = <<>> /\ pending = <<>> /\ ~Destroyed BY <1>1, <1>4 DEF Plumbing, Destroyed
  <2>2. QED BY <1>1, <1>2, <1>4, <2>1 DEF Order
<1>5. QED BY <1>3, <1>4

\* React is never further ahead of its client than the buffers between them.
THEOREM ThrottledAlways == DocumentSpec => []Throttled
<1>1. DocumentInv => Throttled BY InvThrottles
<1>2. QED BY <1>1, DocumentInvariance, PTL

-----------------------------------------------------------------------------
(* The runtime.                                                            *)

-----------------------------------------------------------------------------
(* The invariant.                                                          *)

\* What one document's operations have in common: at most one may still touch the
\* page, and the newest has the newest number.
OneLive ==
  /\ \A n, m \in navs : Live(n) /\ Live(m) => n = m
  /\ \A s, t \in submits : Live(s) /\ Live(t) => s = t
  /\ \A n \in navs, s \in submits : ~(Live(n) /\ Live(s))

\* What the stage of an operation says of the answer to its request.
AnswersKnown ==
  /\ \A n \in navs : n.stage = "body" => n.f.served
  /\ \A s \in submits :
       /\ s.res \in {"sent", "refused"} => ~s.ran
       /\ s.res = "ran" => s.ran
       /\ s.stage # "post" => s.res = "ran" /\ s.ran

\* Where the address bar may be ahead of the page: on the way of a back or forward.
AddressBar ==
  "url" \notin raced =>
    /\ UrlMatchesPage
    /\ \A n \in navs : Live(n) /\ n.push = "no" => n.to = Location

\* The operation that may still touch the page was the last one asked for.
IntentKept ==
  raced = {} =>
    /\ LastIntentShown
    /\ \A n \in navs : Live(n) => n.by = intents
    /\ \A s \in submits : Live(s) => s.by = intents

\* A fetch that was served shows what was known, or is known to be racy.
Knows(f, need) == f.served => f.ver >= need \/ f.racy

\* No fetch is behind what its reader was told.
MutationsKept ==
  /\ ShowsKnownMutations
  /\ \A n \in navs : n.need <= seen /\ Knows(n.f, n.need)
  /\ \A u \in Pages : cache[u] # None => Knows(cache[u], seen)
  /\ \A s \in submits :
       Live(s) => /\ s.ran => s.ver >= seen
                  /\ \A u \in Pages : cache[u] # None => cache[u].racy
  /\ \A s \in submits : s.ver <= version

ClientInv ==
  /\ TypeOK /\ OneLive /\ AnswersKnown /\ AddressBar /\ IntentKept /\ MutationsKept /\ NoRerun
-----------------------------------------------------------------------------
(* The history.                                                            *)

Entry == [url : Pages, doc : Nat]
HistoryOK == hist \in Seq(Entry) /\ Len(hist) <= MaxHistory /\ at \in DOMAIN hist

LEMMA CurrentEntry ==
  ASSUME HistoryOK
  PROVE  /\ at \in 1 .. Len(hist) /\ hist[at] \in Entry /\ Location \in Pages
         /\ \A i \in DOMAIN hist : hist[i].url \in Pages
<1>1. at \in 1 .. Len(hist) /\ hist[at] \in Entry /\ \A i \in DOMAIN hist : hist[i] \in Entry
  BY DEF HistoryOK
<1>2. QED BY <1>1 DEF Entry, Location

\* A new entry becomes the current one, and the history stays within its bound.
LEMMA ExtendKeeps ==
  ASSUME HistoryOK, NEW entry \in Entry, Extend(entry)
  PROVE  HistoryOK' /\ Location' = entry.url
<1> DEFINE kept == Append(SubSeq(hist, 1, at), entry)
           new == IF Len(kept) > MaxHistory THEN Tail(kept) ELSE kept
<1>1. /\ MaxHistory \in Nat /\ MaxHistory >= 1 /\ Len(hist) \in Nat
      /\ at \in Nat /\ 1 <= at /\ at <= Len(hist)
  BY RuntimeAssumption DEF HistoryOK
<1>2. SubSeq(hist, 1, at) \in Seq(Entry) /\ Len(SubSeq(hist, 1, at)) = at
  BY <1>1 DEF HistoryOK
<1>3. kept \in Seq(Entry) /\ Len(kept) = at + 1 /\ kept[at + 1] = entry
  BY <1>1, <1>2
<1>4. hist' = new /\ at' = Len(new) BY DEF Extend
<1> HIDE DEF kept
<1>5. CASE Len(kept) > MaxHistory
  <2>1. Tail(kept) \in Seq(Entry) /\ Len(Tail(kept)) = at /\ Tail(kept)[at] = kept[at + 1]
    BY <1>1, <1>3
  <2>2. new = Tail(kept) BY <1>5
  <2> HIDE DEF new
  <2>3. QED BY <1>1, <1>3, <1>4, <2>1, <2>2 DEF HistoryOK, Location
<1>6. CASE ~(Len(kept) > MaxHistory)
  <2>1. new = kept BY <1>6
  <2> HIDE DEF new
  <2>2. QED BY <1>1, <1>3, <1>4, <1>6, <2>1 DEF HistoryOK, Location
<1>7. QED BY <1>5, <1>6

\* Some document number is free: there are more of them than entries.
LEMMA FreeDocument ==
  ASSUME HistoryOK
  PROVE  \E d \in 0 .. Len(hist) : \A i \in DOMAIN hist : hist[i].doc # d
<1> DEFINE used == {hist[i].doc : i \in DOMAIN hist}
<1>1. Len(hist) \in Nat /\ DOMAIN hist = 1 .. Len(hist) BY DEF HistoryOK
<1> DEFINE top == Len(hist)
           docs == [i \in 1 .. top |-> hist[i].doc]
<1>2. /\ IsFiniteSet(1 .. top) /\ Cardinality(1 .. top) = top
      /\ Cardinality(0 .. top) = top + 1
  <2>1. top \in Int /\ top >= 0 BY <1>1
  <2> HIDE DEF top
  <2>2. /\ IsFiniteSet(1 .. top) /\ Cardinality(1 .. top) = IF 1 > top THEN 0 ELSE top - 1 + 1
        /\ Cardinality(0 .. top) = IF 0 > top THEN 0 ELSE top - 0 + 1
    BY <2>1, FS_Interval
  <2>3. QED BY <2>1, <2>2
<1>3. IsFiniteSet(used) /\ Cardinality(used) <= Len(hist)
  <2>1. docs \in Surjection(1 .. top, used) BY <1>1 DEF Surjection
  <2> HIDE DEF used, docs, top
  <2>2. IsFiniteSet(used) /\ Cardinality(used) <= Cardinality(1 .. top)
    BY <1>2, <2>1, FS_Surjection
  <2>3. QED BY <1>2, <2>2 DEF top
<1>4. Cardinality(0 .. Len(hist)) = Len(hist) + 1
  BY <1>2
<1>5. QED
  <2> SUFFICES ASSUME ~ \E d \in 0 .. Len(hist) : \A i \in DOMAIN hist : hist[i].doc # d
               PROVE  FALSE
    OBVIOUS
  <2>1. 0 .. Len(hist) \subseteq used OBVIOUS
  <2> HIDE DEF used
  <2>2. Cardinality(0 .. Len(hist)) <= Cardinality(used) BY <1>3, <2>1, FS_Subset
  <2>3. Cardinality(used) \in Nat BY <1>3, FS_CardinalityType
  <2>4. QED BY <1>1, <1>3, <1>4, <2>2, <2>3

LEMMA SetEntryKeeps ==
  ASSUME HistoryOK, NEW entry \in Entry, hist' = [hist EXCEPT ![at] = entry], at' = at
  PROVE  HistoryOK' /\ Location' = entry.url
<1>1. hist \in Seq(Entry) /\ at \in 1 .. Len(hist) /\ Len(hist) \in Nat BY CurrentEntry DEF HistoryOK
<1>2. hist' \in Seq(Entry) /\ Len(hist') = Len(hist) /\ hist'[at] = entry
  BY <1>1
<1>3. QED BY <1>1, <1>2 DEF HistoryOK, Location

LEMMA AssignKeeps ==
  ASSUME HistoryOK, NEW u \in Pages, AssignLocation(u)
  PROVE  HistoryOK' /\ Location' = u
<1> DEFINE doc == CHOOSE d \in 0 .. Len(hist) : \A i \in DOMAIN hist : hist[i].doc # d
<1>1. doc \in 0 .. Len(hist) BY FreeDocument
<1>2. doc \in Nat BY <1>1 DEF HistoryOK
<1>3. IF u = Location THEN hist' = [hist EXCEPT ![at].doc = doc] /\ UNCHANGED at
      ELSE Extend([url |-> u, doc |-> doc])
  BY DEF AssignLocation
<1> HIDE DEF doc
<1>4. CASE u = Location
  <2>1. hist' = [hist EXCEPT ![at].doc = doc] /\ at' = at BY <1>3, <1>4
  <2>2. hist[at] \in Entry /\ [hist[at] EXCEPT !.doc = doc] \in Entry
        /\ [hist[at] EXCEPT !.doc = doc].url = u
    BY <1>2, <1>4, CurrentEntry DEF Entry, Location
  <2>3. QED BY <2>1, <2>2, SetEntryKeeps
<1>5. CASE u # Location
  <2>1. [url |-> u, doc |-> doc] \in Entry BY <1>2 DEF Entry
  <2>2. QED BY <1>3, <1>5, <2>1, ExtendKeeps
<1>6. QED BY <1>4, <1>5

LEMMA PushKeeps ==
  ASSUME HistoryOK, NEW u \in Pages, PushEntry(u)
  PROVE  HistoryOK' /\ Location' = u
<1>1. [url |-> u, doc |-> hist[at].doc] \in Entry BY CurrentEntry DEF Entry
<1>2. QED BY <1>1, ExtendKeeps DEF PushEntry

LEMMA ReplaceKeeps ==
  ASSUME HistoryOK, NEW u \in Pages, ReplaceEntry(u)
  PROVE  HistoryOK' /\ Location' = u
<1>1. hist' = [hist EXCEPT ![at].url = u] /\ at' = at BY DEF ReplaceEntry
<1>2. hist[at] \in Entry /\ [hist[at] EXCEPT !.url = u] \in Entry
      /\ [hist[at] EXCEPT !.url = u].url = u
  BY CurrentEntry DEF Entry
<1>3. QED BY <1>1, <1>2, SetEntryKeeps
-----------------------------------------------------------------------------
(* Kinds of steps.                                                         *)

NavType(top, asked) ==
  [seq : 1 .. top, to : Pages, push : {"push", "replace", "no"}, hops : 0 .. MaxHops,
   stage : {"fetch", "body"}, f : Fetch, need : Nat, by : 0 .. asked]

SubmitType(top, asked) ==
  [seq : 1 .. top, form : Forms, to : Pages, res : {"sent", "ran", "lost", "refused"},
   stage : {"post", "raw", "json", "chunk"}, ver : 0 .. MaxVersion, ran : BOOLEAN,
   by : 1 .. asked]

RenderType == [url : Pages, ver : Nat, need : Nat, racy : BOOLEAN, by : Nat]

Counted ==
  /\ navSeq \in Nat /\ version \in 0 .. MaxVersion /\ seen \in 0 .. version
  /\ intents \in 0 .. MaxIntents
  /\ raced \in SUBSET {"url", "order"} /\ reruns \in {"no", "lost", "other"}

LEMMA Types ==
  TypeOK <=> /\ HistoryOK /\ Counted /\ rendered \in RenderType
             /\ \A n \in navs : n \in NavType(navSeq, intents)
             /\ \A s \in submits : s \in SubmitType(navSeq, intents)
             /\ cache \in [Pages -> Fetch \cup {None}]
  BY DEF TypeOK, HistoryOK, Counted, RenderType, NavType, SubmitType, Entry

LEMMA NextTypes ==
  TypeOK' <=> /\ HistoryOK' /\ Counted' /\ rendered' \in RenderType
              /\ \A n \in navs' : n \in NavType(navSeq', intents')
              /\ \A s \in submits' : s \in SubmitType(navSeq', intents')
              /\ cache' \in [Pages -> Fetch \cup {None}]
  BY DEF TypeOK, HistoryOK, Counted, RenderType, NavType, SubmitType, Entry

\* A new document: nothing awaits, nothing is cached, the page is the newest.
LEMMA FreshStep ==
  ASSUME ClientInv, HistoryOK', Counted', NEW by \in Nat,
         FreshDocument(Location', version', by), seen' = seen,
         seen <= version', raced' = {} => by = intents', reruns' # "other"
  PROVE  ClientInv'
<1>1. /\ rendered' = [url |-> Location', ver |-> version', need |-> seen,
                      racy |-> FALSE, by |-> by]
      /\ navSeq' = 0 /\ navs' = {} /\ submits' = {} /\ cache' = NoCache
  BY DEF FreshDocument, Show
<1>2. Location' \in Pages
  <2>1. hist'[at'] \in Entry BY DEF HistoryOK
  <2>2. QED BY <2>1 DEF Location, Entry
<1>3. version' \in Nat /\ seen \in Nat BY Types DEF Counted, ClientInv
<1>4. rendered' \in RenderType BY <1>1, <1>2, <1>3 DEF RenderType
<1>5. cache' \in [Pages -> Fetch \cup {None}] BY <1>1 DEF NoCache
<1>6. TypeOK' BY <1>1, <1>4, <1>5, NextTypes
<1>7. OneLive' /\ AnswersKnown' BY <1>1 DEF OneLive, AnswersKnown
<1>8. AddressBar' /\ IntentKept'
  BY <1>1 DEF AddressBar, IntentKept, UrlMatchesPage, LastIntentShown
<1>9. MutationsKept'
  BY <1>1, <1>3 DEF MutationsKept, ShowsKnownMutations, NoCache
<1>10. QED BY <1>6, <1>7, <1>8, <1>9 DEF ClientInv, NoRerun

\* Some operations that may no longer touch the page end.
LEMMA Drops ==
  ASSUME ClientInv, navs' \subseteq navs, submits' \subseteq submits,
         \A n \in navs : Live(n) => n \in navs',
         \A s \in submits : Live(s) => s \in submits',
         UNCHANGED <<hist, at, rendered, navSeq, cache, version>>, UNCHANGED ghostVars
  PROVE  ClientInv'
<1> USE DEF ghostVars
<1>1. TypeOK'
  <2>1. TypeOK BY DEF ClientInv
  <2>2. QED BY <2>1 DEF TypeOK
<1>2. OneLive' /\ AnswersKnown' BY DEF ClientInv, OneLive, AnswersKnown, Live
<1>3. Location' = Location /\ (Idle' => Idle) BY DEF Location, Idle, Live
<1>4. AddressBar' BY <1>3 DEF ClientInv, AddressBar, UrlMatchesPage, Live
<1>5. IntentKept' BY <1>3 DEF ClientInv, IntentKept, LastIntentShown, Live
<1>6. MutationsKept' BY DEF ClientInv, MutationsKept, ShowsKnownMutations, Live
<1>7. QED BY <1>1, <1>2, <1>4, <1>5, <1>6 DEF ClientInv, NoRerun

\* A call of navigate moves on without touching the page.
LEMMA NavBecomes ==
  ASSUME ClientInv, NEW n \in navs, NEW t \in NavType(navSeq, intents),
         navs' = (navs \ {n}) \cup {t}, t.seq = n.seq, t.to = n.to, t.push = n.push,
         t.by = n.by, t.need = n.need, Knows(t.f, t.need),
         t.stage = "body" => t.f.served,
         UNCHANGED <<hist, at, rendered, navSeq, submits, cache, version>>, UNCHANGED ghostVars
  PROVE  ClientInv'
<1> USE DEF ghostVars
<1>1. TypeOK'
  <2>1. TypeOK BY DEF ClientInv
  <2>2. \A m \in navs' : m \in NavType(navSeq, intents) BY <2>1, Types
  <2>3. QED BY <2>1, <2>2, Types, NextTypes DEF HistoryOK, Counted
<1>2. OneLive' BY DEF ClientInv, OneLive, Live
<1>3. Location' = Location /\ (Idle' => Idle) BY DEF Location, Idle, Live
<1>4. AddressBar' BY <1>3 DEF ClientInv, AddressBar, UrlMatchesPage, Live
<1>5. IntentKept' BY <1>3 DEF ClientInv, IntentKept, LastIntentShown, Live
<1>6. MutationsKept' BY DEF ClientInv, MutationsKept, ShowsKnownMutations, Live
<1>7. AnswersKnown' BY DEF ClientInv, AnswersKnown
<1>8. QED BY <1>1, <1>2, <1>4, <1>5, <1>6, <1>7 DEF ClientInv, NoRerun

\* A call of runSubmit moves on without touching the page.
LEMMA SubmitBecomes ==
  ASSUME ClientInv, NEW s \in submits, NEW t \in SubmitType(navSeq, intents),
         Becomes(s, t), t.seq = s.seq, t.by = s.by,
         t.res \in {"sent", "refused"} => ~t.ran, t.res = "ran" => t.ran,
         t.stage # "post" => t.res = "ran" /\ t.ran,
         version' \in 0 .. MaxVersion, version <= version', t.ver <= version',
         Live(s) /\ t.ran => t.ver >= seen
  PROVE  ClientInv'
<1>1. /\ submits' = (submits \ {s}) \cup {t}
      /\ UNCHANGED <<hist, at, rendered, navSeq, navs, cache>> /\ UNCHANGED ghostVars
  BY DEF Becomes
<1> USE DEF ghostVars
<1>2. TypeOK /\ TypeOK'
  <2>1. TypeOK BY DEF ClientInv
  <2>2. \A m \in submits' : m \in SubmitType(navSeq, intents) BY <1>1, <2>1, Types
  <2>3. seen' \in 0 .. version' BY <1>1, <2>1, Types DEF Counted
  <2>4. QED BY <1>1, <2>1, <2>2, <2>3, Types, NextTypes DEF HistoryOK, Counted
<1>3. OneLive' BY <1>1 DEF ClientInv, OneLive, Live
<1>4. AnswersKnown' BY <1>1 DEF ClientInv, AnswersKnown
<1>5. Location' = Location /\ (Idle' => Idle) BY <1>1 DEF Location, Idle, Live
<1>6. AddressBar' BY <1>1, <1>5 DEF ClientInv, AddressBar, UrlMatchesPage, Live
<1>7. IntentKept' BY <1>1, <1>5 DEF ClientInv, IntentKept, LastIntentShown, Live
<1>8. MutationsKept'
  <2>1. \A m \in submits : m.ver \in Nat BY <1>2, Types DEF SubmitType
  <2>2. version \in Nat /\ version' \in Nat BY <1>2, Types, NextTypes DEF Counted
  <2>3. \A m \in submits' : m.ver <= version'
    BY <1>1, <2>1, <2>2 DEF ClientInv, MutationsKept
  <2>4. QED BY <1>1, <2>3 DEF ClientInv, MutationsKept, ShowsKnownMutations, Live
<1>9. QED BY <1>1, <1>2, <1>3, <1>4, <1>6, <1>7, <1>8 DEF ClientInv, NoRerun
\* A call of navigate starts: it supersedes every other operation.
LEMMA NavigateKeeps ==
  ASSUME ClientInv, HistoryOK', Counted', NEW u \in Pages, NEW push \in {"push", "replace", "no"},
         NEW hops \in 0 .. MaxHops, NEW by \in 0 .. intents', NEW calls \in SUBSET navs,
         NEW posts, NEW need \in 0 .. seen',
         Navigate(u, push, hops, by, calls, posts, need),
         push = "no" /\ "url" \notin raced' => u = Location',
         raced \subseteq raced', raced' = {} => by = intents', intents <= intents',
         seen <= seen', \A v \in Pages : cache[v] # None => Knows(cache[v], seen'),
         submits' \subseteq submits, UNCHANGED <<rendered, version, reruns>>
  PROVE  ClientInv'
<1> DEFINE fetch == IF cache[u] = None THEN NewFetch(posts) ELSE cache[u]
           n == [seq |-> navSeq + 1, to |-> u, push |-> push, hops |-> hops,
                 stage |-> "fetch", f |-> fetch, need |-> need, by |-> by]
<1>1. /\ navSeq' = navSeq + 1 /\ navs' = calls \cup {n}
      /\ cache' = [cache EXCEPT ![u] = None]
  BY DEF Navigate
<1>2. /\ TypeOK /\ HistoryOK /\ Counted /\ rendered \in RenderType
      /\ \A m \in navs : m \in NavType(navSeq, intents)
      /\ \A s \in submits : s \in SubmitType(navSeq, intents)
      /\ cache \in [Pages -> Fetch \cup {None}]
  BY Types DEF ClientInv
<1>3. /\ navSeq \in Nat /\ intents \in Nat /\ intents' \in Nat /\ seen \in Nat
      /\ seen' \in Nat /\ version \in Nat /\ MaxVersion \in Nat
  BY <1>2, RuntimeAssumption DEF Counted
<1>4. fetch \in Fetch /\ Knows(fetch, seen')
  <2>1. NewFetch(posts) \in Fetch /\ Knows(NewFetch(posts), seen')
    BY <1>3 DEF NewFetch, Fetch, Knows
  <2>2. QED BY <1>2, <2>1
<1> HIDE DEF fetch
<1>5. n \in NavType(navSeq + 1, intents') BY <1>3, <1>4 DEF NavType
<1>6. Knows(n.f, n.need)
  <2>1. fetch.ver \in Nat BY <1>3, <1>4 DEF Fetch
  <2>2. QED BY <1>3, <1>4, <2>1 DEF Knows
<1>7. /\ n.seq = navSeq + 1 /\ n.to = u /\ n.push = push /\ n.by = by /\ n.need = need
      /\ n.stage = "fetch"
  OBVIOUS
<1> HIDE DEF n
<1>8. \A m \in navs : m.seq # navSeq' /\ m \in NavType(navSeq + 1, intents')
  BY <1>1, <1>2, <1>3 DEF NavType
<1>9. \A s \in submits : s.seq # navSeq' /\ s \in SubmitType(navSeq + 1, intents')
  BY <1>1, <1>2, <1>3 DEF SubmitType
<1>10. TypeOK'
  <2>1. cache' \in [Pages -> Fetch \cup {None}] BY <1>1, <1>2
  <2>2. QED BY <1>1, <1>2, <1>5, <1>8, <1>9, <2>1, NextTypes
<1>11. /\ n.seq = navSeq' /\ \A m \in navs' : m.seq = navSeq' => m = n
       /\ \A s \in submits' : s.seq # navSeq'
  BY <1>1, <1>7, <1>8, <1>9
<1>12. OneLive' /\ ~Idle' BY <1>1, <1>11 DEF OneLive, Idle, Live
<1>13. AddressBar' BY <1>7, <1>11, <1>12 DEF AddressBar, UrlMatchesPage, Live
<1>14. IntentKept' BY <1>7, <1>11, <1>12 DEF IntentKept, LastIntentShown, Live
<1>15. AnswersKnown' BY <1>1, <1>7 DEF ClientInv, AnswersKnown
<1>16. MutationsKept'
  <2>1. \A m \in navs : m.need \in Nat BY <1>2 DEF NavType
  <2>2. \A m \in navs' : m.need <= seen' /\ Knows(m.f, m.need)
    BY <1>1, <1>3, <1>6, <1>7, <2>1 DEF ClientInv, MutationsKept
  <2>3. \A v \in Pages : cache'[v] # None => cache[v] # None /\ cache'[v] = cache[v]
    BY <1>1, <1>2
  <2>4. QED BY <1>11, <2>2, <2>3 DEF ClientInv, MutationsKept, ShowsKnownMutations, Live
<1>17. QED BY <1>10, <1>12, <1>13, <1>14, <1>15, <1>16 DEF ClientInv, NoRerun

\* The prefetch cache changes by an entry.
LEMMA CacheKeeps ==
  ASSUME ClientInv, NEW u \in Pages, NEW f \in Fetch \cup {None},
         cache' = [cache EXCEPT ![u] = f],
         f # None => /\ Knows(f, seen)
                     /\ (\E s \in submits : Live(s)) => f.racy,
         UNCHANGED <<hist, at, rendered, navSeq, navs, submits, version>>, UNCHANGED ghostVars
  PROVE  ClientInv'
<1> USE DEF ghostVars
<1>1. TypeOK /\ cache \in [Pages -> Fetch \cup {None}] BY Types DEF ClientInv
<1>2. cache' \in [Pages -> Fetch \cup {None}]
      /\ \A v \in Pages : cache'[v] = IF v = u THEN f ELSE cache[v]
  BY <1>1
<1>3. TypeOK' BY <1>1, <1>2, Types, NextTypes DEF HistoryOK, Counted
<1>4. Location' = Location /\ (Idle' <=> Idle) BY DEF Location, Idle, Live
<1>5. OneLive' /\ AnswersKnown' BY DEF ClientInv, OneLive, AnswersKnown, Live
<1>6. AddressBar' /\ IntentKept'
  BY <1>4 DEF ClientInv, AddressBar, IntentKept, UrlMatchesPage, LastIntentShown, Live
<1>7. MutationsKept' BY <1>2 DEF ClientInv, MutationsKept, ShowsKnownMutations, Live
<1>8. QED BY <1>3, <1>5, <1>6, <1>7 DEF ClientInv, NoRerun

\* The live operation renders its page, on the current entry or on a new one.
LEMMA RenderKeeps ==
  ASSUME ClientInv, HistoryOK', Counted', NEW v \in Nat, NEW need \in Nat, NEW racy \in BOOLEAN,
         NEW by \in Nat, Show(Location', v, need, racy, by), v >= need \/ racy,
         raced = {} => by = intents,
         \A n \in navs' : n \in navs /\ ~Live(n), \A s \in submits' : s \in submits /\ ~Live(s),
         seen <= seen', \A u \in Pages : cache[u] # None => Knows(cache[u], seen'),
         UNCHANGED <<navSeq, cache, version, intents, raced, reruns>>
  PROVE  ClientInv'
<1>1. rendered' = [url |-> Location', ver |-> v, need |-> need, racy |-> racy, by |-> by]
  BY DEF Show
<1>2. /\ TypeOK /\ HistoryOK /\ Counted
      /\ \A n \in navs : n \in NavType(navSeq, intents)
      /\ \A s \in submits : s \in SubmitType(navSeq, intents)
      /\ cache \in [Pages -> Fetch \cup {None}]
  BY Types DEF ClientInv
<1>3. Location' \in Pages
  <2>1. hist'[at'] \in Entry BY DEF HistoryOK
  <2>2. QED BY <2>1 DEF Location, Entry
<1>4. rendered' \in RenderType BY <1>1, <1>3 DEF RenderType
<1>5. TypeOK' BY <1>2, <1>4, NextTypes
<1>6. OneLive' /\ AnswersKnown' BY DEF ClientInv, OneLive, AnswersKnown, Live
<1>7. AddressBar' BY <1>1 DEF AddressBar, UrlMatchesPage, Live
<1>8. IntentKept' BY <1>1 DEF IntentKept, LastIntentShown, Live
<1>9. MutationsKept'
  <2>1. \A n \in navs : n.need \in Nat BY <1>2 DEF NavType
  <2>2. seen \in Nat /\ seen' \in Nat BY <1>2 DEF Counted
  <2>3. \A n \in navs' : n.need <= seen' /\ Knows(n.f, n.need)
    BY <2>1, <2>2 DEF ClientInv, MutationsKept
  <2>4. QED BY <1>1, <2>3 DEF ClientInv, MutationsKept, ShowsKnownMutations, Live
<1>10. QED BY <1>5, <1>6, <1>7, <1>8, <1>9 DEF ClientInv, NoRerun
-----------------------------------------------------------------------------
(* The user.                                                               *)

LEMMA Facts ==
  ASSUME ClientInv
  PROVE  /\ TypeOK /\ HistoryOK /\ Counted /\ rendered \in RenderType
         /\ \A n \in navs : n \in NavType(navSeq, intents)
         /\ \A s \in submits : s \in SubmitType(navSeq, intents)
         /\ cache \in [Pages -> Fetch \cup {None}]
         /\ navSeq \in Nat /\ version \in Nat /\ seen \in Nat /\ seen <= version
         /\ intents \in Nat /\ MaxVersion \in Nat /\ MaxIntents \in Nat /\ MaxHops \in Nat
         /\ Location \in Pages
         /\ \A v \in Pages : cache[v] # None => Knows(cache[v], seen)
         /\ reruns # "other"
  BY Types, CurrentEntry, RuntimeAssumption DEF ClientInv, Counted, MutationsKept, NoRerun

LEMMA ClickStep == ASSUME ClientInv, NEW u \in Pages, Click(u) PROVE ClientInv'
<1> DEFINE push == IF u = Location THEN "replace" ELSE "push"
<1>1. /\ intents < MaxIntents /\ intents' = intents + 1
      /\ Navigate(u, push, 0, intents + 1, navs, submits, seen)
      /\ UNCHANGED <<hist, at, rendered, submits, version, seen, raced, reruns>>
  BY DEF Click, Asks
<1>2. push \in {"push", "replace", "no"} /\ push # "no" OBVIOUS
<1> HIDE DEF push
<1>3. HistoryOK' BY <1>1, Facts DEF HistoryOK
<1>4. Counted' /\ navSeq + 1 \in Nat /\ 0 \in 0 .. MaxHops
  BY <1>1, Facts, RuntimeAssumption DEF Counted, Navigate
<1>5. intents + 1 \in 0 .. intents' /\ seen \in 0 .. seen' /\ intents <= intents'
  BY <1>1, Facts
<1>6. QED BY <1>1, <1>2, <1>3, <1>4, <1>5, Facts, NavigateKeeps

LEMMA TraverseStep ==
  ASSUME ClientInv, NEW to \in DOMAIN hist, Traverse(to)
  PROVE  ClientInv'
<1>1. /\ hist' = hist /\ at' = to /\ UNCHANGED <<submits, version, seen, reruns>>
      /\ intents < MaxIntents /\ intents' = intents + 1
  BY DEF Traverse, Asks
<1>2. HistoryOK' BY <1>1, Facts DEF HistoryOK
<1>3. Location' = hist[to].url /\ hist[to].url \in Pages
  BY <1>1, Facts, CurrentEntry DEF Location
<1>4. CASE hist[to].url # rendered.url
  <2>1. /\ Navigate(hist[to].url, "no", 0, intents + 1, navs, submits, seen)
        /\ UNCHANGED <<rendered, raced>>
    BY <1>4 DEF Traverse
  <2>2. Counted' BY <1>1, <2>1, Facts DEF Counted, Navigate
  <2>3. /\ intents + 1 \in 0 .. intents' /\ seen \in 0 .. seen' /\ intents <= intents'
        /\ 0 \in 0 .. MaxHops
    BY <1>1, Facts, RuntimeAssumption
  <2>4. QED BY <1>1, <1>2, <1>3, <2>1, <2>2, <2>3, Facts, NavigateKeeps
<1>5. CASE hist[to].url = rendered.url
  <2>1. /\ raced' = raced \cup (IF \E n \in navs : Live(n) /\ n.push = "no"
                                THEN {"url"} ELSE {})
                          \cup (IF Idle THEN {} ELSE {"order"})
        /\ rendered' = [rendered EXCEPT !.by = intents + 1]
        /\ UNCHANGED <<navSeq, navs, cache>>
    BY <1>5 DEF Traverse
  <2>2. /\ rendered' \in RenderType /\ rendered'.url = rendered.url
        /\ rendered'.by = intents + 1 /\ rendered'.ver = rendered.ver
        /\ rendered'.need = rendered.need /\ rendered'.racy = rendered.racy
    BY <2>1, Facts DEF RenderType
  <2>3. Counted' BY <1>1, <2>1, Facts DEF Counted
  <2>4. TypeOK'
    <3>1. \A n \in navs : n \in NavType(navSeq, intents + 1) BY Facts DEF NavType
    <3>2. \A s \in submits : s \in SubmitType(navSeq, intents + 1) BY Facts DEF SubmitType
    <3>3. QED BY <1>1, <1>2, <2>1, <2>2, <2>3, <3>1, <3>2, Facts, NextTypes
  <2>5. OneLive' /\ AnswersKnown' BY <1>1, <2>1 DEF ClientInv, OneLive, AnswersKnown, Live
  <2>6. AddressBar' BY <1>3, <1>5, <2>1, <2>2 DEF AddressBar, UrlMatchesPage, Live
  <2>7. IntentKept'
    <3> SUFFICES ASSUME raced' = {} PROVE IntentKept' BY DEF IntentKept
    <3>1. Idle BY <2>1
    <3>2. QED BY <1>1, <2>1, <2>2, <3>1 DEF IntentKept, LastIntentShown, Idle, Live
  <2>8. MutationsKept'
    BY <1>1, <2>1, <2>2 DEF ClientInv, MutationsKept, ShowsKnownMutations, Live
  <2>9. QED BY <1>1, <2>4, <2>5, <2>6, <2>7, <2>8 DEF ClientInv, NoRerun
<1>6. QED BY <1>4, <1>5

LEMMA TraverseAwayStep ==
  ASSUME ClientInv, NEW to \in DOMAIN hist, TraverseAway(to)
  PROVE  ClientInv'
<1>1. /\ hist' = hist /\ at' = to /\ UNCHANGED <<version, seen, raced, reruns>>
      /\ intents < MaxIntents /\ intents' = intents + 1
      /\ FreshDocument(hist[to].url, version, intents + 1)
  BY DEF TraverseAway, Asks
<1>2. HistoryOK' /\ Location' = hist[to].url BY <1>1, Facts DEF HistoryOK, Location
<1>3. Counted' /\ intents + 1 \in Nat BY <1>1, Facts DEF Counted, FreshDocument
<1>4. QED BY <1>1, <1>2, <1>3, Facts, FreshStep

LEMMA NewFetchKnows ==
  ASSUME NEW posts
  PROVE  /\ NewFetch(posts) \in Fetch /\ (posts # {} => NewFetch(posts).racy)
         /\ \A need : Knows(NewFetch(posts), need)
<1>1. 0 \in 0 .. MaxVersion /\ (posts # {}) \in BOOLEAN BY RuntimeAssumption
<1>2. NewFetch(posts) \in Fetch BY <1>1 DEF NewFetch, Fetch
<1>3. ~NewFetch(posts).served /\ NewFetch(posts).racy = (posts # {}) BY DEF NewFetch
<1>4. QED BY <1>2, <1>3 DEF Knows

LEMMA PrefetchStep == ASSUME ClientInv, NEW u \in Pages, Prefetch(u) PROVE ClientInv'
<1> DEFINE f == NewFetch(submits)
<1>1. /\ cache' = [cache EXCEPT ![u] = f]
      /\ UNCHANGED <<hist, at, rendered, navSeq, navs, submits, version>> /\ UNCHANGED ghostVars
  BY DEF Prefetch
<1>2. f \in Fetch /\ Knows(f, seen) /\ (submits # {} => f.racy)
  BY NewFetchKnows
<1> HIDE DEF f
<1>3. QED BY <1>1, <1>2, CacheKeeps

LEMMA ExpireStep == ASSUME ClientInv, NEW u \in Pages, Expire(u) PROVE ClientInv'
  BY CacheKeeps DEF Expire

LEMMA ServedKnows ==
  ASSUME ClientInv, NEW f \in Fetch
  PROVE  /\ Served(f) \in Fetch /\ Served(f).ver = version /\ Served(f).served
         /\ Served(f).racy = f.racy
         /\ \A need \in Nat : need <= seen => Knows(Served(f), need)
<1>1. version \in 0 .. MaxVersion BY Facts DEF Counted
<1>2. /\ Served(f) \in Fetch /\ Served(f).ver = version /\ Served(f).served
      /\ Served(f).racy = f.racy
  BY <1>1 DEF Served, Fetch
<1>3. \A need \in Nat : need <= seen => version >= need BY Facts
<1>4. QED BY <1>2, <1>3 DEF Knows

LEMMA ServePrefetchStep == ASSUME ClientInv, NEW u \in Pages, ServePrefetch(u) PROVE ClientInv'
<1> DEFINE f == Served(cache[u])
<1>1. /\ cache[u] # None /\ cache' = [cache EXCEPT ![u] = f]
      /\ UNCHANGED <<hist, at, rendered, navSeq, navs, submits, version>> /\ UNCHANGED ghostVars
  BY DEF ServePrefetch
<1>2. cache[u] \in Fetch BY <1>1, Facts
<1>3. f \in Fetch /\ Knows(f, seen) /\ f.racy = cache[u].racy BY <1>2, ServedKnows, Facts
<1> HIDE DEF f
<1>4. (\E s \in submits : Live(s)) => f.racy
  BY <1>1, <1>3 DEF ClientInv, MutationsKept
<1>5. QED BY <1>1, <1>3, <1>4, CacheKeeps

LEMMA SubmitStarts ==
  ASSUME ClientInv, NEW form \in Forms, NEW u \in Pages, Submit(form, u)
  PROVE  ClientInv'
<1> DEFINE s == NewSubmit(form, u)
<1>1. /\ intents < MaxIntents /\ intents' = intents + 1
      /\ navSeq' = navSeq + 1 /\ submits' = submits \cup {s} /\ cache' = NoCache
      /\ UNCHANGED <<hist, at, rendered, navs, version, seen, raced, reruns>>
  BY DEF Submit, Asks
<1>2. /\ s \in SubmitType(navSeq + 1, intents + 1)
      /\ s.seq = navSeq + 1 /\ s.res = "sent" /\ ~s.ran
      /\ s.stage = "post" /\ s.by = intents + 1 /\ s.ver = 0
  BY Facts DEF NewSubmit, SubmitType
<1> HIDE DEF s
<1>3. \A n \in navs : n.seq # navSeq + 1 /\ n \in NavType(navSeq + 1, intents + 1)
  BY Facts DEF NavType
<1>4. \A t \in submits : t.seq # navSeq + 1 /\ t \in SubmitType(navSeq + 1, intents + 1)
  BY Facts DEF SubmitType
<1>5. TypeOK'
  <2>1. HistoryOK' BY <1>1, Facts DEF HistoryOK
  <2>2. Counted' BY <1>1, Facts DEF Counted
  <2>3. cache' \in [Pages -> Fetch \cup {None}] BY <1>1 DEF NoCache
  <2>4. QED BY <1>1, <1>2, <1>3, <1>4, <2>1, <2>2, <2>3, Facts, NextTypes
<1>6. OneLive' BY <1>1, <1>2, <1>3, <1>4 DEF OneLive, Live
<1>7. AnswersKnown' BY <1>1, <1>2 DEF ClientInv, AnswersKnown
<1>8. ~Idle' BY <1>1, <1>2 DEF Idle, Live
<1>9. AddressBar' BY <1>1, <1>3, <1>8 DEF AddressBar, UrlMatchesPage, Live
<1>10. IntentKept' BY <1>1, <1>2, <1>3, <1>4, <1>8 DEF IntentKept, LastIntentShown, Live
<1>11. MutationsKept'
  <2>1. \A v \in Pages : cache'[v] = None BY <1>1 DEF NoCache
  <2>2. \A t \in submits' : Live(t)' => t = s BY <1>1, <1>4 DEF Live
  <2>3. QED BY <1>1, <1>2, <2>1, <2>2, Facts DEF ClientInv, MutationsKept, ShowsKnownMutations
<1>12. QED BY <1>1, <1>5, <1>6, <1>7, <1>9, <1>10, <1>11 DEF ClientInv, NoRerun
-----------------------------------------------------------------------------
(* Calls of navigate.                                                      *)

LEMMA ServeNavStep == ASSUME ClientInv, NEW n \in navs, ServeNav(n) PROVE ClientInv'
<1> DEFINE f == Served(n.f)
           t == [n EXCEPT !.f = f]
<1>1. /\ navs' = (navs \ {n}) \cup {t}
      /\ UNCHANGED <<hist, at, rendered, navSeq, submits, cache, version>> /\ UNCHANGED ghostVars
  BY DEF ServeNav
<1>2. n \in NavType(navSeq, intents) /\ n.f \in Fetch /\ n.need \in Nat /\ n.need <= seen
  BY Facts DEF NavType, ClientInv, MutationsKept
<1>3. f \in Fetch /\ Knows(f, n.need) /\ f.served BY <1>2, ServedKnows
<1> HIDE DEF f
<1>4. /\ t \in NavType(navSeq, intents) /\ t.seq = n.seq /\ t.to = n.to /\ t.push = n.push
      /\ t.by = n.by /\ t.need = n.need /\ t.f = f /\ f.served
      /\ t.stage = n.stage
  BY <1>2, <1>3 DEF NavType
<1> HIDE DEF t
<1>5. QED BY <1>1, <1>3, <1>4, NavBecomes

LEMMA DropNavStep == ASSUME ClientInv, NEW n \in navs, ~Live(n), DropNav(n) PROVE ClientInv'
  BY Drops DEF DropNav, ghostVars

LEMMA NavRespondsStep == ASSUME ClientInv, NEW n \in navs, NavResponds(n) PROVE ClientInv'
<1>1. CASE ~Live(n) BY <1>1, DropNavStep DEF NavResponds
<1>2. CASE Live(n)
  <2> DEFINE t == [n EXCEPT !.stage = "body"]
  <2>1. /\ navs' = (navs \ {n}) \cup {t} /\ n.f.served
        /\ UNCHANGED <<hist, at, rendered, navSeq, submits, cache, version>> /\ UNCHANGED ghostVars
    BY <1>2 DEF NavResponds
  <2>2. n \in NavType(navSeq, intents) /\ Knows(n.f, n.need)
    BY Facts DEF ClientInv, MutationsKept
  <2>3. /\ t \in NavType(navSeq, intents) /\ t.seq = n.seq /\ t.to = n.to /\ t.push = n.push
        /\ t.by = n.by /\ t.need = n.need /\ t.f = n.f
    BY <2>2 DEF NavType
  <2> HIDE DEF t
  <2>4. QED BY <2>1, <2>2, <2>3, NavBecomes
<1>3. QED BY <1>1, <1>2

LEMMA FullLoadStep ==
  ASSUME ClientInv, NEW u \in Pages, NEW by \in Nat, raced = {} => by = intents, FullLoad(u, by)
  PROVE  ClientInv'
<1>1. /\ AssignLocation(u) /\ FreshDocument(u, version, by)
      /\ UNCHANGED <<version, seen, intents, raced, reruns>>
  BY DEF FullLoad
<1>2. HistoryOK' /\ Location' = u BY <1>1, Facts, AssignKeeps
<1>3. Counted' BY <1>1, Facts DEF Counted, FreshDocument
<1>4. QED BY <1>1, <1>2, <1>3, Facts, FreshStep

LEMMA ReloadStep ==
  ASSUME ClientInv, NEW by \in Nat, raced = {} => by = intents, Reload(by)
  PROVE  ClientInv'
<1>1. /\ UNCHANGED <<hist, at>> /\ FreshDocument(Location, version, by)
      /\ UNCHANGED <<version, seen, intents, raced, reruns>>
  BY DEF Reload, KeepEntry
<1>2. HistoryOK' /\ Location' = Location BY <1>1, Facts DEF HistoryOK, Location
<1>3. Counted' BY <1>1, Facts DEF Counted, FreshDocument
<1>4. QED BY <1>1, <1>2, <1>3, Facts, FreshStep

\* What the live call knows.
LEMMA LiveNav ==
  ASSUME ClientInv, NEW n \in navs, Live(n)
  PROVE  /\ n \in NavType(navSeq, intents) /\ n.to \in Pages /\ n.by \in 0 .. intents
         /\ n.by \in Nat /\ n.hops \in 0 .. MaxHops
         /\ n.push \in {"push", "replace", "no"} /\ n.f \in Fetch
         /\ n.f.ver \in Nat /\ n.f.racy \in BOOLEAN /\ n.need \in Nat /\ n.need \in 0 .. seen
         /\ raced = {} => n.by = intents
         /\ "url" \notin raced /\ n.push = "no" => n.to = Location
         /\ Knows(n.f, n.need)
         /\ \A m \in navs \ {n} : ~Live(m)
         /\ \A s \in submits : ~Live(s)
<1>1. /\ n \in NavType(navSeq, intents) /\ n.need <= seen /\ Knows(n.f, n.need)
      /\ raced = {} => n.by = intents
      /\ "url" \notin raced /\ n.push = "no" => n.to = Location
      /\ \A m \in navs \ {n} : ~Live(m)
      /\ \A s \in submits : ~Live(s)
  BY Facts DEF ClientInv, MutationsKept, IntentKept, AddressBar, OneLive
<1>2. n.f \in Fetch /\ n.need \in Nat /\ n.by \in 0 .. intents BY <1>1 DEF NavType
<1>3. n.f.ver \in Nat /\ n.f.racy \in BOOLEAN BY <1>2, Facts DEF Fetch
<1>4. n.by \in Nat /\ n.need \in 0 .. seen BY <1>1, <1>2, Facts
<1>5. n.to \in Pages /\ n.hops \in 0 .. MaxHops /\ n.push \in {"push", "replace", "no"}
  BY <1>1 DEF NavType
<1>6. QED BY <1>1, <1>2, <1>3, <1>4, <1>5

LEMMA NavBreaksStep == ASSUME ClientInv, NEW n \in navs, NavBreaks(n) PROVE ClientInv'
<1>1. CASE ~Live(n) BY <1>1, DropNavStep DEF NavBreaks
<1>2. CASE Live(n) BY <1>2, LiveNav, FullLoadStep DEF NavBreaks
<1>3. QED BY <1>1, <1>2

LEMMA RenderNavStep ==
  ASSUME ClientInv, NEW n \in navs, Live(n), n.f.served, RenderNav(n)
  PROVE  ClientInv'
<1>1. /\ Show(n.to, n.f.ver, n.need, n.f.racy, n.by)
      /\ navs' = navs \ {n} /\ UNCHANGED <<navSeq, submits, cache, version>>
      /\ UNCHANGED ghostVars
  BY DEF RenderNav
<1>2. \/ n.push = "push" /\ PushEntry(n.to)
      \/ n.push = "replace" /\ ReplaceEntry(n.to)
      \/ n.push = "no" /\ UNCHANGED <<hist, at>>
  BY LiveNav DEF RenderNav, KeepEntry
<1>3. Counted' BY <1>1, Facts DEF Counted, ghostVars
<1>4. CASE n.push = "no" /\ "url" \in raced
  <2>1. TypeOK'
    <3>1. HistoryOK' BY <1>2, <1>4, Facts DEF HistoryOK
    <3>2. rendered' \in RenderType BY <1>1, LiveNav DEF Show, RenderType
    <3>3. QED BY <1>1, <1>3, <3>1, <3>2, Facts, NextTypes DEF ghostVars
  <2>2. OneLive' /\ AnswersKnown' BY <1>1 DEF ClientInv, OneLive, AnswersKnown, Live
  <2>3. AddressBar' /\ IntentKept' BY <1>1, <1>4 DEF AddressBar, IntentKept, ghostVars
  <2>4. MutationsKept'
    <3>1. rendered'.ver >= rendered'.need \/ rendered'.racy
      BY <1>1, LiveNav DEF Show, Knows
    <3>2. QED BY <1>1, <3>1 DEF ClientInv, MutationsKept, ShowsKnownMutations, Live, ghostVars
  <2>5. QED BY <1>1, <2>1, <2>2, <2>3, <2>4 DEF ClientInv, NoRerun, ghostVars
<1>5. CASE ~(n.push = "no" /\ "url" \in raced)
  <2>1. HistoryOK' /\ Location' = n.to
    <3>1. CASE n.push = "push" BY <1>2, <3>1, LiveNav, Facts, PushKeeps
    <3>2. CASE n.push = "replace" BY <1>2, <3>2, LiveNav, Facts, ReplaceKeeps
    <3>3. CASE n.push = "no"
      BY <1>2, <1>5, <3>3, LiveNav, Facts DEF HistoryOK, Location
    <3>4. QED BY <3>1, <3>2, <3>3, LiveNav
  <2>2. /\ n.f.ver \in Nat /\ n.need \in Nat /\ n.f.racy \in BOOLEAN /\ n.by \in Nat
        /\ n.f.ver >= n.need \/ n.f.racy
        /\ raced = {} => n.by = intents
        /\ \A m \in navs' : m \in navs /\ ~Live(m)
        /\ \A s \in submits' : s \in submits /\ ~Live(s)
    BY <1>1, LiveNav DEF Knows
  <2>3. seen <= seen' /\ \A u \in Pages : cache[u] # None => Knows(cache[u], seen')
    BY <1>1, Facts DEF ghostVars
  <2>4. UNCHANGED <<navSeq, cache, version, intents, raced, reruns>> BY <1>1 DEF ghostVars
  <2>5. Show(Location', n.f.ver, n.need, n.f.racy, n.by) BY <1>1, <2>1
  <2>6. QED BY <1>3, <2>1, <2>2, <2>3, <2>4, <2>5, RenderKeeps
<1>6. QED BY <1>4, <1>5

LEMMA FollowRedirectStep ==
  ASSUME ClientInv, NEW n \in navs, Live(n), NEW dest \in Pages, FollowRedirect(n, dest)
  PROVE  ClientInv'
<1>1. CASE n.hops >= MaxHops BY <1>1, LiveNav, FullLoadStep DEF FollowRedirect
<1>2. CASE ~(n.hops >= MaxHops)
  <2>1. /\ Navigate(dest, n.push, n.hops + 1, n.by, navs \ {n}, submits, n.need)
        /\ UNCHANGED <<rendered, submits, version>> /\ UNCHANGED ghostVars
        /\ IF n.push = "no" THEN ReplaceEntry(dest) ELSE KeepEntry
    BY <1>2 DEF FollowRedirect
  <2>2. HistoryOK' /\ (n.push = "no" => Location' = dest)
    <3>1. CASE n.push = "no" BY <2>1, <3>1, Facts, ReplaceKeeps
    <3>2. CASE n.push # "no" BY <2>1, <3>2, Facts DEF HistoryOK, KeepEntry
    <3>3. QED BY <3>1, <3>2
  <2>3. Counted' BY <2>1, Facts DEF Counted, Navigate, ghostVars
  <2>4. n.hops + 1 \in 0 .. MaxHops BY <1>2, LiveNav, Facts
  <2>5. /\ n.by \in 0 .. intents' /\ n.need \in 0 .. seen' /\ navs \ {n} \in SUBSET navs
        /\ raced \subseteq raced' /\ (raced' = {} => n.by = intents') /\ intents <= intents'
        /\ seen <= seen' /\ UNCHANGED <<rendered, version, reruns>> /\ submits' \subseteq submits
        /\ \A v \in Pages : cache[v] # None => Knows(cache[v], seen')
    BY <2>1, LiveNav, Facts DEF ghostVars
  <2>6. QED BY <2>1, <2>2, <2>3, <2>4, <2>5, LiveNav, NavigateKeeps
<1>3. QED BY <1>1, <1>2

\* The stage of a call whose body is awaited tells that its props were served.
LEMMA NavBodyStep ==
  ASSUME ClientInv, NEW n \in navs, NavBody(n)
  PROVE  ClientInv'
<1>1. n.stage = "body" BY DEF NavBody
<1>2. CASE ~Live(n) BY <1>2, DropNavStep DEF NavBody
<1>3. CASE Live(n)
  <2>1. n.f.served BY <1>1 DEF ClientInv, AnswersKnown
  <2>2. RenderNav(n) \/ \E dest \in Pages : FollowRedirect(n, dest) BY <1>3 DEF NavBody
  <2>3. QED BY <1>3, <2>1, <2>2, RenderNavStep, FollowRedirectStep
<1>4. QED BY <1>2, <1>3

LEMMA NavStepKeeps == ASSUME ClientInv, NEW n \in navs, NavStep(n) PROVE ClientInv'
  BY ServeNavStep, NavRespondsStep, NavBreaksStep, NavBodyStep DEF NavStep
-----------------------------------------------------------------------------
(* Calls of runSubmit.                                                     *)

\* What a submit knows, and what it knows while it is the live operation.
LEMMA SubmitFacts ==
  ASSUME ClientInv, NEW s \in submits
  PROVE  /\ s \in SubmitType(navSeq, intents) /\ s.to \in Pages /\ s.by \in 1 .. intents
         /\ s.by \in Nat /\ s.ver \in 0 .. MaxVersion /\ s.ver \in Nat /\ s.ver <= version
         /\ s.res \in {"sent", "ran", "lost", "refused"} /\ s.ran \in BOOLEAN
         /\ s.stage \in {"post", "raw", "json", "chunk"}
         /\ s.res \in {"sent", "refused"} => ~s.ran
         /\ s.stage # "post" => s.res = "ran" /\ s.ran
<1>1. s \in SubmitType(navSeq, intents) /\ s.ver <= version
      /\ (s.res \in {"sent", "refused"} => ~s.ran)
      /\ (s.stage # "post" => s.res = "ran" /\ s.ran)
  BY Facts DEF ClientInv, MutationsKept, AnswersKnown
<1>2. s.ver \in 0 .. MaxVersion /\ s.by \in 1 .. intents BY <1>1 DEF SubmitType
<1>3. s.ver \in Nat /\ s.by \in Nat BY <1>2, Facts
<1>4. QED BY <1>1, <1>2, <1>3 DEF SubmitType

LEMMA LiveSubmit ==
  ASSUME ClientInv, NEW s \in submits, Live(s)
  PROVE  /\ raced = {} => s.by = intents
         /\ s.ran => s.ver >= seen
         /\ \A u \in Pages : cache[u] # None => cache[u].racy
         /\ \A n \in navs : ~Live(n)
         /\ \A t \in submits \ {s} : ~Live(t)
  BY DEF ClientInv, MutationsKept, IntentKept, OneLive

LEMMA ServeSubmitStep == ASSUME ClientInv, NEW s \in submits, ServeSubmit(s) PROVE ClientInv'
<1> DEFINE t == [s EXCEPT !.res = "ran", !.ran = TRUE, !.ver = version + 1]
<1>1. s.res = "sent" /\ version < MaxVersion /\ version' = version + 1 /\ Becomes(s, t)
  BY DEF ServeSubmit
<1>2. s.stage = "post" BY <1>1, SubmitFacts
<1>3. /\ t \in SubmitType(navSeq, intents) /\ t.seq = s.seq /\ t.by = s.by /\ t.res = "ran"
      /\ t.stage = "post" /\ t.ran /\ t.ver = version + 1
  <2>1. version + 1 \in 0 .. MaxVersion BY <1>1, Facts
  <2>2. s \in SubmitType(navSeq, intents) BY SubmitFacts
  <2>3. QED BY <1>2, <2>1, <2>2 DEF SubmitType
<1> HIDE DEF t
<1>4. version' \in 0 .. MaxVersion /\ version <= version' /\ t.ver <= version' /\ t.ver >= seen
  BY <1>1, <1>3, Facts
<1>5. QED BY <1>1, <1>3, <1>4, SubmitBecomes

LEMMA EndsUnserved ==
  ASSUME ClientInv, NEW s \in submits, RefuseSubmit(s) \/ LoseSubmit(s)
  PROVE  ClientInv'
<1> PICK res \in {"refused", "lost"} :
      /\ Becomes(s, [s EXCEPT !.res = res]) /\ version' = version
      /\ s.stage = "post" /\ (res = "refused" => ~s.ran)
  BY SubmitFacts DEF RefuseSubmit, LoseSubmit
<1> DEFINE t == [s EXCEPT !.res = res]
<1>1. /\ t \in SubmitType(navSeq, intents) /\ t.seq = s.seq /\ t.by = s.by /\ t.res = res
      /\ t.stage = "post" /\ t.ran = s.ran /\ t.ver = s.ver
  BY SubmitFacts DEF SubmitType
<1>2. Becomes(s, t) OBVIOUS
<1> HIDE DEF t
<1>3. version' \in 0 .. MaxVersion /\ version <= version' BY Facts DEF Counted
<1>4. QED BY <1>1, <1>2, <1>3, SubmitFacts, LiveSubmit, SubmitBecomes

LEMMA ReadsOn ==
  ASSUME ClientInv, NEW s \in submits, s.res = "ran", s.ran, NEW stage \in {"raw", "json", "chunk"},
         Becomes(s, [s EXCEPT !.stage = stage]), version' = version
  PROVE  ClientInv'
<1> DEFINE t == [s EXCEPT !.stage = stage]
<1>1. /\ t \in SubmitType(navSeq, intents) /\ t.seq = s.seq /\ t.by = s.by /\ t.res = s.res
      /\ t.ran = s.ran /\ t.ver = s.ver
  BY SubmitFacts DEF SubmitType
<1>2. Becomes(s, t) OBVIOUS
<1> HIDE DEF t
<1>3. version' \in 0 .. MaxVersion /\ version <= version' BY Facts DEF Counted
<1>4. QED BY <1>1, <1>2, <1>3, SubmitFacts, LiveSubmit, SubmitBecomes

LEMMA EndSubmitStep == ASSUME ClientInv, NEW s \in submits, ~Live(s), EndSubmit(s) PROVE ClientInv'
  BY Drops DEF EndSubmit, ghostVars

\* The post is sent again only if it did not run, or its answer was lost.
LEMMA NativeResubmitStep ==
  ASSUME ClientInv, NEW s \in submits, Live(s), s.res \in {"lost", "refused"}, NativeResubmit(s)
  PROVE  ClientInv'
<1> PICK runs \in BOOLEAN :
      /\ runs => version < MaxVersion
      /\ version' = IF runs THEN version + 1 ELSE version
      /\ reruns' = IF runs /\ s.ran THEN IF s.res = "lost" THEN "lost" ELSE "other" ELSE reruns
      /\ FreshDocument(s.to, version', s.by)
  BY DEF NativeResubmit
<1>1. AssignLocation(s.to) /\ UNCHANGED <<seen, intents, raced>> BY DEF NativeResubmit
<1>2. HistoryOK' /\ Location' = s.to BY <1>1, SubmitFacts, Facts, AssignKeeps
<1>3. reruns' # "other" /\ reruns' \in {"no", "lost", "other"}
  <2>1. s.ran => s.res = "lost" BY SubmitFacts
  <2>2. reruns # "other" /\ reruns \in {"no", "lost", "other"} BY Facts DEF Counted
  <2>3. QED BY <2>1, <2>2
<1>4. version' \in 0 .. MaxVersion /\ seen <= version' BY Facts DEF Counted
<1>5. Counted' BY <1>1, <1>3, <1>4, Facts DEF Counted, FreshDocument
<1>6. QED BY <1>1, <1>2, <1>3, <1>4, <1>5, SubmitFacts, LiveSubmit, FreshStep

LEMMA SubmitRespondsStep ==
  ASSUME ClientInv, NEW s \in submits, SubmitResponds(s)
  PROVE  ClientInv'
<1>1. s.stage = "post" /\ s.res # "sent" BY DEF SubmitResponds
<1>2. CASE ~Live(s) BY <1>2, EndSubmitStep DEF SubmitResponds
<1>3. CASE Live(s) /\ s.res \in {"lost", "refused"}
  BY <1>3, NativeResubmitStep DEF SubmitResponds
<1>4. CASE Live(s) /\ s.res \notin {"lost", "refused"}
  <2>1. s.res = "ran" BY <1>1, <1>4, SubmitFacts
  <2>2. ReadAnswer(s) \/ Reload(s.by) BY <1>4 DEF SubmitResponds
  <2>3. CASE ReadAnswer(s)
    <3>1. PICK stage \in {"raw", "json"} :
            Becomes(s, [s EXCEPT !.stage = stage]) /\ version' = version
      BY <2>3 DEF ReadAnswer
    <3>2. s.ran BY <2>1 DEF ClientInv, AnswersKnown
    <3>3. QED BY <2>1, <3>1, <3>2, ReadsOn
  <2>4. CASE Reload(s.by) BY <1>4, <2>4, SubmitFacts, LiveSubmit, ReloadStep
  <2>5. QED BY <2>2, <2>3, <2>4
<1>5. QED BY <1>2, <1>3, <1>4

LEMMA RawBodyStep == ASSUME ClientInv, NEW s \in submits, RawBody(s) PROVE ClientInv'
<1>1. CASE ~Live(s) BY <1>1, EndSubmitStep DEF RawBody
<1>2. CASE Live(s) BY <1>2, SubmitFacts, LiveSubmit, ReloadStep DEF RawBody
<1>3. QED BY <1>1, <1>2

LEMMA SubmitBreaksStep == ASSUME ClientInv, NEW s \in submits, SubmitBreaks(s) PROVE ClientInv'
<1>1. /\ UNCHANGED <<hist, at>> /\ FreshDocument(Location, version, s.by)
      /\ raced' = raced \cup (IF Live(s) THEN {} ELSE {"order"})
      /\ UNCHANGED <<version, seen, intents, reruns>>
  BY DEF SubmitBreaks, KeepEntry
<1>2. HistoryOK' /\ Location' = Location BY <1>1, Facts DEF HistoryOK, Location
<1>3. Counted' BY <1>1, Facts DEF Counted, FreshDocument
<1>4. raced' = {} => s.by = intents'
  <2> SUFFICES ASSUME raced' = {} PROVE s.by = intents' OBVIOUS
  <2>1. Live(s) /\ raced = {} BY <1>1
  <2>2. QED BY <1>1, <2>1, LiveSubmit
<1>5. QED BY <1>1, <1>2, <1>3, <1>4, SubmitFacts, Facts, FreshStep

\* The answer tells of its mutation: what is cached was asked for during the post.
LEMMA TellsOfMutation ==
  ASSUME ClientInv, NEW s \in submits, Live(s), s.ran, seen' = s.ver
  PROVE  /\ seen <= seen' /\ seen' \in 0 .. version /\ s.ver \in 0 .. seen'
         /\ \A v \in Pages : cache[v] # None => Knows(cache[v], seen')
  BY SubmitFacts, LiveSubmit, Facts DEF Knows

LEMMA ActionBodyStep == ASSUME ClientInv, NEW s \in submits, ActionBody(s) PROVE ClientInv'
<1>1. s.stage = "json" BY DEF ActionBody
<1>2. s.res = "ran" /\ s.ran BY <1>1, SubmitFacts
<1>3. CASE ~Live(s) BY <1>3, EndSubmitStep DEF ActionBody
<1>4. CASE Live(s) /\ Becomes(s, [s EXCEPT !.stage = "chunk"]) /\ version' = version
  BY <1>2, <1>4, ReadsOn
<1>5. ASSUME Live(s), NEW dest \in Pages,
             Navigate(dest, IF dest = Location THEN "no" ELSE "push", 0, s.by,
                      navs, submits \ {s}, s.ver),
             seen' = s.ver, submits' = submits \ {s},
             UNCHANGED <<hist, at, rendered, version, intents, raced, reruns>>
      PROVE  ClientInv'
  <2> DEFINE push == IF dest = Location THEN "no" ELSE "push"
  <2>1. HistoryOK' /\ Location' = Location BY <1>5, Facts DEF HistoryOK, Location
  <2>2. push \in {"push", "replace", "no"} /\ (push = "no" => dest = Location')
    BY <2>1
  <2>3. Navigate(dest, push, 0, s.by, navs, submits \ {s}, s.ver) BY <1>5
  <2> HIDE DEF push
  <2>4. /\ seen <= seen' /\ seen' \in 0 .. version /\ s.ver \in 0 .. seen'
        /\ \A v \in Pages : cache[v] # None => Knows(cache[v], seen')
    BY <1>2, <1>5, TellsOfMutation
  <2>5. Counted' BY <1>5, <2>4, Facts DEF Counted, Navigate
  <2>6. s.by \in 0 .. intents' /\ (raced' = {} => s.by = intents') /\ intents <= intents'
        /\ 0 \in 0 .. MaxHops
    BY <1>5, SubmitFacts, LiveSubmit, Facts
  <2>7. /\ navs \in SUBSET navs /\ raced \subseteq raced' /\ submits' \subseteq submits
        /\ UNCHANGED <<rendered, version, reruns>>
    BY <1>5
  <2>8. QED BY <2>1, <2>2, <2>3, <2>4, <2>5, <2>6, <2>7, NavigateKeeps
<1>6. QED BY <1>3, <1>4, <1>5 DEF ActionBody

LEMMA RenderActionStep == ASSUME ClientInv, NEW s \in submits, RenderAction(s) PROVE ClientInv'
<1>1. s.ran BY SubmitFacts DEF RenderAction
<1>2. CASE ~Live(s) BY <1>2, EndSubmitStep DEF RenderAction
<1>3. CASE Live(s)
  <2>1. /\ IF s.to = Location THEN KeepEntry ELSE PushEntry(s.to)
        /\ Show(s.to, s.ver, s.ver, FALSE, s.by)
        /\ seen' = s.ver /\ submits' = submits \ {s}
        /\ UNCHANGED <<navSeq, navs, cache, version, intents, raced, reruns>>
    BY <1>3 DEF RenderAction
  <2>2. HistoryOK' /\ Location' = s.to
    <3>1. CASE s.to = Location BY <2>1, <3>1, Facts DEF KeepEntry, HistoryOK, Location
    <3>2. CASE s.to # Location BY <2>1, <3>2, SubmitFacts, Facts, PushKeeps
    <3>3. QED BY <3>1, <3>2
  <2>3. /\ seen <= seen' /\ seen' \in 0 .. version
        /\ \A v \in Pages : cache[v] # None => Knows(cache[v], seen')
    BY <1>1, <1>3, <2>1, TellsOfMutation
  <2>4. Counted' BY <2>1, <2>3, Facts DEF Counted
  <2>5. /\ \A n \in navs' : n \in navs /\ ~Live(n)
        /\ \A t \in submits' : t \in submits /\ ~Live(t)
        /\ raced = {} => s.by = intents
    BY <1>3, <2>1, LiveSubmit
  <2>6. s.ver \in Nat /\ s.by \in Nat /\ s.ver >= s.ver BY SubmitFacts
  <2>7. Show(Location', s.ver, s.ver, FALSE, s.by) BY <2>1, <2>2
  <2>8. QED BY <2>1, <2>2, <2>3, <2>4, <2>5, <2>6, <2>7, RenderKeeps
<1>4. QED BY <1>2, <1>3

LEMMA SubmitStepKeeps == ASSUME ClientInv, NEW s \in submits, SubmitStep(s) PROVE ClientInv'
  BY ServeSubmitStep, EndsUnserved, SubmitRespondsStep, RawBodyStep, SubmitBreaksStep,
     ActionBodyStep, RenderActionStep DEF SubmitStep
-----------------------------------------------------------------------------
(* The theorems.                                                           *)

LEMMA InitKeeps == Init => ClientInv
<1> SUFFICES ASSUME Init PROVE ClientInv OBVIOUS
<1> USE DEF Init
<1>1. Location = Home BY DEF Location
<1>2. HistoryOK BY RuntimeAssumption DEF HistoryOK, Entry
<1>3. Counted /\ rendered \in RenderType BY RuntimeAssumption DEF Counted, RenderType
<1>4. cache \in [Pages -> Fetch \cup {None}] BY DEF NoCache
<1>5. TypeOK BY <1>2, <1>3, <1>4, Types
<1>6. OneLive /\ AnswersKnown BY DEF OneLive, AnswersKnown
<1>7. AddressBar /\ IntentKept
  BY <1>1 DEF AddressBar, IntentKept, UrlMatchesPage, LastIntentShown
<1>8. MutationsKept BY DEF MutationsKept, ShowsKnownMutations, NoCache
<1>9. QED BY <1>5, <1>6, <1>7, <1>8 DEF ClientInv, NoRerun

LEMMA StepKeeps == ClientInv /\ [Next]_vars => ClientInv'
<1> SUFFICES ASSUME ClientInv, [Next]_vars PROVE ClientInv' OBVIOUS
<1>1. CASE UNCHANGED vars
  <2>1. navs' = navs /\ submits' = submits BY <1>1 DEF vars
  <2>2. UNCHANGED <<hist, at, rendered, navSeq, cache, version>> /\ UNCHANGED ghostVars
    BY <1>1 DEF vars, ghostVars
  <2>3. QED BY <2>1, <2>2, Drops
<1>2. CASE UserStep
  BY <1>2, ClickStep, PrefetchStep, TraverseStep, TraverseAwayStep, SubmitStarts DEF UserStep
<1>3. CASE \E u \in Pages : ServePrefetch(u) \/ Expire(u)
  BY <1>3, ServePrefetchStep, ExpireStep
<1>4. CASE \E n \in navs : NavStep(n) BY <1>4, NavStepKeeps
<1>5. CASE \E s \in submits : SubmitStep(s) BY <1>5, SubmitStepKeeps
<1>6. QED BY <1>1, <1>2, <1>3, <1>4, <1>5 DEF Next

\* The invariant of navigate, runSubmit and the prefetch cache, for every site,
\* every history and every interleaving of their awaits; runtime.ts:136-530.
THEOREM ClientInvariance == Spec => []ClientInv
  BY InitKeeps, StepKeeps, PTL DEF Spec

\* The state of the runtime has the types it is declared with.
THEOREM ClientTyping == Spec => []TypeOK
<1>1. ClientInv => TypeOK BY DEF ClientInv
<1>2. QED BY <1>1, ClientInvariance, PTL

\* Once nothing in flight may touch the page, it is the page of the address bar.
\* runtime.ts:145-147, 324-328, 339-350, 512-520.
THEOREM UrlMatchesPageAlways == Spec => []UrlMatchesPage
<1>1. ClientInv => UrlMatchesPage BY DEF ClientInv, AddressBar, UrlMatchesPage
<1>2. QED BY <1>1, ClientInvariance, PTL

\* The page is then the answer to the last thing the user asked for.
\* runtime.ts:283-285.
THEOREM LastIntentShownAlways == Spec => []LastIntentShown
<1>1. ClientInv => LastIntentShown BY DEF ClientInv, IntentKept, LastIntentShown
<1>2. QED BY <1>1, ClientInvariance, PTL

\* A page rendered after an action's answer shows that action's mutation, unless
\* its props raced a post.  runtime.ts:433-435.
THEOREM ShowsKnownMutationsAlways == Spec => []ShowsKnownMutations
<1>1. ClientInv => ShowsKnownMutations BY DEF ClientInv, MutationsKept
<1>2. QED BY <1>1, ClientInvariance, PTL

\* The browser never posts again an action whose answer was not lost.
\* runtime.ts:443-447, 467-477.
THEOREM NoRerunAlways == Spec => []NoRerun
<1>1. ClientInv => NoRerun BY DEF ClientInv
<1>2. QED BY <1>1, ClientInvariance, PTL
-----------------------------------------------------------------------------
(* A page that streams in and then runs.                                   *)

LEMMA LoadStepRuns == [LoadNext]_loadVars => [Next]_vars
  BY DEF LoadNext, loadVars

LEMMA LoadStepStreams == [LoadNext]_loadVars => [DocumentNext]_documentVars
  BY DEF LoadNext, loadVars

\* Every load of a page is a run of the runtime, and fair to it: waiting for the
\* whole document takes nothing from it; util.ts:383-540, runtime.ts:136-175.
THEOREM LoadRunsRuntime == LoadSpec => Spec
  BY LoadStepRuns, PTL DEF LoadSpec, LoadInit, Spec

\* Every load of a page is a run of the stream: nothing the runtime does reaches
\* back into the response it came in.
THEOREM LoadStreamsDocument == LoadSpec => DocumentSpec
  BY LoadStepStreams, PTL DEF LoadSpec, LoadInit, DocumentSpec

\* So what holds of either alone holds of the page: the whole document or an error,
\* and then a page, an address bar and a last intent that agree.
THEOREM PageLoadSafe == LoadSpec => [](ClientInv /\ DocumentInv)
  BY LoadRunsRuntime, LoadStreamsDocument, ClientInvariance, DocumentInvariance, PTL
=============================================================================
