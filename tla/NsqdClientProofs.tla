--------------------------- MODULE NsqdClientProofs ---------------------------
(***************************************************************************)
(* The flow control of NsqdClient for any RDY limit, any number of         *)
(* messages, of callers of the HTTP API, of calls of Empty and of faults.  *)
(***************************************************************************)
EXTENDS NsqdClient, TLAPS

(* While the connection lives, a pump that has, or will be told of, its    *)
(* channel belongs to a client in the channel's clients map: doPause and   *)
(* Empty reach it.                                                         *)
Reachable ==
    /\ (\/ subChannel \/ subEventChan \/ State # "init"
        \/ io \in {"subscribe", "closing", "closeSignal"})
          => (joined \/ io = "gone")
    /\ pump \in {"rdy", "inflt", "on", "start", "sending"} => subChannel

(* A ReadyCount that changed after the pump read it is announced.          *)
StaleReadAnnounced ==
    (/\ pump = "inflt"
     /\ ReadyCount # readyCount
     /\ io \notin {"exit", "gone"})
        => WakeUpPending

(* What the pump has read since the last change is what it would read now. *)
LateIsLast ==
    /\ late \in 0 .. 1
    /\ late = 1 =>
         /\ ~IsReadyForMessages
         /\ pump # "on"
         /\ pump = "rdy" => ~paused
         /\ pump = "inflt" => ~paused /\ readyCount = ReadyCount

(* InFlightCount never falls below what is in flight: it is raised last    *)
(* and lowered last, by the message the pump is sending and by the ones    *)
(* IOLoop and the scan have taken out.                                     *)
Sending == IF pump = "sending" THEN 1 ELSE 0
IoCounting == IF io = "count" THEN 1 ELSE 0
ScanCounting == IF scan \in {"lookup", "count"} THEN 1 ELSE 0
CountCovers ==
    /\ emptier # "idle" => empties > 0
    /\ ReadyCount <= maxRdy /\ readyCount <= maxRdy
    /\ empties = 0 =>
         /\ outstanding + IoCounting + ScanCounting <= InFlightCount + Sending
         /\ pump \in {"on", "start"} => InFlightCount < maxRdy

ClientInv ==
    /\ TypeOK /\ Reachable
    /\ NoLostWakeup /\ StaleReadAnnounced
    /\ LateIsLast
    /\ CountCovers /\ RdyRespected

(* Every step of the pump, of IOLoop, of the scan and of the HTTP API      *)
(* keeps the types: a send never overfills ReadyStateChan.                 *)
LEMMA TypeStep ==
  ASSUME TypeOK, [Next]_vars
  PROVE  TypeOK'
<1> USE ClientConstants DEF TypeOK, counts, session, chans, queue, pumpVars, admin
<1>1. CASE PumpTop
    BY <1>1 DEF PumpTop
<1>2. CASE PumpReadReadyCount
    BY <1>2 DEF PumpReadReadyCount
<1>3. CASE PumpReadInFlightCount
    BY <1>3 DEF PumpReadInFlightCount
<1>4. CASE PumpFlush
  <2>1. flushed' \in BOOLEAN
    BY <1>4, ZenonT(60) DEF PumpFlush
  <2> QED
    BY <1>4, <2>1 DEF PumpFlush
<1>5. CASE SelectReadyState
    BY <1>5 DEF SelectReadyState, Selecting
<1>6. CASE SelectSubEvent
  <2>1. subEventChan' \in BOOLEAN /\ subChannel' \in BOOLEAN
    BY <1>6, ZenonT(60) DEF SelectSubEvent, Selecting
  <2> QED
    BY <1>6, <2>1 DEF SelectSubEvent, Selecting
<1>7. CASE SelectFlusher
  <2>1. flushed' \in BOOLEAN
    BY <1>7, ZenonT(60) DEF SelectFlusher
  <2> QED
    BY <1>7, <2>1 DEF SelectFlusher
<1>8. CASE SelectHeartbeat
    BY <1>8 DEF SelectHeartbeat, Selecting
<1>9. CASE SelectMessage
    BY <1>9 DEF SelectMessage
<1>10. CASE SelectSampledOut
    BY <1>10 DEF SelectSampledOut
<1>11. CASE StartInFlightTimeout
    BY <1>11 DEF StartInFlightTimeout
<1>12. CASE SendingMessage
  <2>1. flushed' \in BOOLEAN
    BY <1>12, ZenonT(60) DEF SendingMessage
  <2> QED
    BY <1>12, <2>1 DEF SendingMessage
<1>13. CASE PumpExit
    BY <1>13 DEF PumpExit, Selecting
<1>14. CASE SUB
    BY <1>14 DEF SUB
<1>15. CASE SubscribeEvent
    BY <1>15 DEF SubscribeEvent
<1>16. CASE CLS
    BY <1>16 DEF CLS, SetReadyCount
<1>17. CASE StartClose
    BY <1>17 DEF StartClose
<1>18. CASE \E n \in 0 .. MaxRdyCount : RDY(n)
    BY <1>18 DEF RDY, SetReadyCount
<1>19. CASE FIN
    BY <1>19 DEF FIN, Nameable
<1>20. CASE \E b \in 0 .. 1 : REQ(b)
    BY <1>20 DEF REQ, Nameable
<1>21. CASE REQFailed
    BY <1>21 DEF REQFailed, Nameable
<1>22. CASE IoUncount
    BY <1>22 DEF IoUncount, Uncount
<1>23. CASE IoSignal
    BY <1>23 DEF IoSignal, tryUpdateReadyState
<1>24. CASE IoExit
    BY <1>24 DEF IoExit
<1>25. CASE RemoveClient
  <2>1. joined' \in BOOLEAN
    BY <1>25, ZenonT(60) DEF RemoveClient
  <2> QED
    BY <1>25, <2>1 DEF RemoveClient
<1>26. CASE ScanPop
    BY <1>26 DEF ScanPop
<1>27. CASE ScanLookup
    BY <1>27 DEF ScanLookup
<1>28. CASE ScanUncount
    BY <1>28 DEF ScanUncount, Uncount
<1>29. CASE ScanSignal
    BY <1>29 DEF ScanSignal, tryUpdateReadyState
<1>30. CASE ScanPut
    BY <1>30 DEF ScanPut
<1>31. CASE \E p \in Pausers, x \in BOOLEAN : doPause(p, x)
    BY <1>31 DEF doPause
<1>32. CASE \E p \in Pausers : PauseSignal(p)
    BY <1>32 DEF PauseSignal, tryUpdateReadyState
<1>33. CASE EmptyStart
    BY <1>33 DEF EmptyStart
<1>34. CASE EmptyCount
    BY <1>34 DEF EmptyCount
<1>35. CASE EmptySignal
    BY <1>35 DEF EmptySignal, tryUpdateReadyState
<1>36. CASE EmptyDrain
    BY <1>36 DEF EmptyDrain
<1>37. CASE PutMessage
    BY <1>37 DEF PutMessage
<1>38. CASE OtherConsumer
    BY <1>38 DEF OtherConsumer
<1>39. CASE UNCHANGED vars
    BY <1>39 DEF vars
<1> QED
    BY <1>1, <1>2, <1>3, <1>4, <1>5, <1>6, <1>7, <1>8, <1>9, <1>10, <1>11,
     <1>12, <1>13, <1>14, <1>15, <1>16, <1>17, <1>18, <1>19, <1>20, <1>21,
     <1>22, <1>23, <1>24, <1>25, <1>26, <1>27, <1>28, <1>29, <1>30, <1>31,
     <1>32, <1>33, <1>34, <1>35, <1>36, <1>37, <1>38, <1>39, ZenonT(60) DEF Next,
     messagePump, IOLoop, processInFlightQueue, HttpApi

(* SUB adds the client to the channel before it tells the pump, and only   *)
(* the end of IOLoop removes it (RemoveClient).                            *)
LEMMA ReachableStep ==
  ASSUME TypeOK, Reachable, [Next]_vars
  PROVE  Reachable'
<1> USE DEF TypeOK, Reachable, counts, session, chans, queue, pumpVars, admin
<1>1. CASE PumpTop
    BY <1>1 DEF PumpTop
<1>2. CASE PumpReadReadyCount
    BY <1>2 DEF PumpReadReadyCount
<1>3. CASE PumpReadInFlightCount
    BY <1>3 DEF PumpReadInFlightCount
<1>4. CASE PumpFlush
    BY <1>4 DEF PumpFlush
<1>5. CASE SelectReadyState
    BY <1>5 DEF SelectReadyState, Selecting
<1>6. CASE SelectSubEvent
    BY <1>6 DEF SelectSubEvent, Selecting
<1>7. CASE SelectFlusher
    BY <1>7 DEF SelectFlusher
<1>8. CASE SelectHeartbeat
    BY <1>8 DEF SelectHeartbeat, Selecting
<1>9. CASE SelectMessage
    BY <1>9 DEF SelectMessage
<1>10. CASE SelectSampledOut
    BY <1>10 DEF SelectSampledOut
<1>11. CASE StartInFlightTimeout
    BY <1>11 DEF StartInFlightTimeout
<1>12. CASE SendingMessage
    BY <1>12 DEF SendingMessage
<1>13. CASE PumpExit
    BY <1>13 DEF PumpExit, Selecting
<1>14. CASE SUB
    BY <1>14 DEF SUB
<1>15. CASE SubscribeEvent
    BY <1>15 DEF SubscribeEvent
<1>16. CASE CLS
    BY <1>16 DEF CLS, SetReadyCount
<1>17. CASE StartClose
    BY <1>17 DEF StartClose
<1>18. CASE \E n \in 0 .. MaxRdyCount : RDY(n)
    BY <1>18 DEF RDY, SetReadyCount
<1>19. CASE FIN
    BY <1>19 DEF FIN, Nameable
<1>20. CASE \E b \in 0 .. 1 : REQ(b)
    BY <1>20 DEF REQ, Nameable
<1>21. CASE REQFailed
    BY <1>21 DEF REQFailed, Nameable
<1>22. CASE IoUncount
    BY <1>22 DEF IoUncount, Uncount
<1>23. CASE IoSignal
    BY <1>23 DEF IoSignal, tryUpdateReadyState
<1>24. CASE IoExit
    BY <1>24 DEF IoExit
<1>25. CASE RemoveClient
    BY <1>25 DEF RemoveClient
<1>26. CASE ScanPop
    BY <1>26 DEF ScanPop
<1>27. CASE ScanLookup
    BY <1>27 DEF ScanLookup
<1>28. CASE ScanUncount
    BY <1>28, ZenonT(60) DEF ScanUncount, Uncount
<1>29. CASE ScanSignal
    BY <1>29 DEF ScanSignal, tryUpdateReadyState
<1>30. CASE ScanPut
    BY <1>30 DEF ScanPut
<1>31. CASE \E p \in Pausers, x \in BOOLEAN : doPause(p, x)
    BY <1>31 DEF doPause
<1>32. CASE \E p \in Pausers : PauseSignal(p)
    BY <1>32 DEF PauseSignal, tryUpdateReadyState
<1>33. CASE EmptyStart
    BY <1>33 DEF EmptyStart
<1>34. CASE EmptyCount
    BY <1>34 DEF EmptyCount
<1>35. CASE EmptySignal
    BY <1>35 DEF EmptySignal, tryUpdateReadyState
<1>36. CASE EmptyDrain
    BY <1>36 DEF EmptyDrain
<1>37. CASE PutMessage
    BY <1>37 DEF PutMessage
<1>38. CASE OtherConsumer
    BY <1>38, ZenonT(60) DEF OtherConsumer
<1>39. CASE UNCHANGED vars
    BY <1>39 DEF vars
<1> QED
    BY <1>1, <1>2, <1>3, <1>4, <1>5, <1>6, <1>7, <1>8, <1>9, <1>10, <1>11,
     <1>12, <1>13, <1>14, <1>15, <1>16, <1>17, <1>18, <1>19, <1>20, <1>21,
     <1>22, <1>23, <1>24, <1>25, <1>26, <1>27, <1>28, <1>29, <1>30, <1>31,
     <1>32, <1>33, <1>34, <1>35, <1>36, <1>37, <1>38, <1>39, ZenonT(60) DEF Next,
     messagePump, IOLoop, processInFlightQueue, HttpApi

(* Every store of a value that IsReadyForMessages reads is followed by a   *)
(* token, and only the pump's own select takes the token out again.        *)
LEMMA WakeStep ==
  ASSUME TypeOK, Reachable, NoLostWakeup, StaleReadAnnounced, [Next]_vars
  PROVE  NoLostWakeup' /\ StaleReadAnnounced'
<1> USE DEF TypeOK, Reachable, NoLostWakeup, StaleReadAnnounced, WakeUpPending,
            IsReadyForMessages, ReadyWith, counts, session, chans, queue, pumpVars, admin
<1>1. CASE PumpTop
    BY <1>1, ZenonT(60) DEF PumpTop
<1>2. CASE PumpReadReadyCount
    BY <1>2 DEF PumpReadReadyCount
<1>3. CASE PumpReadInFlightCount
    BY <1>3 DEF PumpReadInFlightCount
<1>4. CASE PumpFlush
    BY <1>4, ZenonT(60) DEF PumpFlush
<1>5. CASE SelectReadyState
    BY <1>5, ZenonT(60) DEF SelectReadyState, Selecting
<1>6. CASE SelectSubEvent
    BY <1>6, ZenonT(60) DEF SelectSubEvent, Selecting
<1>7. CASE SelectFlusher
    BY <1>7, ZenonT(60) DEF SelectFlusher
<1>8. CASE SelectHeartbeat
    BY <1>8 DEF SelectHeartbeat, Selecting
<1>9. CASE SelectMessage
    BY <1>9 DEF SelectMessage
<1>10. CASE SelectSampledOut
    BY <1>10 DEF SelectSampledOut
<1>11. CASE StartInFlightTimeout
    BY <1>11, ZenonT(60) DEF StartInFlightTimeout
<1>12. CASE SendingMessage
    BY <1>12, ZenonT(60) DEF SendingMessage
<1>13. CASE PumpExit
    BY <1>13, ZenonT(60) DEF PumpExit, Selecting
<1>14. CASE SUB
    BY <1>14, ZenonT(60) DEF SUB
<1>15. CASE SubscribeEvent
    BY <1>15, ZenonT(60) DEF SubscribeEvent
<1>16. CASE CLS
    BY <1>16, ZenonT(60) DEF CLS, SetReadyCount
<1>17. CASE StartClose
    BY <1>17 DEF StartClose
<1>18. CASE \E n \in 0 .. MaxRdyCount : RDY(n)
    BY <1>18 DEF RDY, SetReadyCount
<1>19. CASE FIN
    BY <1>19, ZenonT(60) DEF FIN, Nameable
<1>20. CASE \E b \in 0 .. 1 : REQ(b)
    BY <1>20 DEF REQ, Nameable
<1>21. CASE REQFailed
    BY <1>21 DEF REQFailed, Nameable
<1>22. CASE IoUncount
    BY <1>22 DEF IoUncount, Uncount
<1>23. CASE IoSignal
    BY <1>23 DEF IoSignal, tryUpdateReadyState
<1>24. CASE IoExit
    BY <1>24, ZenonT(60) DEF IoExit
<1>25. CASE RemoveClient
    BY <1>25, ZenonT(60) DEF RemoveClient
<1>26. CASE ScanPop
    BY <1>26, ZenonT(60) DEF ScanPop
<1>27. CASE ScanLookup
    BY <1>27, ZenonT(60) DEF ScanLookup
<1>28. CASE ScanUncount
    BY <1>28, ZenonT(60) DEF ScanUncount, Uncount
<1>29. CASE ScanSignal
    BY <1>29, ZenonT(60) DEF ScanSignal, tryUpdateReadyState
<1>30. CASE ScanPut
    BY <1>30, ZenonT(60) DEF ScanPut
<1>31. CASE \E p \in Pausers, x \in BOOLEAN : doPause(p, x)
    BY <1>31, ZenonT(60) DEF doPause
<1>32. CASE \E p \in Pausers : PauseSignal(p)
    BY <1>32 DEF PauseSignal, tryUpdateReadyState
<1>33. CASE EmptyStart
    BY <1>33, ZenonT(60) DEF EmptyStart
<1>34. CASE EmptyCount
    BY <1>34, ZenonT(60) DEF EmptyCount
<1>35. CASE EmptySignal
    BY <1>35, ZenonT(60) DEF EmptySignal, tryUpdateReadyState
<1>36. CASE EmptyDrain
    BY <1>36, ZenonT(60) DEF EmptyDrain
<1>37. CASE PutMessage
    BY <1>37, ZenonT(60) DEF PutMessage
<1>38. CASE OtherConsumer
    BY <1>38, ZenonT(60) DEF OtherConsumer
<1>39. CASE UNCHANGED vars
    BY <1>39 DEF vars
<1> QED
    BY <1>1, <1>2, <1>3, <1>4, <1>5, <1>6, <1>7, <1>8, <1>9, <1>10, <1>11,
     <1>12, <1>13, <1>14, <1>15, <1>16, <1>17, <1>18, <1>19, <1>20, <1>21,
     <1>22, <1>23, <1>24, <1>25, <1>26, <1>27, <1>28, <1>29, <1>30, <1>31,
     <1>32, <1>33, <1>34, <1>35, <1>36, <1>37, <1>38, <1>39, ZenonT(60) DEF Next,
     messagePump, IOLoop, processInFlightQueue, HttpApi

(* A message taken while the client was not ready is followed by three     *)
(* reads in IsReadyForMessages, which find it not ready.                   *)
LEMMA LateStep ==
  ASSUME TypeOK, LateIsLast, [Next]_vars
  PROVE  LateIsLast'
<1> USE DEF TypeOK, LateIsLast, IsReadyForMessages, ReadyWith,
            counts, session, chans, queue, pumpVars, admin
<1>1. CASE PumpTop
    BY <1>1 DEF PumpTop
<1>2. CASE PumpReadReadyCount
    BY <1>2, ZenonT(60) DEF PumpReadReadyCount
<1>3. CASE PumpReadInFlightCount
    BY <1>3 DEF PumpReadInFlightCount
<1>4. CASE PumpFlush
    BY <1>4, ZenonT(60) DEF PumpFlush
<1>5. CASE SelectReadyState
    BY <1>5, ZenonT(60) DEF SelectReadyState, Selecting
<1>6. CASE SelectSubEvent
    BY <1>6, ZenonT(60) DEF SelectSubEvent, Selecting
<1>7. CASE SelectFlusher
    BY <1>7, ZenonT(60) DEF SelectFlusher
<1>8. CASE SelectHeartbeat
    BY <1>8, ZenonT(60) DEF SelectHeartbeat, Selecting
<1>9. CASE SelectMessage
    BY <1>9 DEF SelectMessage
<1>10. CASE SelectSampledOut
    BY <1>10, ZenonT(60) DEF SelectSampledOut
<1>11. CASE StartInFlightTimeout
    BY <1>11, ZenonT(60) DEF StartInFlightTimeout
<1>12. CASE SendingMessage
    BY <1>12 DEF SendingMessage
<1>13. CASE PumpExit
    BY <1>13, ZenonT(60) DEF PumpExit, Selecting
<1>14. CASE SUB
    BY <1>14, ZenonT(60) DEF SUB
<1>15. CASE SubscribeEvent
    BY <1>15, ZenonT(60) DEF SubscribeEvent
<1>16. CASE CLS
    BY <1>16 DEF CLS, SetReadyCount
<1>17. CASE StartClose
    BY <1>17, ZenonT(60) DEF StartClose
<1>18. CASE \E n \in 0 .. MaxRdyCount : RDY(n)
    BY <1>18 DEF RDY, SetReadyCount
<1>19. CASE FIN
    BY <1>19, ZenonT(60) DEF FIN, Nameable
<1>20. CASE \E b \in 0 .. 1 : REQ(b)
    BY <1>20 DEF REQ, Nameable
<1>21. CASE REQFailed
    BY <1>21 DEF REQFailed, Nameable
<1>22. CASE IoUncount
    BY <1>22 DEF IoUncount, Uncount
<1>23. CASE IoSignal
    BY <1>23, ZenonT(60) DEF IoSignal, tryUpdateReadyState
<1>24. CASE IoExit
    BY <1>24, ZenonT(60) DEF IoExit
<1>25. CASE RemoveClient
    BY <1>25, ZenonT(60) DEF RemoveClient
<1>26. CASE ScanPop
    BY <1>26 DEF ScanPop
<1>27. CASE ScanLookup
    BY <1>27, ZenonT(60) DEF ScanLookup
<1>28. CASE ScanUncount
    BY <1>28 DEF ScanUncount, Uncount
<1>29. CASE ScanSignal
    BY <1>29, ZenonT(60) DEF ScanSignal, tryUpdateReadyState
<1>30. CASE ScanPut
    BY <1>30, ZenonT(60) DEF ScanPut
<1>31. CASE \E p \in Pausers, x \in BOOLEAN : doPause(p, x)
    BY <1>31 DEF doPause
<1>32. CASE \E p \in Pausers : PauseSignal(p)
    BY <1>32 DEF PauseSignal, tryUpdateReadyState
<1>33. CASE EmptyStart
    BY <1>33, ZenonT(60) DEF EmptyStart
<1>34. CASE EmptyCount
    BY <1>34 DEF EmptyCount
<1>35. CASE EmptySignal
    BY <1>35, ZenonT(60) DEF EmptySignal, tryUpdateReadyState
<1>36. CASE EmptyDrain
    BY <1>36, ZenonT(60) DEF EmptyDrain
<1>37. CASE PutMessage
    BY <1>37, ZenonT(60) DEF PutMessage
<1>38. CASE OtherConsumer
    BY <1>38, ZenonT(60) DEF OtherConsumer
<1>39. CASE UNCHANGED vars
    BY <1>39 DEF vars
<1> QED
    BY <1>1, <1>2, <1>3, <1>4, <1>5, <1>6, <1>7, <1>8, <1>9, <1>10, <1>11,
     <1>12, <1>13, <1>14, <1>15, <1>16, <1>17, <1>18, <1>19, <1>20, <1>21,
     <1>22, <1>23, <1>24, <1>25, <1>26, <1>27, <1>28, <1>29, <1>30, <1>31,
     <1>32, <1>33, <1>34, <1>35, <1>36, <1>37, <1>38, <1>39, ZenonT(60) DEF Next,
     messagePump, IOLoop, processInFlightQueue, HttpApi

(* SendingMessage raises InFlightCount after StartInFlightTimeout;         *)
(* FinishedMessage, RequeuedMessage and TimedOutMessage lower it after the *)
(* message has left inFlightMessages.                                      *)
LEMMA CountStep ==
  ASSUME TypeOK, CountCovers, RdyRespected, [Next]_vars
  PROVE  CountCovers' /\ RdyRespected'
<1> USE DEF TypeOK, CountCovers, RdyRespected, Held, Sending, IoCounting,
            ScanCounting, counts, session, chans, queue, pumpVars, admin
<1>1. CASE PumpTop
    BY <1>1, ZenonT(60) DEF PumpTop
<1>2. CASE PumpReadReadyCount
    BY <1>2, ZenonT(60) DEF PumpReadReadyCount
<1>3. CASE PumpReadInFlightCount
    BY <1>3 DEF PumpReadInFlightCount
<1>4. CASE PumpFlush
    BY <1>4, ZenonT(60) DEF PumpFlush
<1>5. CASE SelectReadyState
    BY <1>5, ZenonT(60) DEF SelectReadyState, Selecting
<1>6. CASE SelectSubEvent
    BY <1>6, ZenonT(60) DEF SelectSubEvent, Selecting
<1>7. CASE SelectFlusher
    BY <1>7, ZenonT(60) DEF SelectFlusher
<1>8. CASE SelectHeartbeat
    BY <1>8, ZenonT(60) DEF SelectHeartbeat, Selecting
<1>9. CASE SelectMessage
    BY <1>9 DEF SelectMessage
<1>10. CASE SelectSampledOut
    BY <1>10, ZenonT(60) DEF SelectSampledOut
<1>11. CASE StartInFlightTimeout
    BY <1>11 DEF StartInFlightTimeout
<1>12. CASE SendingMessage
    BY <1>12 DEF SendingMessage
<1>13. CASE PumpExit
    BY <1>13, ZenonT(60) DEF PumpExit, Selecting
<1>14. CASE SUB
    BY <1>14, ZenonT(60) DEF SUB
<1>15. CASE SubscribeEvent
    BY <1>15, ZenonT(60) DEF SubscribeEvent
<1>16. CASE CLS
    BY <1>16 DEF CLS, SetReadyCount
<1>17. CASE StartClose
    BY <1>17, ZenonT(60) DEF StartClose
<1>18. CASE \E n \in 0 .. MaxRdyCount : RDY(n)
    BY <1>18 DEF RDY, SetReadyCount
<1>19. CASE FIN
    BY <1>19 DEF FIN, Nameable
<1>20. CASE \E b \in 0 .. 1 : REQ(b)
    BY <1>20 DEF REQ, Nameable
<1>21. CASE REQFailed
    BY <1>21 DEF REQFailed, Nameable
<1>22. CASE IoUncount
    BY <1>22 DEF IoUncount, Uncount
<1>23. CASE IoSignal
    BY <1>23, ZenonT(60) DEF IoSignal, tryUpdateReadyState
<1>24. CASE IoExit
    BY <1>24, ZenonT(60) DEF IoExit
<1>25. CASE RemoveClient
    BY <1>25, ZenonT(60) DEF RemoveClient
<1>26. CASE ScanPop
    BY <1>26 DEF ScanPop
<1>27. CASE ScanLookup
    BY <1>27 DEF ScanLookup
<1>28. CASE ScanUncount
    BY <1>28 DEF ScanUncount, Uncount
<1>29. CASE ScanSignal
    BY <1>29, ZenonT(60) DEF ScanSignal, tryUpdateReadyState
<1>30. CASE ScanPut
    BY <1>30, ZenonT(60) DEF ScanPut
<1>31. CASE \E p \in Pausers, x \in BOOLEAN : doPause(p, x)
    BY <1>31, ZenonT(60) DEF doPause
<1>32. CASE \E p \in Pausers : PauseSignal(p)
    BY <1>32, ZenonT(60) DEF PauseSignal, tryUpdateReadyState
<1>33. CASE EmptyStart
    BY <1>33 DEF EmptyStart
<1>34. CASE EmptyCount
    BY <1>34 DEF EmptyCount
<1>35. CASE EmptySignal
    BY <1>35, ZenonT(60) DEF EmptySignal, tryUpdateReadyState
<1>36. CASE EmptyDrain
    BY <1>36, ZenonT(60) DEF EmptyDrain
<1>37. CASE PutMessage
    BY <1>37, ZenonT(60) DEF PutMessage
<1>38. CASE OtherConsumer
    BY <1>38, ZenonT(60) DEF OtherConsumer
<1>39. CASE UNCHANGED vars
    BY <1>39 DEF vars
<1> QED
    BY <1>1, <1>2, <1>3, <1>4, <1>5, <1>6, <1>7, <1>8, <1>9, <1>10, <1>11,
     <1>12, <1>13, <1>14, <1>15, <1>16, <1>17, <1>18, <1>19, <1>20, <1>21,
     <1>22, <1>23, <1>24, <1>25, <1>26, <1>27, <1>28, <1>29, <1>30, <1>31,
     <1>32, <1>33, <1>34, <1>35, <1>36, <1>37, <1>38, <1>39, ZenonT(60) DEF Next,
     messagePump, IOLoop, processInFlightQueue, HttpApi

(* newClientV2 establishes the invariant.                                  *)
LEMMA ClientInvInit == Init => ClientInv
<1> SUFFICES ASSUME Init PROVE ClientInv
  OBVIOUS
<1>1. /\ joined \in BOOLEAN /\ subEventChan \in BOOLEAN /\ paused \in BOOLEAN
      /\ subChannel \in BOOLEAN /\ flushed \in BOOLEAN /\ resent \in BOOLEAN
  BY ZenonT(60) DEF Init
<1>2. TypeOK
  BY <1>1, ClientConstants DEF Init, TypeOK
<1>3. Reachable /\ NoLostWakeup /\ StaleReadAnnounced
  BY DEF Init, Reachable, NoLostWakeup, StaleReadAnnounced
<1>4. LateIsLast /\ CountCovers /\ RdyRespected
  BY DEF Init, LateIsLast, CountCovers, RdyRespected, Held, Sending,
         IoCounting, ScanCounting
<1> QED
  BY <1>2, <1>3, <1>4 DEF ClientInv

(* The inductive invariant of the flow control between messagePump, IOLoop *)
(* and the goroutines that change a client's readiness.                    *)
THEOREM ClientInvariant == Spec => []ClientInv
<1>1. ClientInv /\ [Next]_vars => ClientInv'
  BY TypeStep, ReachableStep, WakeStep, LateStep, CountStep DEF ClientInv
<1> QED
  BY ClientInvInit, <1>1, PTL DEF Spec

(* No change of readiness is lost between the goroutines that make it and  *)
(* the pump that waits for it in its select (tryUpdateReadyState).         *)
THEOREM WakeupNeverLost == Spec => []NoLostWakeup
<1>1. ClientInv => NoLostWakeup
  BY DEF ClientInv
<1> QED
  BY ClientInvariant, <1>1, PTL

(* RDY 0, CLS and pause let through at most one message that the pump's    *)
(* select was waiting for.                                                 *)
THEOREM LateBounded == Spec => []AtMostOneLate
<1>1. ClientInv => AtMostOneLate
  BY DEF ClientInv, LateIsLast, AtMostOneLate
<1> QED
  BY ClientInvariant, <1>1, PTL

(* messagePump never has more messages in flight at a consumer than the    *)
(* largest RDY of that consumer.                                           *)
THEOREM InFlightBounded == Spec => []RdyRespected
<1>1. ClientInv => RdyRespected
  BY DEF ClientInv
<1> QED
  BY ClientInvariant, <1>1, PTL

(* The counters, flags and program counters that the goroutines of a       *)
(* client share keep their ranges, for every number of pausers and every   *)
(* bound on RDY.                                                           *)
THEOREM ClientTypes == Spec => []TypeOK
<1>1. ClientInv => TypeOK
  BY DEF ClientInv
<1> QED
  BY ClientInvariant, <1>1, PTL
=============================================================================
