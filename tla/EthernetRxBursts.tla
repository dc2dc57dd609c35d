-------------------------- MODULE EthernetRxBursts --------------------------
(***************************************************************************)
(* The receive path with a count of LWIP_RX's reads of the data port.      *)
(*                                                                         *)
(* empty_rx_fifo may read a word too many on each call, which a burst of   *)
(* frames adds up: the words come from the frames that still wait.  A      *)
(* burst is over when LWIP_RX has read all that the controller holds, and  *)
(* any number of bursts may follow.                                        *)
(***************************************************************************)
EXTENDS EthernetRx

VARIABLE reads   \* history: calls of smsc9220_receive_by_chunks in the present burst

\* No frame waits, and LWIP_RX is not at one.
Drained == rxStatus = << >> /\ pc \notin {"alloc", "receive", "drop"}

Counts ==
    reads' = IF Drained' THEN 0 ELSE IF TaskReceive \/ TaskDrop THEN reads + 1 ELSE reads

BurstInit == Init /\ reads = 0
BurstNext == Next /\ Counts
BurstSpec == BurstInit /\ [][BurstNext]_<<vars, reads>>
FairBurstSpec == BurstSpec /\ Fairness

\* A frame whose burst has taken LWIP_RX as many reads as the frame has words: read
\* with the frames before it, at one word too many each, it may have no data left.
Eaten(frame) == Words(frame.len) <= reads

\* When everything is at rest the next frame will interrupt, and a frame that came after
\* low_level_init cleared the controller is left there only if it is eaten: the window
\* between LWIP_RX's last peek and its smsc9220_enable_interrupt loses no wake-up, and
\* smsc9220_receive_by_chunks no frame but by the words that it reads too many.  A
\* received frame takes one read, a 1000-byte frame dropped in 64-byte chunks 16.
BurstKept ==
    AtRest => /\ intEn /\ ~intSts
              /\ \A i \in 1..Len(rxStatus) : rxStatus[i].late => Eaten(rxStatus[i])

\* Every frame that arrives after initialisation is taken from the FIFO, unless LWIP_RX comes
\* to rest when it is eaten: also one that arrives while the handler or the task is
\* at work, also when there is no pbuf for it.
FrameServed ==
    \A f \in 1..MaxFrames :
        Queued(f) ~> \/ ~Queued(f)
                     \/ AtRest /\ \A i \in 1..Len(rxStatus) : rxStatus[i].id = f => Eaten(rxStatus[i])
=============================================================================
