------------------------------- MODULE MCDma -------------------------------
(* The DMA driver with two tasks that use its queues, one of them the SPI flash as
   well, and the audio task.  Either all four channels are theirs, which is as many
   as they can need, or two of them. *)
EXTENDS Dma, TLC

CONSTANTS card, copy, audio

MCTasks  == {card, copy, audio}
MCDoes   == (card :> {"wait"}) @@ (copy :> {"fill", "poll", "spi"}) @@ (audio :> {"dbuf"})
MCOthers == {{}, {0, 1}}
=============================================================================
