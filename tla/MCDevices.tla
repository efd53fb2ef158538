----------------------------- MODULE MCDevices -----------------------------
(* The devices on small instances.  A behaviour is one of a single device    *)
(* with what it works on, chosen at the start.                               *)
EXTENDS Uart, Timer, Video, Pic, Boot, Network, Audio, Rtc, Keys

\* The ROM's bytes differ from those of the images and frames.
MCRom == [x \in 0 .. RomSize - 1 |-> 2 + (x % 2)]
\* An image with room for the kernel, and one that is a sector short.
MCDisks == {<<1, 0, 1, 2, 0, 1>>, <<1, 2, 1, 1>>}

VARIABLE device

deviceVars == <<uartVars, timerVars, videoVars, picVars, bootVars, netVars, audioVars,
                rtcVars, keysAll>>

InUart == device = "uart" /\ UartNext
  /\ UNCHANGED <<timerVars, videoVars, picVars, bootVars, netVars, audioVars, rtcVars, keysAll>>
InTimer == device = "timer" /\ TimerNext
  /\ UNCHANGED <<uartVars, videoVars, picVars, bootVars, netVars, audioVars, rtcVars, keysAll>>
InVideo == device = "video" /\ VideoNext
  /\ UNCHANGED <<uartVars, timerVars, picVars, bootVars, netVars, audioVars, rtcVars, keysAll>>
InPic == device = "pic" /\ PicNext
  /\ UNCHANGED <<uartVars, timerVars, videoVars, bootVars, netVars, audioVars, rtcVars, keysAll>>
InStorage == device = "storage" /\ StorageNext /\ UNCHANGED romPc
  /\ UNCHANGED <<uartVars, timerVars, videoVars, picVars, netVars, audioVars, rtcVars, keysAll>>
InBoot == device = "boot" /\ BootNext
  /\ UNCHANGED <<uartVars, timerVars, videoVars, picVars, netVars, audioVars, rtcVars, keysAll>>
InNetwork == device = "network" /\ NetworkNext /\ UNCHANGED <<storageVars, romPc>>
  /\ UNCHANGED <<uartVars, timerVars, videoVars, picVars, audioVars, rtcVars, keysAll>>
InAudio == device = "audio" /\ AudioNext
  /\ UNCHANGED <<uartVars, timerVars, videoVars, picVars, bootVars, netVars, rtcVars, keysAll>>
InRtc == device = "rtc" /\ RtcNext
  /\ UNCHANGED <<uartVars, timerVars, videoVars, picVars, bootVars, netVars, audioVars, keysAll>>
InParallel == device = "parallel" /\ ParallelNext /\ UNCHANGED keyVars
  /\ UNCHANGED <<uartVars, timerVars, videoVars, picVars, bootVars, netVars, audioVars, rtcVars>>
InKeys == device = "keys" /\ KeysNext
  /\ UNCHANGED <<uartVars, timerVars, videoVars, picVars, bootVars, netVars, audioVars, rtcVars>>

MCInit ==
  /\ UartInit /\ TimerInit /\ VideoInit /\ PicInit
  /\ NetworkInit /\ AudioInit /\ RtcInit
  /\ BootInit
  /\ device \in {"uart", "timer", "video", "pic", "storage", "boot", "network", "audio",
                 "rtc", "parallel", "keys"}
  /\ (device \notin {"storage", "boot"} => attached = "none" /\ image = <<1, 2, 1, 1>>)
  /\ KeysInit
MCNext ==
  /\ UNCHANGED device
  /\ InUart \/ InTimer \/ InVideo \/ InPic \/ InStorage \/ InBoot \/ InNetwork
     \/ InAudio \/ InRtc \/ InParallel \/ InKeys
MCSpec == MCInit /\ [][MCNext]_<<device, deviceVars>>
=============================================================================
