CONSTANTS
  Cpu = {c1, c2}
  Task = {t1}
  Event = {e1, e2}
  None = None
  ChannelSize = 2
  MaxBind = 2
  wm = wm
  app = app
  ps2 = ps2
  Nil = Nil
  Proc = {wm, app, ps2}
  IPC_CHANNEL_SIZE = 2
  Devices = {"mouse", "keyboard"}
  MaxPackets <- OneAndOne
SPECIFICATION RuntimeSpec
CHECK_DEADLOCK FALSE
INVARIANT AnswersMatch
