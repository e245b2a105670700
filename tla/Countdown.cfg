\* ping_freq of 7.5 seconds: late timers and one refusal in a row are survived.
CONSTANTS
  CancelOnDisconnect = TRUE
  PingFreq = 30
  Second = 4
  Period = 2
  Delay = 3
  Losses = 1
SPECIFICATION Spec
INVARIANTS TypeOK KeptAlive RunsOutWhenCutOff
