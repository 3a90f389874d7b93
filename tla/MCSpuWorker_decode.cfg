SPECIFICATION Spec
CONSTANTS
  v1 = v1
  v2 = v2
  Slots = 2
  Voices <- TwoVoices
  CaptureVoice = v1
  Callers <- AudioCallers
  FixedUpdates = FALSE
  MayToggle = FALSE
  MaxUpdates = 5
INVARIANT SilentVoiceCleared
