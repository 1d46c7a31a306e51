SPECIFICATION Spec
CONSTANTS
  Numbers = {0, 1}
  Songs = {"song"}
  MaxMessages = 1
  Values = {1, 2}
  Trackers = {"head", "1", "9"}
  Bones = {"LeftToes", "Hips"}
  Sizes = {24, 9950}
  Payloads = {0, 160, 9980}
  Users = {0, 65535}
  Events = {20, 300}
  Files = {0}
  FileNames = {1, 255}
  BodySpace = 1000000
  None = None
INVARIANT ServerMessageReencodes
