SPECIFICATION Spec
CONSTANTS
    Length = 5
    BufferSize = 2
    Actions = {"noifcompleted", "ifexpired", "forced"}
    Settings = {{}, {"DisconnectOnPause"}, {"DisconnectOnReset"}, {"AutoConnect"}}
    MaxVersion = 2
    MaxStarts = 3
    Events = {"expire", "move", "suspend", "norange", "efailed", "media", "crash"}
INVARIANTS FileIsPrefix SizeIsFile QuietUnlessInProgress
