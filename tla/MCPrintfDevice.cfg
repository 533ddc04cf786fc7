SPECIFICATION Spec
CONSTANTS
    SCREEN_WIDTH = 4
    SCREEN_HEIGHT = 2
    Printable <- MCPrintable
    Programs = {"core"}
    WORD = 32
    LONG_WORD = 256
    Words = {0, 10, 22}
    LongWords = {0, 128, 255}
    Strings <- MCStrings
    Formats <- MCFormats
    Colors <- MCColors
    ColorReset <- MCColorReset
    LogFormats <- MCLogFormats
    Buffers <- MCBuffers
    MaxCalls = 3
INVARIANT
    DeviceWritesNumbers
