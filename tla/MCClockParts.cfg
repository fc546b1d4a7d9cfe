\* A ring of four measurements of three levels; every minute of the day;
\* commands of up to three letters and noise longer than the buffer; the ends
\* of months and of a leap year, of the years around it and of the century;
\* every hour of eight years, 2000 and its leap day among them.
SPECIFICATION MCSpec
CONSTANTS
  Size = 4
  Levels = {0, 100, 255}
  Letters = {"c", "q"}
  MaxLine = 3
  UART_MAXSTRLEN = 5
  Pattern = "q"
  PatternLength = 3
  Years = {0, 3, 4, 5, 99}
  MaxSteps = 2
  LastYear = 7
  Zones <- AllZones
INVARIANTS WindowInv SaysTheTime PartsInv SummerTimeByLaw
PROPERTIES Settles ActsLikeMail FreeLineArrives StepsAreExact
